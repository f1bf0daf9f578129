----------------------------- MODULE Text_proofs -----------------------------
(***************************************************************************)
(* What the recursive definitions of Text return, for texts of any length. *)
(***************************************************************************)
EXTENDS Options, SequenceTheorems, Numbers_proofs

LEMMA LeastIn ==
  ASSUME NEW S, S \subseteq Nat, S # {}
  PROVE  Min(S) \in S /\ \A y \in S : Min(S) <= y
  <1> DEFINE P(x) == \A y \in S : x =< y
  <1>1. \E x \in S : P(x)
    BY Least
  <1> DEFINE m == CHOOSE x \in S : P(x)
  <1> HIDE DEF P
  <1>2. m \in S /\ P(m)
    BY <1>1, Zenon
  <1>3. m = Min(S)
    BY Zenon DEF P, Min
  <1> QED
    BY <1>2, <1>3, Zenon DEF P

-----------------------------------------------------------------------------
(* Strings *)

(* What a string is.  The operators of Text take strings apart and put     *)
(* them together; to the provers a string is an atom, and that it is a     *)
(* sequence of characters is the hypothesis of the theorems about text.    *)
StringsAreSequences == \E Character : STRING = Seq(Character)

LEMMA PartOfText ==
  ASSUME NEW C, NEW s \in Seq(C), NEW i \in Nat \ {0}, NEW j \in Int, j <= Len(s)
  PROVE  /\ SubSeq(s, i, j) \in Seq(C)
         /\ Len(SubSeq(s, i, j)) = IF i <= j THEN j - i + 1 ELSE 0
         /\ \A k \in 1 .. j - i + 1 : SubSeq(s, i, j)[k] = s[i + k - 1]
  <1>1. CASE i <= j
    BY <1>1
  <1>2. CASE ~(i <= j)
    <2>1. SubSeq(s, i, j) = <<>>
      BY <1>2
    <2> QED
      BY <1>2, <2>1
  <1> QED
    BY <1>1, <1>2

LEMMA TextLaws ==
  ASSUME StringsAreSequences
  PROVE  /\ \A s \in STRING : Len(s) \in Nat
         /\ \A s \in STRING : \A i \in Nat \ {0} : \A j \in Int :
              j <= Len(s) => SubSeq(s, i, j) \in STRING
         /\ \A s, t \in STRING : s \o t \in STRING
  <1> PICK C : STRING = Seq(C)
    BY DEF StringsAreSequences
  <1>1. \A s \in Seq(C) : Len(s) \in Nat
    OBVIOUS
  <1>2. \A s \in Seq(C) : \A i \in Nat \ {0} : \A j \in Int :
          j <= Len(s) => SubSeq(s, i, j) \in Seq(C)
    BY PartOfText
  <1>3. \A s, t \in Seq(C) : s \o t \in Seq(C)
    OBVIOUS
  <1> QED
    BY <1>1, <1>2, <1>3, Zenon

LEMMA OneOf ==
  ASSUME NEW C, NEW s \in Seq(C), NEW i \in 1 .. Len(s)
  PROVE  SubSeq(s, i, i) \in Seq(C) /\ Len(SubSeq(s, i, i)) = 1 /\ SubSeq(s, i, i)[1] = s[i]
  <1>1. i \in Nat \ {0} /\ i \in Int /\ i <= Len(s) /\ i - i + 1 = 1 /\ i + 1 - 1 = i
    OBVIOUS
  <1> QED
    BY <1>1, PartOfText

LEMMA CharacterAt ==
  ASSUME StringsAreSequences, NEW s \in STRING, NEW i \in 1 .. Len(s)
  PROVE  SubSeq(s, i, i) \in STRING /\ Len(SubSeq(s, i, i)) = 1
  <1> PICK C : STRING = Seq(C)
    BY DEF StringsAreSequences
  <1> QED
    BY OneOf, Zenon

LEMMA EmptyText == "" \in STRING
  BY LiteralsAssumption, Zenon

LEMMA SameElements ==
  ASSUME NEW C, NEW s \in Seq(C), NEW t \in Seq(C), Len(s) = Len(t),
         \A i \in 1 .. Len(s) : s[i] = t[i]
  PROVE  s = t
  BY SeqEqual

LEMMA SameParts ==
  ASSUME NEW C, NEW s \in Seq(C), NEW t \in Seq(C), NEW i \in Nat \ {0}, NEW j \in Int, j <= Len(s),
         NEW k \in Nat \ {0}, NEW l \in Int, l <= Len(t), j - i = l - k, i <= j + 1,
         \A m \in 0 .. j - i : s[i + m] = t[k + m]
  PROVE  SubSeq(s, i, j) = SubSeq(t, k, l)
  <1> DEFINE p == SubSeq(s, i, j)
             q == SubSeq(t, k, l)
  <1>1. p \in Seq(C) /\ q \in Seq(C) /\ Len(p) = j - i + 1 /\ Len(q) = l - k + 1
    BY PartOfText
  <1>2. ASSUME NEW m \in 1 .. Len(p) PROVE p[m] = q[m]
    <2>1. m \in 1 .. j - i + 1 /\ m \in 1 .. l - k + 1 /\ m - 1 \in 0 .. j - i
          /\ i + m - 1 = i + (m - 1) /\ k + m - 1 = k + (m - 1)
      BY <1>1
    <2>2. p[m] = s[i + m - 1] /\ q[m] = t[k + m - 1]
      BY <2>1, PartOfText
    <2> QED
      BY <2>1, <2>2
  <1> HIDE DEF p, q
  <1>3. p = q
    BY <1>1, <1>2, SameElements
  <1> QED
    BY <1>3 DEF p, q

(* A part of a part of a sequence.                                         *)
LEMMA PartOfPart ==
  ASSUME NEW C, NEW s \in Seq(C), NEW i \in Nat \ {0}, NEW j \in Int, j <= Len(s), i <= j + 1,
         NEW k \in Nat \ {0}, NEW l \in Int, l <= j - i + 1, k <= l + 1
  PROVE  SubSeq(SubSeq(s, i, j), k, l) = SubSeq(s, i + k - 1, i + l - 1)
  <1> DEFINE p == SubSeq(s, i, j)
  <1>1. p \in Seq(C) /\ Len(p) = j - i + 1 /\ \A m \in 1 .. j - i + 1 : p[m] = s[i + m - 1]
    BY PartOfText
  <1>2. \A m \in 0 .. l - k : p[k + m] = s[(i + k - 1) + m]
    <2> SUFFICES ASSUME NEW m \in 0 .. l - k PROVE p[k + m] = s[(i + k - 1) + m]
      OBVIOUS
    <2>1. k + m \in 1 .. j - i + 1 /\ i + (k + m) - 1 = (i + k - 1) + m
      OBVIOUS
    <2> QED
      BY <1>1, <2>1
  <1> HIDE DEF p
  <1>3. /\ i + k - 1 \in Nat \ {0} /\ i + l - 1 \in Int /\ i + l - 1 <= Len(s)
        /\ (i + l - 1) - (i + k - 1) = l - k /\ l <= Len(p)
    BY <1>1
  <1>4. SubSeq(p, k, l) = SubSeq(s, i + k - 1, i + l - 1)
    BY <1>1, <1>2, <1>3, SameParts
  <1> QED
    BY <1>4 DEF p

LEMMA PartOfWhole ==
  ASSUME NEW C, NEW s \in Seq(C)
  PROVE  SubSeq(s, 1, Len(s)) = s
  <1>1. Len(s) \in Nat /\ Len(s) \in Int /\ Len(s) <= Len(s) /\ 1 \in Nat \ {0}
    OBVIOUS
  <1>2. SubSeq(s, 1, Len(s)) \in Seq(C) /\ Len(SubSeq(s, 1, Len(s))) = Len(s)
        /\ \A k \in 1 .. Len(s) : SubSeq(s, 1, Len(s))[k] = s[k]
    BY <1>1, PartOfText
  <1> QED
    BY <1>2, SameElements

LEMMA PartOfJoined ==
  ASSUME NEW C, NEW s \in Seq(C), NEW t \in Seq(C), NEW i \in Nat \ {0}, NEW j \in Int, i <= j + 1
  PROVE  /\ j <= Len(s) => SubSeq(s \o t, i, j) = SubSeq(s, i, j)
         /\ j <= Len(t) => SubSeq(s \o t, Len(s) + i, Len(s) + j) = SubSeq(t, i, j)
  <1> DEFINE u == s \o t
  <1>1. u \in Seq(C) /\ Len(u) = Len(s) + Len(t) /\ Len(s) \in Nat /\ Len(t) \in Nat
        /\ (\A k \in 1 .. Len(s) : u[k] = s[k]) /\ \A k \in 1 .. Len(t) : u[Len(s) + k] = t[k]
    BY ConcatProperties
  <1> HIDE DEF u
  <1>2. ASSUME j <= Len(s) PROVE SubSeq(u, i, j) = SubSeq(s, i, j)
    <2>1. \A m \in 0 .. j - i : u[i + m] = s[i + m]
      <3> SUFFICES ASSUME NEW m \in 0 .. j - i PROVE u[i + m] = s[i + m]
        OBVIOUS
      <3>1. i + m \in 1 .. Len(s)
        BY <1>1, <1>2
      <3> QED
        BY <1>1, <3>1
    <2>2. j <= Len(u)
      BY <1>1, <1>2
    <2> QED
      BY <1>1, <1>2, <2>1, <2>2, SameParts
  <1>3. ASSUME j <= Len(t) PROVE SubSeq(u, Len(s) + i, Len(s) + j) = SubSeq(t, i, j)
    <2>1. \A m \in 0 .. j - i : u[(Len(s) + i) + m] = t[i + m]
      <3> SUFFICES ASSUME NEW m \in 0 .. j - i PROVE u[(Len(s) + i) + m] = t[i + m]
        OBVIOUS
      <3>1. i + m \in 1 .. Len(t) /\ (Len(s) + i) + m = Len(s) + (i + m)
        BY <1>1, <1>3
      <3> QED
        BY <1>1, <3>1
    <2>2. /\ Len(s) + i \in Nat \ {0} /\ Len(s) + j \in Int /\ Len(s) + j <= Len(u)
          /\ (Len(s) + j) - (Len(s) + i) = j - i /\ Len(s) + i <= (Len(s) + j) + 1
          /\ (Len(s) + j) - (Len(s) + i) >= -1
      BY <1>1, <1>3
    <2>3. \A m \in 0 .. (Len(s) + j) - (Len(s) + i) : u[(Len(s) + i) + m] = t[i + m]
      BY <2>1, <2>2
    <2> DEFINE a == Len(s) + i
               b == Len(s) + j
    <2> HIDE DEF a, b
    <2>4. /\ a \in Nat \ {0} /\ b \in Int /\ b <= Len(u) /\ b - a = j - i /\ a <= b + 1
          /\ \A m \in 0 .. b - a : u[a + m] = t[i + m]
      BY <2>2, <2>3 DEF a, b
    <2> DEFINE p == SubSeq(u, a, b)
               q == SubSeq(t, i, j)
    <2>5. p \in Seq(C) /\ Len(p) = b - a + 1 /\ \A k \in 1 .. b - a + 1 : p[k] = u[a + k - 1]
      BY <1>1, <2>4, PartOfText
    <2>6. q \in Seq(C) /\ Len(q) = j - i + 1 /\ \A k \in 1 .. j - i + 1 : q[k] = t[i + k - 1]
      BY <1>3, PartOfText
    <2> HIDE DEF p, q
    <2>7. ASSUME NEW k \in 1 .. Len(p) PROVE p[k] = q[k]
      <3>1. k \in 1 .. b - a + 1 /\ k \in 1 .. j - i + 1 /\ k - 1 \in 0 .. b - a
            /\ a + k - 1 = a + (k - 1) /\ i + k - 1 = i + (k - 1)
        BY <2>4, <2>5
      <3>2. u[a + (k - 1)] = t[i + (k - 1)]
        BY <2>4, <3>1
      <3> QED
        BY <2>5, <2>6, <3>1, <3>2
    <2>8. Len(p) = Len(q)
      BY <2>4, <2>5, <2>6
    <2>9. p = q
      BY <2>5, <2>6, <2>7, <2>8, SameElements
    <2> QED
      BY <2>9 DEF p, q, a, b
  <1> QED
    BY <1>2, <1>3 DEF u

(* The same of strings: their lengths, their parts and their characters.   *)
LEMMA TextParts ==
  ASSUME StringsAreSequences, NEW s \in STRING, NEW i \in Nat \ {0}, NEW j \in Int, j <= Len(s), i <= j + 1
  PROVE  /\ SubSeq(s, i, j) \in STRING /\ Len(SubSeq(s, i, j)) = j - i + 1
         /\ \A k \in Nat \ {0} : \A l \in Int : l <= j - i + 1 /\ k <= l + 1 =>
              SubSeq(SubSeq(s, i, j), k, l) = SubSeq(s, i + k - 1, i + l - 1)
         /\ SubSeq(s, 1, Len(s)) = s
  <1> PICK C : STRING = Seq(C)
    BY DEF StringsAreSequences
  <1>1. s \in Seq(C)
    BY Zenon
  <1>2. SubSeq(s, i, j) \in Seq(C) /\ Len(SubSeq(s, i, j)) = (IF i <= j THEN j - i + 1 ELSE 0)
    BY <1>1, PartOfText, Zenon
  <1>3. (IF i <= j THEN j - i + 1 ELSE 0) = j - i + 1
    OBVIOUS
  <1>4. \A u \in Seq(C) : j <= Len(u) => \A k \in Nat \ {0} : \A l \in Int : l <= j - i + 1 /\ k <= l + 1 =>
          SubSeq(SubSeq(u, i, j), k, l) = SubSeq(u, i + k - 1, i + l - 1)
    <2> SUFFICES ASSUME NEW u \in Seq(C), j <= Len(u), NEW k \in Nat \ {0}, NEW l \in Int,
                        l <= j - i + 1, k <= l + 1
                 PROVE  SubSeq(SubSeq(u, i, j), k, l) = SubSeq(u, i + k - 1, i + l - 1)
      BY Zenon
    <2> QED
      BY PartOfPart
  <1> QED
    BY <1>1, <1>2, <1>3, <1>4, PartOfWhole, Zenon

LEMMA TextJoined ==
  ASSUME StringsAreSequences, NEW s \in STRING, NEW t \in STRING
  PROVE  /\ s \o t \in STRING /\ Len(s \o t) = Len(s) + Len(t)
         /\ \A i \in Nat \ {0} : \A j \in Int : i <= j + 1 =>
              /\ j <= Len(s) => SubSeq(s \o t, i, j) = SubSeq(s, i, j)
              /\ j <= Len(t) => SubSeq(s \o t, Len(s) + i, Len(s) + j) = SubSeq(t, i, j)
  <1> PICK C : STRING = Seq(C)
    BY DEF StringsAreSequences
  <1>1. s \in Seq(C) /\ t \in Seq(C)
    BY Zenon
  <1>2. s \o t \in Seq(C) /\ Len(s \o t) = Len(s) + Len(t)
    BY <1>1, ConcatProperties, Zenon
  <1>3. \A u, v \in Seq(C) : \A i \in Nat \ {0} : \A j \in Int : i <= j + 1 =>
          /\ j <= Len(u) => SubSeq(u \o v, i, j) = SubSeq(u, i, j)
          /\ j <= Len(v) => SubSeq(u \o v, Len(u) + i, Len(u) + j) = SubSeq(v, i, j)
    <2> SUFFICES ASSUME NEW u \in Seq(C), NEW v \in Seq(C), NEW i \in Nat \ {0}, NEW j \in Int, i <= j + 1
                 PROVE  /\ j <= Len(u) => SubSeq(u \o v, i, j) = SubSeq(u, i, j)
                        /\ j <= Len(v) => SubSeq(u \o v, Len(u) + i, Len(u) + j) = SubSeq(v, i, j)
      BY Zenon
    <2> QED
      BY PartOfJoined
  <1> QED
    BY <1>1, <1>2, <1>3, Zenon

LEMMA SameTexts ==
  ASSUME StringsAreSequences, NEW s \in STRING, NEW t \in STRING, Len(s) = Len(t),
         \A i \in 1 .. Len(s) : SubSeq(s, i, i) = SubSeq(t, i, i)
  PROVE  s = t
  <1> PICK C : STRING = Seq(C)
    BY DEF StringsAreSequences
  <1>1. \A u, v \in Seq(C) :
          Len(u) = Len(v) /\ (\A i \in 1 .. Len(u) : SubSeq(u, i, i) = SubSeq(v, i, i)) => u = v
    <2> SUFFICES ASSUME NEW u \in Seq(C), NEW v \in Seq(C), Len(u) = Len(v),
                        \A i \in 1 .. Len(u) : SubSeq(u, i, i) = SubSeq(v, i, i)
                 PROVE  u = v
      OBVIOUS
    <2>1. \A i \in 1 .. Len(u) : u[i] = v[i]
      BY OneOf
    <2> QED
      BY <2>1, SameElements
  <1> QED
    BY <1>1, Zenon

LEMMA EmptyIs ==
  ASSUME StringsAreSequences, NEW s \in STRING
  PROVE  Len(s) = 0 <=> s = ""
  <1>1. ASSUME Len(s) = 0 PROVE s = ""
    <2>1. Len("") = 0 /\ "" \in STRING
      BY LiteralsAssumption, Zenon
    <2>2. \A i \in 1 .. 0 : FALSE
      OBVIOUS
    <2> QED
      BY <1>1, <2>1, <2>2, SameTexts, Zenon
  <1> QED
    BY <1>1, LiteralsAssumption, Zenon

-----------------------------------------------------------------------------
(* Numbers and words *)

LEMMA Results ==
  /\ \A v : Returned(Return(v)) /\ Return(v).val = v
  /\ ~Returned(Throw("bad_imm"))
  <1>1. ASSUME NEW v PROVE Returned(Return(v)) /\ Return(v).val = v
    BY Zenon DEF Returned, Return
  <1>2. Throw("bad_imm").err = "bad_imm"
    BY DEF Throw
  <1>3. "bad_imm" # ""
    BY Zenon
  <1>4. ~Returned(Throw("bad_imm"))
    BY <1>2, <1>3, Zenon DEF Returned
  <1> QED
    BY <1>1, <1>4, Zenon

LEMMA CharsLength ==
  ASSUME NEW s, Len(s) \in Nat
  PROVE  DOMAIN Chars(s) = 1 .. Len(s) /\ Len(Chars(s)) = Len(s)
  <1> DEFINE T == {SubSeq(s, i, i) : i \in 1 .. Len(s)}
  <1>1. Chars(s) \in [1 .. Len(s) -> T]
    BY DEF Chars
  <1> HIDE DEF T
  <1>2. Chars(s) \in Seq(T)
    BY <1>1, SeqDef
  <1>3. DOMAIN Chars(s) = 1 .. Len(s) /\ DOMAIN Chars(s) = 1 .. Len(Chars(s)) /\ Len(Chars(s)) \in Nat
    BY <1>1, <1>2, LenProperties
  <1> QED
    BY <1>3

LEMMA DigitType ==
  ASSUME NEW c, IsDigit(c)
  PROVE  get_digit_value(c) \in 0 .. 15
  <1> DEFINE P(i) == HexDigits[i] = c \/ (i > 10 /\ UpperHex[i - 10] = c)
  <1>1. \E i \in 1 .. 16 : P(i)
    <2>1. CASE \E i \in 1 .. 16 : HexDigits[i] = c
      BY <2>1
    <2>2. CASE \E i \in 1 .. 6 : UpperHex[i] = c
      <3>1. PICK i \in 1 .. 6 : UpperHex[i] = c
        BY <2>2
      <3>2. i + 10 \in 1 .. 16 /\ i + 10 > 10 /\ (i + 10) - 10 = i
        OBVIOUS
      <3> QED
        BY <3>1, <3>2
    <2> QED
      BY <2>1, <2>2 DEF IsDigit
  <1> DEFINE d == CHOOSE i \in 1 .. 16 : P(i)
  <1>2. d \in 1 .. 16
    <2> HIDE DEF P
    <2> QED
      BY <1>1, Zenon
  <1>3. get_digit_value(c) = d - 1
    BY DEF get_digit_value
  <1> HIDE DEF d
  <1> QED
    BY <1>2, <1>3

(* Horner's rule: the recursion inside Value has its function.             *)
LEMMA ValueType ==
  ASSUME NEW digits, NEW n \in Nat, Len(digits) = n, DOMAIN digits = 1 .. n, NEW radix \in Int,
         Returned(Value(digits, radix))
  PROVE  Value(digits, radix).val \in Int
  <1> DEFINE next(v, i) == IF i \in 1 .. n THEN v * radix + get_digit_value(digits[i]) ELSE v
             G == [p \in Int \X Nat |-> next(p[1], p[2])]
             E(f) == f = [i \in 0 .. n |-> IF i = 0 THEN 0
                                           ELSE f[i - 1] * radix + get_digit_value(digits[i])]
             f == CHOOSE f : E(f)
  <1>1. \A i \in 1 .. n : IsDigit(digits[i])
    <2>1. ASSUME \E i \in DOMAIN digits : ~IsDigit(digits[i]) PROVE FALSE
      <3>1. Value(digits, radix) = Throw("bad_imm")
        BY <2>1, Zenon DEF Value
      <3> QED
        BY <3>1, Results
    <2> QED
      BY <2>1
  <1>2. Value(digits, radix) = Return(f[Len(digits)])
    BY <1>1, Zenon DEF Value
  <1>3. ASSUME NEW v \in Int, NEW i \in Nat PROVE next(v, i) \in Int
    BY <1>1, DigitType, SMTT(20)
  <1>4. G \in [Int \X Nat -> Int] /\ \A v \in Int, i \in Nat : G[<<v, i>>] = next(v, i)
    <2>1. \A p \in Int \X Nat : next(p[1], p[2]) \in Int
      BY <1>3
    <2> HIDE DEF next
    <2> QED
      BY <2>1
  <1> HIDE DEF G
  <1>5. PICK h : Recurs(h, Int, 0, G)
    <2>1. 0 \in Int
      OBVIOUS
    <2> QED
      BY <1>4, <2>1, Recursion
  <1>6. h \in [Nat -> Int] /\ h[0] = 0
    BY <1>5 DEF Recurs
  <1>7. ASSUME NEW i \in 1 .. n PROVE h[i] = h[i - 1] * radix + get_digit_value(digits[i])
    <2>1. i - 1 \in Nat /\ (i - 1) + 1 = i /\ i \in Nat
      OBVIOUS
    <2>2. h[i] = G[<<h[i - 1], i>>] /\ h[i - 1] \in Int
      BY <1>5, <2>1 DEF Recurs
    <2>3. h[i] = next(h[i - 1], i)
      BY <1>4, <2>1, <2>2
    <2> QED
      BY <2>3
  <1> DEFINE r == [i \in 0 .. n |-> h[i]]
  <1>8. E(r)
    <2>1. ASSUME NEW i \in 0 .. n
          PROVE  r[i] = IF i = 0 THEN 0 ELSE r[i - 1] * radix + get_digit_value(digits[i])
      <3>1. CASE i # 0
        <4>1. i \in 1 .. n /\ i - 1 \in 0 .. n
          BY <3>1
        <4> QED
          BY <1>7, <3>1, <4>1
      <3> QED
        BY <1>6, <3>1
    <2> QED
      BY <2>1
  <1>9. E(f)
    BY <1>8, Zenon
  <1> HIDE DEF f, r
  <1>10. \A i \in 0 .. n : f[i] = IF i = 0 THEN 0 ELSE f[i - 1] * radix + get_digit_value(digits[i])
    BY <1>9
  <1> HIDE DEF E
  <1> DEFINE S == {i \in Nat : i <= n => f[i] \in Int}
  <1>11. 0 \in S
    BY <1>10
  <1>12. ASSUME NEW i \in Nat, i \in S PROVE i + 1 \in S
    <2>1. i + 1 \in Nat
      OBVIOUS
    <2>2. CASE i + 1 <= n
      <3>1. i + 1 \in 1 .. n /\ i + 1 \in 0 .. n /\ i + 1 # 0 /\ (i + 1) - 1 = i /\ f[i] \in Int
        BY <1>12, <2>2
      <3>2. f[i + 1] = f[i] * radix + get_digit_value(digits[i + 1])
        BY <1>10, <3>1
      <3>3. get_digit_value(digits[i + 1]) \in 0 .. 15
        BY <1>1, <3>1, DigitType
      <3> QED
        BY <2>1, <3>1, <3>2, <3>3, SMTT(20)
    <2> QED
      BY <2>1, <2>2
  <1> HIDE DEF S
  <1>13. n \in S
    BY <1>11, <1>12, Inductive
  <1> QED
    BY <1>2, <1>13, Results DEF S

(* The negated number of a result.                                         *)
LEMMA NegatedType ==
  ASSUME NEW number, Returned(Negated(number)), DOMAIN number = {"err", "val"},
         Returned(number) => number.val \in Int
  PROVE  Negated(number).val \in Int
  <1>1. Negated(number).err = number.err /\ Negated(number).val = -number.val
    BY DEF Negated
  <1>2. Returned(number)
    BY <1>1, Zenon DEF Returned
  <1> QED
    BY <1>1, <1>2

LEMMA InterpretType ==
  ASSUME StringsAreSequences, NEW text \in STRING, NEW radix \in Int,
         Returned(Interpret(text, radix))
  PROVE  Interpret(text, radix).val \in Int
  <1> DEFINE ds == Digits(text)
             v == Value(ds, radix)
  <1>1. \/ Interpret(text, radix) = Throw("bad_imm")
        \/ Interpret(text, radix) = Negated(v)
        \/ Interpret(text, radix) = v
    BY Zenon DEF Interpret
  <1>2. Len(ds) \in Nat /\ DOMAIN ds = 1 .. Len(ds)
    <2> DEFINE t == IF Negative(text) THEN SubSeq(text, 2, Len(text)) ELSE text
    <2>0. Len(text) \in Int /\ Len(text) <= Len(text) /\ 2 \in Nat \ {0}
      BY TextLaws
    <2>1. t \in STRING
      BY <2>0, TextLaws, Zenon
    <2>2. Len(t) \in Nat
      BY <2>1, TextLaws
    <2> HIDE DEF t
    <2>3. ds = Chars(t)
      BY Zenon DEF t, Digits
    <2> QED
      BY <2>2, <2>3, CharsLength
  <1> HIDE DEF ds
  <1>3. Returned(v) => v.val \in Int
    BY <1>2, ValueType
  <1>4. DOMAIN v = {"err", "val"}
    <2>1. \E x, e : v = Return(x) \/ v = Throw(e)
      BY Zenon DEF Value
    <2>2. \A x : DOMAIN Return(x) = {"err", "val"} /\ DOMAIN Throw(x) = {"err", "val"}
      BY Zenon DEF Return, Throw
    <2> QED
      BY <2>1, <2>2, Zenon
  <1> HIDE DEF v
  <1> QED
    BY <1>1, <1>3, <1>4, NegatedType, Results

(* What a text is read as is a number whenever reading it succeeds.        *)
LEMMA NumberType ==
  ASSUME StringsAreSequences, NEW s \in STRING, Returned(numeric_interpret(s))
  PROVE  numeric_interpret(s).val \in Int
  <1>1. ASSUME NEW p \in STRING PROVE has_prefix(s, p) \in STRING
    <2>1. Len(p) \in Nat /\ Len(s) \in Nat
      BY TextLaws
    <2>2. SubSeq(s, Len(p) + 1, Len(s)) \in STRING
      <3>1. Len(p) + 1 \in Nat \ {0} /\ Len(s) \in Int /\ Len(s) <= Len(s)
        <4>1. \A m, n \in Nat : m + 1 \in Nat \ {0} /\ n \in Int /\ n <= n
          OBVIOUS
        <4> QED
          BY <2>1, <4>1, Zenon
      <3> QED
        BY <3>1, TextLaws, Zenon
    <2>3. "" \in STRING
      BY EmptyText
    <2> QED
      BY <2>2, <2>3, Zenon DEF has_prefix
  <1>2. "0x" \in STRING /\ "o" \in STRING
    BY LiteralsAssumption, Zenon
  <1>3. \/ numeric_interpret(s) = Interpret(has_prefix(s, "0x"), 16)
        \/ numeric_interpret(s) = Interpret(has_prefix(s, "o"), 8)
        \/ numeric_interpret(s) = Interpret(s, 10)
    BY Zenon DEF numeric_interpret
  <1>5. 8 \in Int /\ 10 \in Int /\ 16 \in Int
    OBVIOUS
  <1>4. PICK t \in STRING, radix \in Int : numeric_interpret(s) = Interpret(t, radix)
    BY <1>1, <1>2, <1>3, <1>5, Zenon
  <1> QED
    BY <1>4, InterpretType

(* Characters put together, and a text taken apart.                        *)
LEMMA JoinType ==
  ASSUME StringsAreSequences, NEW cs \in Seq(STRING)
  PROVE  Join(cs) \in STRING
  <1> DEFINE n == Len(cs)
             next(v, i) == IF i \in 1 .. n THEN v \o cs[i] ELSE v
             G == [p \in STRING \X Nat |-> next(p[1], p[2])]
             E(f) == f = [i \in 0 .. n |-> IF i = 0 THEN "" ELSE f[i - 1] \o cs[i]]
             f == CHOOSE f : E(f)
  <1>1. n \in Nat /\ \A i \in 1 .. n : cs[i] \in STRING
    BY LenProperties, ElementOfSeq
  <1>2. Join(cs) = f[n]
    BY Zenon DEF Join
  <1> HIDE DEF n
  <1>3. ASSUME NEW v \in STRING, NEW i \in Nat PROVE next(v, i) \in STRING
    BY <1>1, TextLaws, Zenon
  <1>4. G \in [STRING \X Nat -> STRING] /\ \A v \in STRING, i \in Nat : G[<<v, i>>] = next(v, i)
    <2>1. \A p \in STRING \X Nat : next(p[1], p[2]) \in STRING
      BY <1>3
    <2> HIDE DEF next
    <2> QED
      BY <2>1
  <1> HIDE DEF G
  <1>5. "" \in STRING
    BY EmptyText
  <1>6. PICK r \in [0 .. n -> STRING] : r[0] = "" /\ \A i \in 1 .. n : r[i] = G[<<r[i - 1], i>>]
    <2> HIDE DEF f, E, next
    <2>1. ASSUME NEW b \in STRING PROVE \E r : RecursTo(r, STRING, n, b, G)
      BY <1>1, <1>4, RecursionTo
    <2> QED
      BY <1>5, <2>1, Zenon DEF RecursTo
  <1>7. \A i \in 1 .. n : r[i] = r[i - 1] \o cs[i]
    <2> SUFFICES ASSUME NEW i \in 1 .. n PROVE r[i] = r[i - 1] \o cs[i]
      OBVIOUS
    <2>1. i \in Nat /\ i - 1 \in 0 .. n
      BY <1>1
    <2>2. r[i - 1] \in STRING
      BY <2>1, Zenon
    <2>3. r[i] = next(r[i - 1], i)
      BY <1>4, <1>6, <2>1, <2>2, Zenon
    <2> QED
      BY <2>3, Zenon
  <1>8. E(r)
    <2> DEFINE R(i) == IF i = 0 THEN "" ELSE r[i - 1] \o cs[i]
    <2>1. ASSUME NEW i \in 0 .. n PROVE r[i] = R(i)
      <3>1. CASE i = 0
        BY <1>6, <3>1, Zenon
      <3>2. CASE i # 0
        <4>1. i \in 1 .. n
          BY <1>1, <3>2
        <4> QED
          BY <1>7, <3>2, <4>1, Zenon
      <3> QED
        BY <3>1, <3>2, Zenon
    <2> HIDE DEF R
    <2>2. r = [i \in 0 .. n |-> R(i)]
      BY <2>1
    <2> QED
      BY <2>2, Zenon DEF R
  <1>9. E(f)
    BY <1>8, Zenon
  <1> HIDE DEF f
  <1>10. f[0] = "" /\ \A i \in 1 .. n : f[i] = f[i - 1] \o cs[i]
    <2> DEFINE R(i) == IF i = 0 THEN "" ELSE f[i - 1] \o cs[i]
    <2>1. f = [i \in 0 .. n |-> R(i)]
      BY <1>9, Zenon
    <2> HIDE DEF R
    <2>2. \A i \in 0 .. n : f[i] = R(i)
      BY <2>1
    <2>3. 0 \in 0 .. n /\ \A i \in 1 .. n : i \in 0 .. n /\ i # 0
      BY <1>1
    <2> QED
      BY <2>2, <2>3, Zenon DEF R
  <1> HIDE DEF E
  <1>11. f[0] \in STRING
    BY <1>5, <1>10, Zenon
  <1>12. \A i \in 1 .. n : f[i - 1] \in STRING => f[i] \in STRING
    BY <1>1, <1>10, TextLaws, Zenon
  <1>13. f[n] \in STRING
    <2> HIDE DEF n
    <2> QED
      BY <1>1, <1>11, <1>12, InductiveTo, Zenon
  <1> QED
    BY <1>2, <1>13

LEMMA CharsType ==
  ASSUME StringsAreSequences, NEW s \in STRING
  PROVE  Chars(s) \in Seq(STRING)
  <1>1. Len(s) \in Nat
    BY TextLaws
  <1>2. \A i \in 1 .. Len(s) : SubSeq(s, i, i) \in STRING
    BY CharacterAt, Zenon
  <1>3. Chars(s) \in [1 .. Len(s) -> STRING]
    BY <1>2 DEF Chars
  <1> QED
    BY <1>1, <1>3, SeqDef

LEMMA CommentlessType ==
  ASSUME NEW cs \in Seq(STRING)
  PROVE  Commentless(cs) \in Seq(STRING)
  <1>1. CASE Comment(cs) = {}
    BY <1>1 DEF Commentless
  <1>2. CASE Comment(cs) # {}
    <2>1. Comment(cs) \subseteq 1 .. Len(cs) /\ Len(cs) \in Nat
      BY LenProperties DEF Comment
    <2>2. Min(Comment(cs)) \in 1 .. Len(cs)
      <3>1. Comment(cs) \subseteq Nat
        BY <2>1
      <3> QED
        BY <1>2, <2>1, <3>1, LeastIn
    <2> DEFINE m == Min(Comment(cs))
    <2> HIDE DEF m
    <2>3. SubSeq(cs, 1, m - 1) \in Seq(STRING)
      <3>1. m - 1 \in 0 .. Len(cs) /\ \A i \in 1 .. m - 1 : i \in 1 .. Len(cs)
        BY <2>1, <2>2 DEF m
      <3>2. \A i \in 1 .. Len(cs) : cs[i] \in STRING
        BY ElementOfSeq
      <3> QED
        BY <3>1, <3>2, <2>1, SubSeqProperties
    <2> QED
      BY <1>2, <2>3, Zenon DEF Commentless, m
  <1> QED
    BY <1>1, <1>2

(* Where chop_string is after some characters.                             *)
ScanStates == [words : Seq(STRING), built : STRING, has_escaped : BOOLEAN, in_quotes : BOOLEAN]

LEMMA PushType ==
  ASSUME StringsAreSequences, NEW st,
         st \in ScanStates
  PROVE  /\ PushWord(st) \in ScanStates
         /\ PushWord(st).words \in Seq(STRING)
  <1> DEFINE pushed(b) == [st EXCEPT !.words = Append(@, st.built), !.built = b]
  <1>1. ASSUME NEW b \in STRING
        PROVE  pushed(b) \in ScanStates
    BY AppendProperties DEF ScanStates
  <1>2. PushWord(st) = st \/ PushWord(st) = pushed("")
    BY Zenon DEF PushWord
  <1>3. "" \in STRING
    BY EmptyText
  <1> HIDE DEF pushed
  <1>4. PushWord(st) \in ScanStates
    BY <1>1, <1>2, <1>3, Zenon
  <1> QED
    BY <1>4 DEF ScanStates

LEMMA ChopCharType ==
  ASSUME StringsAreSequences, NEW c \in STRING, NEW st,
         st \in ScanStates
  PROVE  ChopChar(st, c) \in ScanStates
  <1>1. \/ ChopChar(st, c) = [st EXCEPT !.has_escaped = TRUE]
        \/ ChopChar(st, c) = [st EXCEPT !.in_quotes = ~@]
        \/ ChopChar(st, c) = PushWord(st)
        \/ ChopChar(st, c) = [st EXCEPT !.built = @ \o c, !.has_escaped = FALSE]
    BY Zenon DEF ChopChar
  <1>2. st.built \o c \in STRING
    BY TextLaws DEF ScanStates
  <1>3. PushWord(st) \in ScanStates
    BY PushType
  <1> QED
    BY <1>1, <1>2, <1>3 DEF ScanStates

(* The scan of chop_string over some characters.                           *)
ScanStart == [words |-> <<>>, built |-> "", has_escaped |-> FALSE, in_quotes |-> FALSE]
IsScan(f, cs) == f = [i \in 0 .. Len(cs) |-> IF i = 0 THEN ScanStart ELSE ChopChar(f[i - 1], cs[i])]
Scan(cs) == CHOOSE f : IsScan(f, cs)

LEMMA ScanSteps ==
  ASSUME StringsAreSequences, NEW cs \in Seq(STRING)
  PROVE  /\ Scan(cs)[0] = ScanStart
         /\ \A i \in 1 .. Len(cs) : Scan(cs)[i] = ChopChar(Scan(cs)[i - 1], cs[i])
         /\ \A i \in 0 .. Len(cs) : Scan(cs)[i] \in ScanStates
  <1> DEFINE n == Len(cs)
             next(st, i) == IF i \in 1 .. n THEN ChopChar(st, cs[i]) ELSE st
             G == [p \in ScanStates \X Nat |-> next(p[1], p[2])]
  <1>1. n \in Nat /\ \A i \in 1 .. n : cs[i] \in STRING
    BY LenProperties, ElementOfSeq
  <1>3. ScanStart \in ScanStates
    <2>1. <<>> \in Seq(STRING)
      OBVIOUS
    <2>2. ASSUME NEW b \in STRING
          PROVE  [words |-> <<>>, built |-> b, has_escaped |-> FALSE, in_quotes |-> FALSE] \in ScanStates
      BY <2>1 DEF ScanStates
    <2> QED
      BY <2>2, EmptyText, Zenon DEF ScanStart
  <1> HIDE DEF n
  <1>4. ASSUME NEW st \in ScanStates, NEW i \in Nat PROVE next(st, i) \in ScanStates
    BY <1>1, ChopCharType, Zenon
  <1>5. G \in [ScanStates \X Nat -> ScanStates] /\ \A st \in ScanStates, i \in Nat : G[<<st, i>>] = next(st, i)
    <2>1. \A p \in ScanStates \X Nat : next(p[1], p[2]) \in ScanStates
      BY <1>4
    <2> HIDE DEF next
    <2> QED
      BY <2>1
  <1> HIDE DEF G
  <1>6. PICK r : RecursTo(r, ScanStates, n, ScanStart, G)
    <2> HIDE DEF next
    <2> QED
      BY <1>1, <1>3, <1>5, RecursionTo
  <1>7. r \in [0 .. n -> ScanStates] /\ r[0] = ScanStart /\ \A i \in 1 .. n : r[i] = G[<<r[i - 1], i>>]
    BY <1>6, Zenon DEF RecursTo
  <1>8. \A i \in 1 .. n : r[i] = ChopChar(r[i - 1], cs[i])
    <2> SUFFICES ASSUME NEW i \in 1 .. n PROVE r[i] = ChopChar(r[i - 1], cs[i])
      OBVIOUS
    <2>1. i \in Nat /\ i - 1 \in 0 .. n
      BY <1>1
    <2>2. r[i - 1] \in ScanStates
      BY <1>7, <2>1, Zenon
    <2>3. r[i] = next(r[i - 1], i)
      BY <1>5, <1>7, <2>1, <2>2, Zenon
    <2> QED
      BY <2>3, Zenon
  <1>9. IsScan(r, cs)
    <2> HIDE DEF next
    <2>1. ASSUME NEW i \in 0 .. n PROVE r[i] = IF i = 0 THEN ScanStart ELSE ChopChar(r[i - 1], cs[i])
      <3>1. i # 0 => i \in 1 .. n
        BY <1>1
      <3> QED
        BY <1>7, <1>8, <3>1, Zenon
    <2> QED
      BY <1>7, <2>1 DEF IsScan, n
  <1> DEFINE f == Scan(cs)
  <1>10. IsScan(f, cs)
    BY <1>9, Zenon DEF Scan
  <1> HIDE DEF f, next
  <1>11. f[0] = ScanStart /\ \A i \in 1 .. n : f[i] = ChopChar(f[i - 1], cs[i])
    BY <1>1, <1>10 DEF IsScan, n
  <1>12. f[0] \in ScanStates
    BY <1>3, <1>11
  <1>13. \A i \in 1 .. n : f[i - 1] \in ScanStates => f[i] \in ScanStates
    BY <1>1, <1>11, ChopCharType, Zenon
  <1>14. ASSUME NEW m \in 0 .. n PROVE f[m] \in ScanStates
    <2>1. m \in Nat /\ \A i \in 1 .. m : i \in 1 .. n
      BY <1>1
    <2>2. \A i \in 1 .. m : f[i - 1] \in ScanStates => f[i] \in ScanStates
      BY <1>13, <2>1, Zenon
    <2> QED
      BY <1>12, <2>1, <2>2, InductiveTo, Zenon
  <1> QED
    BY <1>11, <1>14, Zenon DEF f, n

(* What chop_string does with a line after its last character.             *)
Content(input) == Commentless(Chars(input))
ScanEnd(input) == Scan(Content(input))[Len(Content(input))]

LEMMA ChopIs ==
  ASSUME NEW input
  PROVE  chop_string(input) = IF ScanEnd(input).has_escaped \/ ScanEnd(input).in_quotes
                              THEN Throw("bad_escape")
                              ELSE Return(PushWord(ScanEnd(input)).words)
  BY Zenon DEF chop_string, ScanEnd, Content, Scan, IsScan, ScanStart

LEMMA ContentType ==
  ASSUME StringsAreSequences, NEW input \in STRING
  PROVE  Content(input) \in Seq(STRING) /\ ScanEnd(input) \in ScanStates
  <1>1. Content(input) \in Seq(STRING)
    BY CharsType, CommentlessType DEF Content
  <1>2. Len(Content(input)) \in 0 .. Len(Content(input))
    <2>1. Len(Content(input)) \in Nat
      BY <1>1, LenProperties, Zenon
    <2>2. \A n \in Nat : n \in 0 .. n
      OBVIOUS
    <2> QED
      BY <2>1, <2>2, Zenon
  <1> QED
    BY <1>1, <1>2, ScanSteps, Zenon DEF ScanEnd

LEMMA ChopType ==
  ASSUME StringsAreSequences, NEW input \in STRING, Returned(chop_string(input))
  PROVE  chop_string(input).val \in Seq(STRING)
  <1>1. PushWord(ScanEnd(input)).words \in Seq(STRING)
    BY ContentType, PushType, Zenon
  <1>2. chop_string(input) # Throw("bad_escape")
    <2>1. Throw("bad_escape").err = "bad_escape"
      BY DEF Throw
    <2>2. "bad_escape" # ""
      BY Zenon
    <2> QED
      BY <2>1, <2>2, Zenon DEF Returned
  <1> QED
    BY <1>1, <1>2, ChopIs, Results, Zenon

-----------------------------------------------------------------------------
(* Typed lines, ranges and the command line *)

(* Where ReadFromInput is after some characters.                           *)
Typing == [text : STRING, quotes : BOOLEAN, escaped : BOOLEAN, ended : BOOLEAN]

LEMMA ReadCharType ==
  ASSUME StringsAreSequences, NEW c \in STRING, NEW st \in Typing
  PROVE  ReadChar(st, c) \in Typing
  <1> DEFINE q == IF c = "\"" THEN ~st.quotes ELSE st.quotes
             ended == c \in {"\n", "\r"} /\ ~st.escaped /\ ~q
             more == [text |-> st.text \o c, quotes |-> q, escaped |-> FALSE, ended |-> ended]
  <1>1. ReadChar(st, c) \in {st, [st EXCEPT !.escaped = TRUE], more}
    BY Zenon DEF ReadChar
  <1>2. st.text \o c \in STRING
    BY TextLaws DEF Typing
  <1>3. q \in BOOLEAN /\ ended \in BOOLEAN
    BY DEF Typing
  <1> HIDE DEF q, ended
  <1>4. more \in Typing
    BY <1>2, <1>3 DEF Typing
  <1>5. [st EXCEPT !.escaped = TRUE] \in Typing
    BY DEF Typing
  <1> HIDE DEF more
  <1> QED
    BY <1>1, <1>4, <1>5

LEMMA ReadType ==
  ASSUME StringsAreSequences, NEW typed \in STRING
  PROVE  ReadFromInput(typed) \in STRING
  <1> DEFINE n == Len(typed)
             c(i) == SubSeq(typed, i, i)
             first == [text |-> "", quotes |-> FALSE, escaped |-> FALSE, ended |-> FALSE]
             next(st, i) == IF i \in 1 .. n THEN ReadChar(st, c(i)) ELSE st
             G == [p \in Typing \X Nat |-> next(p[1], p[2])]
             E(f) == f = [i \in 0 .. n |-> IF i = 0 THEN first ELSE ReadChar(f[i - 1], c(i))]
             f == CHOOSE f : E(f)
  <1>1. n \in Nat /\ \A i \in 1 .. n : c(i) \in STRING
    <2>1. n \in Nat
      BY TextLaws
    <2> QED
      BY <2>1, CharacterAt, Zenon
  <1>2. ReadFromInput(typed) = f[n].text
    BY Zenon DEF ReadFromInput
  <1>3. first \in Typing
    <2>1. ASSUME NEW b \in STRING
          PROVE  [text |-> b, quotes |-> FALSE, escaped |-> FALSE, ended |-> FALSE] \in Typing
      BY DEF Typing
    <2>2. "" \in STRING
      BY EmptyText
    <2> QED
      BY <2>1, <2>2, Zenon
  <1> HIDE DEF n, c, first
  <1>4. ASSUME NEW st \in Typing, NEW i \in Nat PROVE next(st, i) \in Typing
    BY <1>1, ReadCharType, Zenon
  <1>5. G \in [Typing \X Nat -> Typing] /\ \A st \in Typing, i \in Nat : G[<<st, i>>] = next(st, i)
    <2>1. \A p \in Typing \X Nat : next(p[1], p[2]) \in Typing
      BY <1>4
    <2> HIDE DEF next, E, f
    <2> QED
      BY <2>1
  <1> HIDE DEF G
  <1>6. PICK r : RecursTo(r, Typing, n, first, G)
    <2> HIDE DEF f, E, next
    <2> QED
      BY <1>1, <1>3, <1>5, RecursionTo
  <1>7. r \in [0 .. n -> Typing] /\ r[0] = first /\ \A i \in 1 .. n : r[i] = G[<<r[i - 1], i>>]
    BY <1>6, Zenon DEF RecursTo
  <1>8. \A i \in 1 .. n : r[i] = ReadChar(r[i - 1], c(i))
    <2> SUFFICES ASSUME NEW i \in 1 .. n PROVE r[i] = ReadChar(r[i - 1], c(i))
      OBVIOUS
    <2>1. i \in Nat /\ i - 1 \in 0 .. n
      BY <1>1
    <2>2. r[i - 1] \in Typing
      BY <1>7, <2>1, Zenon
    <2>3. r[i] = next(r[i - 1], i)
      BY <1>5, <1>7, <2>1, <2>2, Zenon
    <2> QED
      BY <2>3, Zenon
  <1>9. E(r)
    <2> HIDE DEF f, next
    <2>1. ASSUME NEW i \in 0 .. n PROVE r[i] = IF i = 0 THEN first ELSE ReadChar(r[i - 1], c(i))
      <3>1. i # 0 => i \in 1 .. n
        BY <1>1
      <3> QED
        BY <1>7, <1>8, <3>1, Zenon
    <2> QED
      BY <1>7, <2>1
  <1>10. E(f)
    BY <1>9, Zenon
  <1> HIDE DEF f, next
  <1>11. f[0] = first /\ \A i \in 1 .. n : f[i] = ReadChar(f[i - 1], c(i))
    BY <1>1, <1>10
  <1> HIDE DEF E
  <1>12. f[0] \in Typing
    BY <1>3, <1>11
  <1>13. \A i \in 1 .. n : f[i - 1] \in Typing => f[i] \in Typing
    BY <1>1, <1>11, ReadCharType, Zenon
  <1>14. f[n] \in Typing
    BY <1>1, <1>12, <1>13, InductiveTo, Zenon
  <1> QED
    BY <1>2, <1>14 DEF Typing

(* Where the constructor of range is after some characters.                *)
Splitting == [list : Seq(STRING), imm : STRING]

LEMMA SplitCharType ==
  ASSUME StringsAreSequences, NEW c \in STRING, NEW st \in Splitting
  PROVE  SplitChar(st, c) \in Splitting
  <1> DEFINE done(b) == [list |-> Append(st.list, st.imm), imm |-> b]
  <1>1. ASSUME NEW b \in STRING PROVE done(b) \in Splitting
    BY AppendProperties DEF Splitting
  <1>2. [st EXCEPT !.imm = @ \o c] \in Splitting
    <2>1. st.imm \o c \in STRING
      BY TextLaws DEF Splitting
    <2> QED
      BY <2>1 DEF Splitting
  <1>3. SplitChar(st, c) \in {done(""), [st EXCEPT !.imm = @ \o c]}
    BY Zenon DEF SplitChar
  <1>4. "" \in STRING
    BY EmptyText
  <1>5. done("") \in Splitting
    BY <1>1, <1>4, Zenon
  <1> HIDE DEF done
  <1> QED
    BY <1>2, <1>3, <1>5, Zenon

LEMMA LimitsType ==
  ASSUME StringsAreSequences, NEW specifier \in STRING
  PROVE  Limits(specifier) \in Seq(STRING)
  <1> DEFINE n == Len(specifier)
             c(i) == SubSeq(specifier, i, i)
             first == [list |-> <<>>, imm |-> ""]
             next(st, i) == IF i \in 1 .. n THEN SplitChar(st, c(i)) ELSE st
             G == [p \in Splitting \X Nat |-> next(p[1], p[2])]
             E(f) == f = [i \in 0 .. n |-> IF i = 0 THEN first ELSE SplitChar(f[i - 1], c(i))]
             f == CHOOSE f : E(f)
  <1>1. n \in Nat /\ \A i \in 1 .. n : c(i) \in STRING
    <2>1. n \in Nat
      BY TextLaws
    <2> QED
      BY <2>1, CharacterAt, Zenon
  <1>2. Limits(specifier) \in {f[n].list, Append(f[n].list, f[n].imm)}
    BY Zenon DEF Limits
  <1>3. first \in Splitting
    <2>0. <<>> \in Seq(STRING)
      OBVIOUS
    <2>1. ASSUME NEW b \in STRING
          PROVE  [list |-> <<>>, imm |-> b] \in Splitting
      BY <2>0 DEF Splitting
    <2>2. "" \in STRING
      BY EmptyText
    <2> QED
      BY <2>1, <2>2, Zenon
  <1> HIDE DEF n, c, first
  <1>4. ASSUME NEW st \in Splitting, NEW i \in Nat PROVE next(st, i) \in Splitting
    BY <1>1, SplitCharType, Zenon
  <1>5. G \in [Splitting \X Nat -> Splitting] /\ \A st \in Splitting, i \in Nat : G[<<st, i>>] = next(st, i)
    <2>1. \A p \in Splitting \X Nat : next(p[1], p[2]) \in Splitting
      BY <1>4
    <2> HIDE DEF next, E, f
    <2> QED
      BY <2>1
  <1> HIDE DEF G
  <1>6. PICK r : RecursTo(r, Splitting, n, first, G)
    <2> HIDE DEF f, E, next
    <2> QED
      BY <1>1, <1>3, <1>5, RecursionTo
  <1>7. r \in [0 .. n -> Splitting] /\ r[0] = first /\ \A i \in 1 .. n : r[i] = G[<<r[i - 1], i>>]
    BY <1>6, Zenon DEF RecursTo
  <1>8. \A i \in 1 .. n : r[i] = SplitChar(r[i - 1], c(i))
    <2> SUFFICES ASSUME NEW i \in 1 .. n PROVE r[i] = SplitChar(r[i - 1], c(i))
      OBVIOUS
    <2>1. i \in Nat /\ i - 1 \in 0 .. n
      BY <1>1
    <2>2. r[i - 1] \in Splitting
      BY <1>7, <2>1, Zenon
    <2>3. r[i] = next(r[i - 1], i)
      BY <1>5, <1>7, <2>1, <2>2, Zenon
    <2> QED
      BY <2>3, Zenon
  <1>9. E(r)
    <2> HIDE DEF f, next
    <2>1. ASSUME NEW i \in 0 .. n PROVE r[i] = IF i = 0 THEN first ELSE SplitChar(r[i - 1], c(i))
      <3>1. i # 0 => i \in 1 .. n
        BY <1>1
      <3> QED
        BY <1>7, <1>8, <3>1, Zenon
    <2> QED
      BY <1>7, <2>1
  <1>10. E(f)
    BY <1>9, Zenon
  <1> HIDE DEF f, next
  <1>11. f[0] = first /\ \A i \in 1 .. n : f[i] = SplitChar(f[i - 1], c(i))
    BY <1>1, <1>10
  <1> HIDE DEF E
  <1>12. f[0] \in Splitting
    BY <1>3, <1>11
  <1>13. \A i \in 1 .. n : f[i - 1] \in Splitting => f[i] \in Splitting
    BY <1>1, <1>11, SplitCharType, Zenon
  <1>14. f[n] \in Splitting
    BY <1>1, <1>12, <1>13, InductiveTo, Zenon
  <1>15. f[n].list \in Seq(STRING) /\ Append(f[n].list, f[n].imm) \in Seq(STRING)
    BY <1>14, AppendProperties DEF Splitting
  <1> QED
    BY <1>2, <1>15

(* A range has a first value and a step, and a value at least.             *)
LEMMA RangeType ==
  ASSUME StringsAreSequences, NEW w \in STRING, Returned(range(w))
  PROVE  range(w).val.first \in Int /\ range(w).val.step \in Int /\ range(w).val.bound \in Nat
  <1> DEFINE list == Limits(w)
             v(i) == numeric_interpret(list[i])
             first == v(1).val
             end == IF Len(list) > 1 THEN v(2).val ELSE first
             step == IF Len(list) > 2 THEN v(3).val ELSE 1
             bound == IF step > 0 THEN (end - first) \div step + 1 ELSE (first - end) \div (-step) + 1
             Bad == step = 0 \/ (end > first /\ step < 0) \/ (end < first /\ step > 0)
             val == [first |-> first, step |-> step, bound |-> bound]
  <1>1. ASSUME NEW e \in {"invalid_range", "bad_imm"} PROVE ~Returned(Throw(e))
    <2>1. Throw(e).err = e
      BY DEF Throw
    <2>2. "invalid_range" # "" /\ "bad_imm" # ""
      BY Zenon
    <2> QED
      BY <2>1, <2>2, Zenon DEF Returned
  <1>2. range(w) # Throw("invalid_range") /\ range(w) # Throw("bad_imm")
    BY <1>1, Zenon
  <1>3. Len(list) \in 1 .. 3 /\ (\A i \in DOMAIN list : Returned(v(i))) /\ ~Bad /\ range(w) = Return(val)
    BY <1>2, Zenon DEF range
  <1>4. list \in Seq(STRING)
    BY LimitsType
  <1> HIDE DEF list
  <1>5. ASSUME NEW i \in 1 .. Len(list) PROVE v(i).val \in Int
    <2>1. i \in DOMAIN list /\ list[i] \in STRING
      BY <1>4, ElementOfSeq, LenProperties
    <2> QED
      BY <1>3, <2>1, NumberType
  <1> HIDE DEF v
  <1>6. first \in Int /\ end \in Int /\ step \in Int
    BY <1>3, <1>5
  <1>7. range(w).val = val
    BY <1>3, Results, Zenon
  <1>8. range(w).val.first = first /\ range(w).val.step = step /\ range(w).val.bound = bound
    BY <1>7
  <1> HIDE DEF first, end, step, val
  <1>9. bound \in Nat
    <2>1. CASE step > 0
      <3>1. end - first \in Nat /\ step \in Nat \ {0}
        BY <1>3, <1>6, <2>1
      <3>2. (end - first) \div step \in Nat
        BY <3>1
      <3> QED
        BY <2>1, <3>2
    <2>2. CASE ~(step > 0)
      <3>1. first - end \in Nat /\ -step \in Nat \ {0}
        BY <1>3, <1>6, <2>2
      <3>2. (first - end) \div (-step) \in Nat
        BY <3>1
      <3> QED
        BY <2>2, <3>2
    <2> QED
      BY <2>1, <2>2
  <1> QED
    BY <1>6, <1>8, <1>9

(* The options after some arguments.                                       *)
Widths == {4} \cup {AsUnsigned(atoi(t)) : t \in STRING}

LEMMA WidthsAre == 4 \in Widths /\ \A t \in STRING : AsUnsigned(atoi(t)) \in Widths
  BY DEF Widths

Envs ==
  [AsmInput : BOOLEAN, asmInputs : Seq(STRING), AsmOutput : BOOLEAN, AsmOutputValue : BOOLEAN,
   asmOutput : STRING, AsmStrMode : BOOLEAN, AsmStrModeValue : BOOLEAN, st : StreamTypes,
   WordSize : BOOLEAN, WordSizeValue : BOOLEAN, width : Widths,
   mode : {"INTERACTIVE", "MACHINE"}]

LEMMA ReadOptionType ==
  ASSUME NEW e \in Envs, NEW arg, NEW more \in BOOLEAN, NEW next \in STRING
  PROVE  ReadOption(e, arg, more, next) \in Envs
  <1>1. CASE arg = "-s"
    <2> DEFINE known == IF more THEN next \in StreamTypes ELSE e.AsmStrModeValue
               stream == IF more /\ next \in StreamTypes THEN next ELSE e.st
    <2>1. ReadOption(e, arg, more, next)
            = [e EXCEPT !.AsmStrMode = TRUE, !.AsmStrModeValue = known, !.st = stream]
      BY <1>1 DEF ReadOption
    <2>2. e.AsmStrModeValue \in BOOLEAN /\ e.st \in StreamTypes
      BY DEF Envs
    <2>3. (next \in StreamTypes) \in BOOLEAN
      OBVIOUS
    <2>4. known \in BOOLEAN /\ stream \in StreamTypes
      BY <2>2, <2>3, Zenon
    <2> HIDE DEF known, stream
    <2> QED
      BY <2>1, <2>4 DEF Envs
  <1>2. CASE arg = "-b"
    <2> DEFINE width == IF more THEN AsUnsigned(atoi(next)) ELSE e.width
               known == IF more THEN AsUnsigned(atoi(next)) > 0 ELSE e.WordSizeValue
    <2>1. ReadOption(e, arg, more, next)
            = [e EXCEPT !.WordSize = TRUE, !.width = width, !.WordSizeValue = known]
      BY <1>2 DEF ReadOption
    <2>2. e.width \in Widths /\ e.WordSizeValue \in BOOLEAN
      BY DEF Envs
    <2>3. width \in Widths
      BY <2>2, WidthsAre, Zenon
    <2>4. (AsUnsigned(atoi(next)) > 0) \in BOOLEAN
      OBVIOUS
    <2>5. known \in BOOLEAN
      BY <2>2, <2>4, Zenon
    <2> HIDE DEF width, known
    <2> QED
      BY <2>1, <2>3, <2>5 DEF Envs
  <1>3. CASE arg = "-i"
    <2>1. Append(e.asmInputs, next) \in Seq(STRING)
      BY AppendProperties DEF Envs
    <2> QED
      BY <1>3, <2>1 DEF ReadOption, Envs
  <1>4. CASE arg = "-o"
    BY <1>4 DEF ReadOption, Envs
  <1>5. CASE arg \notin {"-s", "-b", "-i", "-o"}
    BY <1>5 DEF ReadOption
  <1> QED
    BY <1>1, <1>2, <1>3, <1>4, <1>5

LEMMA EnvType == Env \in Envs
  <1> DEFINE env(b) ==
          [AsmInput |-> FALSE, asmInputs |-> <<>>, AsmOutput |-> FALSE, AsmOutputValue |-> FALSE,
           asmOutput |-> b, AsmStrMode |-> FALSE, AsmStrModeValue |-> FALSE, st |-> "bin",
           WordSize |-> FALSE, WordSizeValue |-> FALSE, width |-> 4,
           mode |-> "INTERACTIVE"]
  <1>0. <<>> \in Seq(STRING)
    OBVIOUS
  <1>1. ASSUME NEW b \in STRING PROVE env(b) \in Envs
    <2>1. 4 \in Widths
      BY WidthsAre
    <2>2. "bin" \in StreamTypes
      BY DEF StreamTypes
    <2> QED
      BY <1>0, <2>1, <2>2 DEF Envs
  <1>2. "" \in STRING
    BY EmptyText
  <1>3. Env = env("")
    BY Zenon DEF Env
  <1> HIDE DEF env
  <1> QED
    BY <1>1, <1>2, <1>3, Zenon

(* What holds of the options before any argument, and after each one, is   *)
(* true of them in the end.                                                *)
LEMMA OptionsWithin ==
  ASSUME StringsAreSequences, NEW args \in Seq(STRING), NEW S,
         Env \in S,
         \A e \in S, arg \in STRING, more \in BOOLEAN, t \in STRING : ReadOption(e, arg, more, t) \in S
  PROVE  characterize_Env(args) \in S
  <1> DEFINE n == Len(args)
             after(i) == IF i < n THEN args[i + 1] ELSE ""
             Step(e, i) == ReadOption(e, args[i], i < n, after(i))
             first == Env
             next(st, i) == IF i \in 1 .. n THEN Step(st, i) ELSE st
             G == [p \in S \X Nat |-> next(p[1], p[2])]
             E(f) == f = [i \in 0 .. n |-> IF i = 0 THEN first ELSE Step(f[i - 1], i)]
             f == CHOOSE f : E(f)
  <1>1. n \in Nat /\ \A i \in 1 .. n : args[i] \in STRING /\ after(i) \in STRING
    <2>1. n \in Nat /\ \A i \in 1 .. n : args[i] \in STRING
      BY LenProperties, ElementOfSeq
    <2>2. \A i \in 1 .. n : i < n => i + 1 \in 1 .. n
      BY <2>1
    <2>3. "" \in STRING
      BY EmptyText
    <2> QED
      BY <2>1, <2>2, <2>3, Zenon
  <1>2. characterize_Env(args) = f[n]
    BY Zenon DEF characterize_Env
  <1>3. first \in S
    OBVIOUS
  <1> HIDE DEF n, after, first
  <1>4. ASSUME NEW st \in S, NEW i \in Nat PROVE next(st, i) \in S
    <2>1. (i < n) \in BOOLEAN
      OBVIOUS
    <2> QED
      BY <1>1, <2>1, Zenon
  <1>5. G \in [S \X Nat -> S] /\ \A st \in S, i \in Nat : G[<<st, i>>] = next(st, i)
    <2>1. \A p \in S \X Nat : next(p[1], p[2]) \in S
      BY <1>4
    <2> HIDE DEF next, E, f
    <2> QED
      BY <2>1
  <1> HIDE DEF G
  <1>6. PICK r : RecursTo(r, S, n, first, G)
    <2> HIDE DEF f, E, next
    <2> QED
      BY <1>1, <1>3, <1>5, RecursionTo
  <1>7. r \in [0 .. n -> S] /\ r[0] = first /\ \A i \in 1 .. n : r[i] = G[<<r[i - 1], i>>]
    BY <1>6, Zenon DEF RecursTo
  <1>8. \A i \in 1 .. n : r[i] = Step(r[i - 1], i)
    <2> SUFFICES ASSUME NEW i \in 1 .. n PROVE r[i] = Step(r[i - 1], i)
      OBVIOUS
    <2>1. i \in Nat /\ i - 1 \in 0 .. n
      BY <1>1
    <2>2. r[i - 1] \in S
      BY <1>7, <2>1, Zenon
    <2>3. r[i] = next(r[i - 1], i)
      BY <1>5, <1>7, <2>1, <2>2, Zenon
    <2> QED
      BY <2>3, Zenon
  <1>9. E(r)
    <2> HIDE DEF f, next
    <2>1. ASSUME NEW i \in 0 .. n PROVE r[i] = IF i = 0 THEN first ELSE Step(r[i - 1], i)
      <3>1. i # 0 => i \in 1 .. n
        BY <1>1
      <3> QED
        BY <1>7, <1>8, <3>1, Zenon
    <2> QED
      BY <1>7, <2>1
  <1>10. E(f)
    BY <1>9, Zenon
  <1> HIDE DEF f, next
  <1>11. f[0] = first /\ \A i \in 1 .. n : f[i] = Step(f[i - 1], i)
    BY <1>1, <1>10
  <1> HIDE DEF E
  <1>12. f[0] \in S
    BY <1>3, <1>11
  <1>13. \A i \in 1 .. n : f[i - 1] \in S => f[i] \in S
    <2> SUFFICES ASSUME NEW i \in 1 .. n, f[i - 1] \in S PROVE Step(f[i - 1], i) \in S
      BY <1>11
    <2>1. (i < n) \in BOOLEAN
      OBVIOUS
    <2> QED
      BY <1>1, <2>1, Zenon
  <1>14. f[n] \in S
    BY <1>1, <1>12, <1>13, InductiveTo, Zenon
  <1> QED
    BY <1>2, <1>14, Zenon

(* Whatever the arguments, the mode is one of the two.                     *)
LEMMA ModeType ==
  ASSUME StringsAreSequences, NEW args \in Seq(STRING)
  PROVE  characterize_Env(args).mode \in {"INTERACTIVE", "MACHINE"}
  <1>1. characterize_Env(args) \in Envs
    BY EnvType, ReadOptionType, OptionsWithin
  <1> QED
    BY <1>1 DEF Envs

-----------------------------------------------------------------------------
(* Words of plain lines: no quotes and no backslashes *)

PlainCharacter(c) == c \notin Quotes \cup {"\\"}
PlainText(s) == \A i \in 1 .. Len(s) : PlainCharacter(SubSeq(s, i, i))
Colon == ":"
Newline == "\n"
NoText == ""

(* Where chop_string is between two characters of a plain line.            *)
PlainState(st) == st \in ScanStates /\ ~st.has_escaped /\ ~st.in_quotes

(* What a plain character does there.                                      *)
LEMMA PlainChop ==
  ASSUME StringsAreSequences, NEW st, PlainState(st), NEW c \in STRING, PlainCharacter(c), NEW r, r = ChopChar(st, c)
  PROVE  /\ PlainState(r)
         /\ c \in Delimiters => r = PushWord(st) /\ r.built = NoText
         /\ c \in Delimiters /\ st.built = NoText => r.words = st.words
         /\ c \in Delimiters /\ st.built # NoText => r.words = Append(st.words, st.built)
         /\ c \notin Delimiters => r.words = st.words /\ r.built = st.built \o c
  <1>1. c \notin Quotes /\ c # "\\"
    BY Zenon DEF PlainCharacter
  <1>2. ~st.has_escaped /\ ~st.in_quotes /\ st \in ScanStates
    BY Zenon DEF PlainState
  <1>3. r = IF c \in Delimiters THEN PushWord(st) ELSE [st EXCEPT !.built = @ \o c, !.has_escaped = FALSE]
    BY <1>1, <1>2, Zenon DEF ChopChar
  <1>4. CASE c \notin Delimiters
    <2>1. r = [st EXCEPT !.built = @ \o c, !.has_escaped = FALSE]
      BY <1>3, <1>4, Zenon
    <2>2. st.built \in STRING /\ st.built \o c \in STRING
      BY <1>2, TextLaws DEF ScanStates
    <2>3. r.words = st.words /\ r.built = st.built \o c /\ r.has_escaped = FALSE /\ r.in_quotes = st.in_quotes
          /\ r \in ScanStates
      BY <1>2, <2>1, <2>2 DEF ScanStates
    <2> QED
      BY <1>2, <1>4, <2>3, Zenon DEF PlainState
  <1>5. CASE c \in Delimiters
    <2>1. r = PushWord(st)
      BY <1>3, <1>5, Zenon
    <2>2. CASE st.built = NoText
      <3>1. PushWord(st) = st
        BY <2>2, Zenon DEF PushWord, NoText
      <3> QED
        BY <1>2, <1>5, <2>1, <2>2, <3>1, Zenon DEF PlainState
    <2>3. CASE st.built # NoText
      <3>1. PushWord(st) = [st EXCEPT !.words = Append(@, st.built), !.built = NoText]
        BY <2>3, Zenon DEF PushWord, NoText
      <3>2. NoText \in STRING
        BY EmptyText, Zenon DEF NoText
      <3>3. ASSUME NEW b \in STRING, r = [st EXCEPT !.words = Append(@, st.built), !.built = b]
            PROVE  r.words = Append(st.words, st.built) /\ r.built = b /\ r.has_escaped = st.has_escaped
                   /\ r.in_quotes = st.in_quotes /\ r \in ScanStates
        <4>1. st.words \in Seq(STRING) /\ st.built \in STRING
          BY <1>2 DEF ScanStates
        <4>2. Append(st.words, st.built) \in Seq(STRING)
          BY <4>1, AppendProperties
        <4>3. /\ r.words = Append(st.words, st.built) /\ r.built = b /\ r.has_escaped = st.has_escaped
              /\ r.in_quotes = st.in_quotes
          BY <1>2, <3>3 DEF ScanStates
        <4>4. r \in ScanStates
          BY <1>2, <3>3, <4>2 DEF ScanStates
        <4> QED
          BY <4>3, <4>4, Zenon
      <3>4. r.words = Append(st.words, st.built) /\ r.built = NoText /\ r.has_escaped = st.has_escaped
            /\ r.in_quotes = st.in_quotes /\ r \in ScanStates
        BY <2>1, <3>1, <3>2, <3>3, Zenon
      <3> QED
        BY <1>2, <1>5, <2>1, <2>3, <3>4, Zenon DEF PlainState
    <2> QED
      BY <2>2, <2>3
  <1> QED
    BY <1>4, <1>5

PlainList(cs) == cs \in Seq(STRING) /\ \A i \in 1 .. Len(cs) : PlainCharacter(cs[i])

LEMMA PlainScan ==
  ASSUME StringsAreSequences, NEW cs, PlainList(cs)
  PROVE  \A i \in 0 .. Len(cs) : PlainState(Scan(cs)[i])
  <1>1. /\ cs \in Seq(STRING) /\ Len(cs) \in Nat
        /\ \A i \in 1 .. Len(cs) : cs[i] \in STRING /\ PlainCharacter(cs[i])
    BY LenProperties, ElementOfSeq DEF PlainList
  <1> DEFINE n == Len(cs)
             f == Scan(cs)
             P == {st \in ScanStates : PlainState(st)}
  <1>2. f[0] = ScanStart /\ (\A i \in 1 .. n : f[i] = ChopChar(f[i - 1], cs[i])) /\ \A i \in 0 .. n : f[i] \in ScanStates
    BY <1>1, ScanSteps
  <1>3. f[0] \in P
    <2>1. ~ScanStart.has_escaped /\ ~ScanStart.in_quotes
      BY DEF ScanStart
    <2>2. 0 \in 0 .. n
      BY <1>1
    <2>3. ScanStart \in ScanStates
      BY <1>2, <2>2, Zenon
    <2> QED
      BY <1>2, <2>1, <2>3, Zenon DEF PlainState
  <1>4. \A i \in 1 .. n : f[i - 1] \in P => f[i] \in P
    <2> SUFFICES ASSUME NEW i \in 1 .. n, f[i - 1] \in P PROVE f[i] \in P
      BY Zenon
    <2>1. PlainState(f[i])
      BY <1>1, <1>2, PlainChop, Zenon
    <2> QED
      BY <2>1, Zenon DEF PlainState
  <1> HIDE DEF f, P
  <1>5. ASSUME NEW m \in 0 .. n PROVE f[m] \in P
    <2>1. m \in Nat /\ \A i \in 1 .. m : i \in 1 .. n
      BY <1>1
    <2>2. \A i \in 1 .. m : f[i - 1] \in P => f[i] \in P
      BY <1>4, <2>1, Zenon
    <2> QED
      BY <1>3, <2>1, <2>2, InductiveTo, Zenon
  <1> QED
    BY <1>5, Zenon DEF P, f

(* Two scans agree as long as the characters do.                           *)
LEMMA SamePrefix ==
  ASSUME StringsAreSequences, NEW cs \in Seq(STRING), NEW ds \in Seq(STRING),
         NEW m \in Nat, m <= Len(cs), m <= Len(ds), \A i \in 1 .. m : cs[i] = ds[i]
  PROVE  Scan(cs)[m] = Scan(ds)[m]
  <1> DEFINE f == Scan(cs)
             g == Scan(ds)
             h == [i \in 0 .. m |-> <<f[i], g[i]>>]
             V == {p \in ScanStates \X ScanStates : p[1] = p[2]}
  <1>1. f[0] = ScanStart /\ (\A i \in 1 .. Len(cs) : f[i] = ChopChar(f[i - 1], cs[i])) /\ \A i \in 0 .. Len(cs) : f[i] \in ScanStates
    BY ScanSteps
  <1>2. g[0] = ScanStart /\ (\A i \in 1 .. Len(ds) : g[i] = ChopChar(g[i - 1], ds[i])) /\ \A i \in 0 .. Len(ds) : g[i] \in ScanStates
    BY ScanSteps
  <1> HIDE DEF f, g
  <1>3. h[0] \in V
    <2>1. 0 \in 0 .. m /\ 0 \in 0 .. Len(cs) /\ 0 \in 0 .. Len(ds)
      BY LenProperties
    <2> QED
      BY <1>1, <1>2, <2>1
  <1>4. \A i \in 1 .. m : h[i - 1] \in V => h[i] \in V
    <2> SUFFICES ASSUME NEW i \in 1 .. m, h[i - 1] \in V PROVE h[i] \in V
      OBVIOUS
    <2>1. i \in 0 .. m /\ i - 1 \in 0 .. m /\ i \in 1 .. Len(cs) /\ i \in 1 .. Len(ds)
          /\ i \in 0 .. Len(cs) /\ i \in 0 .. Len(ds)
      OBVIOUS
    <2>2. h[i] = <<f[i], g[i]>> /\ h[i - 1] = <<f[i - 1], g[i - 1]>>
      BY <2>1
    <2>3. f[i - 1] = g[i - 1]
      BY <2>2
    <2>4. f[i] = g[i]
      BY <1>1, <1>2, <2>1, <2>3, Zenon
    <2>5. f[i] \in ScanStates /\ g[i] \in ScanStates
      BY <1>1, <1>2, <2>1
    <2> HIDE DEF h
    <2> QED
      BY <2>2, <2>4, <2>5
  <1> HIDE DEF V
  <1>5. h[m] \in V
    <2> HIDE DEF h
    <2> QED
      BY <1>3, <1>4, InductiveTo
  <1>6. m \in 0 .. m
    OBVIOUS
  <1> QED
    BY <1>5, <1>6 DEF V, f, g

(* The characters of a line that chop_string looks at.                     *)
LEMMA ContentIs ==
  ASSUME StringsAreSequences, NEW s \in STRING, NEW m, m = Len(Content(s))
  PROVE  /\ Content(s) \in Seq(STRING) /\ m \in 0 .. Len(s)
         /\ \A i \in 1 .. m : Content(s)[i] = SubSeq(s, i, i) /\ SubSeq(s, i, i) # ";"
         /\ m < Len(s) => SubSeq(s, m + 1, m + 1) = ";"
  <1> DEFINE cs == Chars(s)
             n == Len(s)
             S == Comment(cs)
             Semicolon == ";"
  <1>1. n \in Nat /\ cs \in Seq(STRING) /\ Len(cs) = n /\ DOMAIN cs = 1 .. n
        /\ \A i \in 1 .. n : cs[i] = SubSeq(s, i, i)
    <2>1. n \in Nat
      BY TextLaws
    <2>2. \A i \in 1 .. n : cs[i] = SubSeq(s, i, i)
      BY <2>1 DEF Chars
    <2> QED
      BY <2>1, <2>2, CharsType, CharsLength
  <1>2. Content(s) \in Seq(STRING)
    BY ContentType
  <1>3. Content(s) = IF S = {} THEN cs ELSE SubSeq(cs, 1, Min(S) - 1)
    BY Zenon DEF Content, Commentless
  <1>4. S \subseteq 1 .. n /\ \A i \in 1 .. n : i \in S <=> SubSeq(s, i, i) = Semicolon
    <2>1. S = {i \in DOMAIN cs : cs[i] = Semicolon}
      BY Zenon DEF Comment
    <2> HIDE DEF S, Semicolon, cs
    <2> QED
      BY <1>1, <2>1
  <1> HIDE DEF S, Semicolon, cs, n
  <1>5. CASE S = {}
    <2>1. m = n /\ m \in 0 .. n /\ ~(m < n)
      BY <1>1, <1>3, <1>5
    <2>2. \A i \in 1 .. n : Content(s)[i] = SubSeq(s, i, i) /\ SubSeq(s, i, i) # Semicolon
      BY <1>1, <1>3, <1>4, <1>5
    <2> QED
      BY <1>2, <2>1, <2>2, Zenon DEF n, Semicolon
  <1>6. CASE S # {}
    <2> DEFINE k == Min(S)
    <2>1. k \in S /\ \A y \in S : k <= y
      <3>1. S \subseteq Nat
        BY <1>4
      <3> QED
        BY <1>6, <3>1, LeastIn, Zenon
    <2> HIDE DEF k
    <2>2. k \in 1 .. n /\ SubSeq(s, k, k) = Semicolon /\ \A i \in 1 .. n : SubSeq(s, i, i) = Semicolon => k <= i
      BY <1>4, <2>1
    <2>3. Content(s) = SubSeq(cs, 1, k - 1)
      BY <1>3, <1>6, Zenon DEF k
    <2>4. Len(SubSeq(cs, 1, k - 1)) = k - 1 /\ \A i \in 1 .. k - 1 : SubSeq(cs, 1, k - 1)[i] = cs[i]
      <3>1. 1 \in Nat \ {0} /\ k - 1 \in Int /\ k - 1 <= Len(cs) /\ (k - 1) - 1 + 1 = k - 1
            /\ (1 <= k - 1 \/ k - 1 = 0)
        BY <1>1, <2>2
      <3>2. \A i \in 1 .. k - 1 : 1 + i - 1 = i
        OBVIOUS
      <3> QED
        BY <1>1, <3>1, <3>2, PartOfText
    <2>5. m = k - 1 /\ m + 1 = k
      BY <2>2, <2>3, <2>4
    <2>6. ASSUME NEW i \in 1 .. m PROVE Content(s)[i] = SubSeq(s, i, i) /\ SubSeq(s, i, i) # Semicolon
      <3>1. i \in 1 .. n /\ i \in 1 .. k - 1 /\ ~(k <= i)
        BY <1>1, <2>2, <2>5
      <3> QED
        BY <1>1, <2>2, <2>3, <2>4, <3>1
    <2>7. m \in 0 .. n
      BY <1>1, <2>2, <2>5
    <2>8. SubSeq(s, m + 1, m + 1) = Semicolon
      BY <2>2, <2>5, Zenon
    <2> QED
      BY <1>2, <2>6, <2>7, <2>8, Zenon DEF n, Semicolon
  <1> QED
    BY <1>5, <1>6, Zenon

LEMMA PlainContent ==
  ASSUME StringsAreSequences, NEW s \in STRING, PlainText(s)
  PROVE  /\ PlainList(Content(s)) /\ PlainState(ScanEnd(s))
         /\ chop_string(s) = Return(PushWord(ScanEnd(s)).words)
  <1> DEFINE m == Len(Content(s))
             n == Len(s)
  <1>1. Content(s) \in Seq(STRING) /\ m \in 0 .. n
        /\ \A i \in 1 .. m : Content(s)[i] = SubSeq(s, i, i)
    BY ContentIs, Zenon
  <1>2. n \in Nat
    BY TextLaws, Zenon
  <1>a. (\A i \in 1 .. m : i \in 1 .. n) /\ m \in 0 .. m
    <2> HIDE DEF m, n
    <2> QED
      BY <1>1, <1>2
  <1>3. PlainList(Content(s))
    <2> QED
      BY <1>1, <1>a, Zenon DEF PlainList, PlainText
  <1>5. PlainState(ScanEnd(s))
    BY <1>3, <1>a, PlainScan, Zenon DEF ScanEnd
  <1>6. ~ScanEnd(s).has_escaped /\ ~ScanEnd(s).in_quotes
    BY <1>5, Zenon DEF PlainState
  <1> QED
    BY <1>3, <1>5, <1>6, ChopIs, Zenon

(* The newline at the end of a line does not matter.                       *)
LEMMA ChopPopped ==
  ASSUME StringsAreSequences, NEW s \in STRING, Len(s) > 0, PlainText(s), SubSeq(s, Len(s), Len(s)) = Newline
  PROVE  pop_back(s) \in STRING /\ PlainText(pop_back(s)) /\ chop_string(pop_back(s)) = chop_string(s)
  <1> DEFINE t == pop_back(s)
             n == Len(s)
             m == Len(Content(s))
             k == Len(Content(t))
             f == Scan(Content(s))
             g == Scan(Content(t))
             Semicolon == ";"
  <1> HIDE DEF n
  <1>0. n \in Nat \ {0} /\ n - 1 \in Int /\ n - 1 <= n /\ 1 <= (n - 1) + 1 /\ 1 \in Nat \ {0} /\ (n - 1) - 1 + 1 = n - 1
    <2>1. n \in Nat /\ n > 0
      BY TextLaws, Zenon DEF n
    <2> QED
      BY <2>1
  <1>1. t \in STRING /\ Len(t) = n - 1 /\ \A i \in 1 .. n - 1 : SubSeq(t, i, i) = SubSeq(s, i, i)
    <2>1. t = SubSeq(s, 1, n - 1)
      BY Zenon DEF pop_back, n
    <2>2. t \in STRING /\ Len(t) = n - 1
      <3>1. n - 1 <= Len(s)
        BY <1>0, Zenon DEF n
      <3> DEFINE j == n - 1
      <3>2. j \in Int /\ j <= Len(s) /\ 1 <= j + 1 /\ 1 \in Nat \ {0} /\ j - 1 + 1 = j
        BY <1>0, <3>1, Zenon
      <3> HIDE DEF j
      <3>3. SubSeq(s, 1, j) \in STRING /\ Len(SubSeq(s, 1, j)) = j - 1 + 1
        BY <3>2, TextParts, Zenon
      <3>4. SubSeq(s, 1, j) \in STRING /\ Len(SubSeq(s, 1, j)) = j
        BY <3>2, <3>3, Zenon
      <3> QED
        BY <2>1, <3>4, Zenon DEF j
    <2>3. ASSUME NEW i \in 1 .. n - 1 PROVE SubSeq(t, i, i) = SubSeq(s, i, i)
      <3>1. i \in Nat \ {0} /\ i \in Int /\ i <= (n - 1) - 1 + 1 /\ i <= i + 1 /\ 1 + i - 1 = i
        BY <1>0
      <3>2. SubSeq(SubSeq(s, 1, n - 1), i, i) = SubSeq(s, 1 + i - 1, 1 + i - 1)
        <4>1. n - 1 <= Len(s)
          BY <1>0, Zenon DEF n
        <4> DEFINE j == n - 1
        <4>2. j \in Int /\ j <= Len(s) /\ 1 <= j + 1 /\ 1 \in Nat \ {0} /\ i <= j - 1 + 1
          BY <1>0, <3>1, <4>1, Zenon
        <4> HIDE DEF j
        <4>3. \A h \in Nat \ {0} : \A l \in Int : l <= j - 1 + 1 /\ h <= l + 1 =>
                SubSeq(SubSeq(s, 1, j), h, l) = SubSeq(s, 1 + h - 1, 1 + l - 1)
          BY <4>2, TextParts, Zenon
        <4>4. SubSeq(SubSeq(s, 1, j), i, i) = SubSeq(s, 1 + i - 1, 1 + i - 1)
          BY <3>1, <4>2, <4>3, Zenon
        <4> QED
          BY <4>4, Zenon DEF j
      <3> QED
        BY <2>1, <3>1, <3>2, Zenon
    <2> QED
      BY <2>2, <2>3, Zenon
  <1>2. PlainText(t)
    <2>1. \A i \in 1 .. n - 1 : i \in 1 .. n
      BY <1>0
    <2> QED
      BY <1>1, <2>1, Zenon DEF PlainText, n
  <1>3. Semicolon # Newline
    BY Zenon DEF Newline
  <1>4. /\ Content(s) \in Seq(STRING) /\ m \in 0 .. n
        /\ \A i \in 1 .. m : Content(s)[i] = SubSeq(s, i, i) /\ SubSeq(s, i, i) # Semicolon
        /\ m < n => SubSeq(s, m + 1, m + 1) = Semicolon
    BY ContentIs, Zenon DEF n
  <1>5. /\ Content(t) \in Seq(STRING) /\ k \in 0 .. n - 1
        /\ \A i \in 1 .. k : Content(t)[i] = SubSeq(t, i, i) /\ SubSeq(t, i, i) # Semicolon
        /\ k < n - 1 => SubSeq(t, k + 1, k + 1) = Semicolon
    BY <1>1, ContentIs, Zenon
  <1> HIDE DEF t, n, m, k, Semicolon
  <1>6. k = IF m = n THEN n - 1 ELSE m
    <2>1. CASE m = n
      <3>1. ASSUME k < n - 1 PROVE FALSE
        <4>1. k + 1 \in 1 .. n - 1 /\ k + 1 \in 1 .. m
          BY <1>0, <1>5, <2>1, <3>1
        <4> QED
          BY <1>1, <1>4, <1>5, <3>1, <4>1
      <3> QED
        BY <1>0, <1>5, <2>1, <3>1
    <2>2. CASE m # n
      <3>0. m < n /\ m + 1 \in 1 .. n
        BY <1>0, <1>4, <2>2
      <3>1. m < n /\ m + 1 \in 1 .. n /\ SubSeq(s, m + 1, m + 1) = Semicolon
        BY <1>4, <3>0, Zenon
      <3>2. m + 1 # n
        BY <1>3, <3>1 DEF n
      <3>a. m + 1 \in 1 .. n - 1
        BY <1>0, <1>4, <3>1, <3>2
      <3>3. m + 1 \in 1 .. n - 1 /\ SubSeq(t, m + 1, m + 1) = Semicolon
        BY <1>1, <3>1, <3>a, Zenon
      <3>4. ~(m < k)
        <4>1. m < k => m + 1 \in 1 .. k
          BY <1>0, <1>4, <1>5
        <4> QED
          BY <1>5, <3>3, <4>1, Zenon
      <3>5. ASSUME k < m PROVE FALSE
        <4>1. k + 1 \in 1 .. n - 1 /\ k + 1 \in 1 .. m /\ k < n - 1
          BY <1>0, <1>4, <1>5, <3>3, <3>5
        <4> QED
          BY <1>1, <1>4, <1>5, <4>1
      <3> QED
        BY <1>4, <1>5, <2>2, <3>4, <3>5
    <2> QED
      BY <2>1, <2>2
  <1>7. k \in Nat /\ k <= m /\ k <= k /\ \A i \in 1 .. k : Content(s)[i] = Content(t)[i]
    <2>1. k \in Nat /\ k <= m /\ k <= k
      BY <1>0, <1>4, <1>5, <1>6
    <2>2. \A i \in 1 .. k : i \in 1 .. m /\ i \in 1 .. n - 1
      BY <1>0, <1>4, <1>5, <2>1
    <2> QED
      BY <1>1, <1>4, <1>5, <2>1, <2>2, Zenon
  <1>8. f[k] = g[k]
    <2>1. k <= Len(Content(s)) /\ k <= Len(Content(t))
      BY <1>7, Zenon DEF k, m
    <2> QED
      BY <1>4, <1>5, <1>7, <2>1, SamePrefix, Zenon
  <1>9. /\ chop_string(s) = Return(PushWord(f[m]).words)
        /\ chop_string(t) = Return(PushWord(g[k]).words)
    BY <1>1, <1>2, PlainContent, Zenon DEF ScanEnd, m, k
  <1>10. PushWord(f[m]).words = PushWord(g[k]).words
    <2>1. CASE m # n
      BY <1>6, <1>8, <2>1
    <2>2. CASE m = n
      <3>1. k = m - 1 /\ m \in 1 .. m /\ k \in 0 .. m
        BY <1>0, <1>6, <2>2
      <3>2. Content(s)[m] = Newline
        BY <1>0, <1>4, <2>2, <3>1 DEF n
      <3>3. f[m] = ChopChar(f[k], Newline)
        BY <1>4, <3>1, <3>2, ScanSteps, Zenon DEF m
      <3>4. PlainState(f[k])
        BY <3>1, PlainContent, PlainScan, Zenon DEF m
      <3>5. Newline \in STRING /\ PlainCharacter(Newline) /\ Newline \in Delimiters
        <4>1. Newline \in STRING
          BY LiteralsAssumption, Zenon DEF Newline
        <4> QED
          BY <4>1, Zenon DEF Newline, PlainCharacter, Quotes, Delimiters
      <3>6. f[m] = PushWord(f[k]) /\ f[m].built = NoText
        BY <3>3, <3>4, <3>5, PlainChop, Zenon
      <3>7. PushWord(f[m]) = f[m]
        BY <3>6, Zenon DEF PushWord, NoText
      <3> QED
        BY <1>8, <3>6, <3>7, Zenon
    <2> QED
      BY <2>1, <2>2
  <1> QED
    BY <1>1, <1>2, <1>9, <1>10, Zenon DEF t

LEMMA CharactersJoined ==
  ASSUME StringsAreSequences, NEW s \in STRING, NEW t \in STRING
  PROVE  /\ s \o t \in STRING /\ Len(s \o t) = Len(s) + Len(t) /\ Len(s) \in Nat /\ Len(t) \in Nat
         /\ \A i \in 1 .. Len(s) : SubSeq(s \o t, i, i) = SubSeq(s, i, i)
         /\ \A i \in 1 .. Len(t) : SubSeq(s \o t, Len(s) + i, Len(s) + i) = SubSeq(t, i, i)
  <1>1. \A n \in Nat : \A i \in 1 .. n : i \in Nat \ {0} /\ i \in Int /\ i <= i + 1 /\ i <= n
    OBVIOUS
  <1>2. Len(s) \in Nat /\ Len(t) \in Nat
    BY TextLaws, Zenon
  <1>3. /\ s \o t \in STRING /\ Len(s \o t) = Len(s) + Len(t)
        /\ \A i \in Nat \ {0} : \A j \in Int : i <= j + 1 =>
              /\ j <= Len(s) => SubSeq(s \o t, i, j) = SubSeq(s, i, j)
              /\ j <= Len(t) => SubSeq(s \o t, Len(s) + i, Len(s) + j) = SubSeq(t, i, j)
    BY TextJoined
  <1> QED
    BY <1>1, <1>2, <1>3, Zenon

LEMMA OneCharacter ==
  ASSUME StringsAreSequences, NEW c \in STRING, Len(c) = 1
  PROVE  SubSeq(c, 1, 1) = c
  <1>1. 1 \in Nat \ {0} /\ 1 \in Int /\ 1 <= 1 /\ 1 <= 1 + 1
    OBVIOUS
  <1> QED
    BY <1>1, TextParts, Zenon

(* The characters of a part of a string.                                   *)
LEMMA CharactersOfPart ==
  ASSUME StringsAreSequences, NEW s \in STRING, NEW i \in Nat \ {0}, NEW j \in Int, j <= Len(s), i <= j + 1
  PROVE  /\ SubSeq(s, i, j) \in STRING /\ Len(SubSeq(s, i, j)) = j - i + 1
         /\ \A k \in 1 .. j - i + 1 : SubSeq(SubSeq(s, i, j), k, k) = SubSeq(s, i + k - 1, i + k - 1)
  <1>1. \A k \in 1 .. j - i + 1 : k \in Nat \ {0} /\ k \in Int /\ k <= k + 1 /\ k <= j - i + 1
    OBVIOUS
  <1>2. /\ SubSeq(s, i, j) \in STRING /\ Len(SubSeq(s, i, j)) = j - i + 1
        /\ \A k \in Nat \ {0} : \A l \in Int : l <= j - i + 1 /\ k <= l + 1 =>
              SubSeq(SubSeq(s, i, j), k, l) = SubSeq(s, i + k - 1, i + l - 1)
    BY TextParts
  <1> QED
    BY <1>1, <1>2, Zenon

(* Induction along a scan, from one place in the line to another.          *)
LEMMA ScanKeeps ==
  ASSUME NEW f, NEW V, NEW a \in Nat, NEW b \in Nat, a <= b, f[a] \in V,
         \A i \in a + 1 .. b : f[i - 1] \in V => f[i] \in V
  PROVE  f[b] \in V
  <1> DEFINE h == [i \in 0 .. b - a |-> f[a + i]]
  <1>1. b - a \in Nat /\ 0 \in 0 .. b - a /\ b - a \in 0 .. b - a /\ a + (b - a) = b /\ a + 0 = a
    OBVIOUS
  <1>2. h[0] \in V
    BY <1>1, Zenon
  <1>3. \A i \in 1 .. b - a : h[i - 1] \in V => h[i] \in V
    <2> SUFFICES ASSUME NEW i \in 1 .. b - a, h[i - 1] \in V PROVE h[i] \in V
      BY Zenon
    <2>1. i - 1 \in 0 .. b - a /\ i \in 0 .. b - a /\ a + i \in a + 1 .. b /\ a + (i - 1) = (a + i) - 1
      OBVIOUS
    <2>2. h[i - 1] = f[(a + i) - 1] /\ h[i] = f[a + i]
      BY <2>1, Zenon
    <2> QED
      BY <2>1, <2>2, Zenon
  <1>4. h[b - a] = f[b]
    BY <1>1, Zenon
  <1> HIDE DEF h
  <1>5. \A n \in Nat : (\A i \in 1 .. n : h[i - 1] \in V => h[i] \in V) => h[n] \in V
    BY <1>2, InductiveTo
  <1> QED
    BY <1>1, <1>3, <1>4, <1>5, Zenon

(* The first word, finished or not.                                        *)
First(st, X) == IF st.words = <<>> THEN st.built \in X ELSE st.words[1] \in X

LEMMA AppendFirst ==
  ASSUME NEW S, NEW q \in Seq(S), NEW x \in S
  PROVE  /\ Append(q, x) # <<>>
         /\ q = <<>> => Append(q, x)[1] = x
         /\ q # <<>> => Append(q, x)[1] = q[1]
  OBVIOUS

LEMMA FirstStays ==
  ASSUME StringsAreSequences, NEW st, PlainState(st), NEW c \in STRING, PlainCharacter(c), NEW r, r = ChopChar(st, c),
         NEW X, First(st, X),
         st.words = <<>> /\ c \notin Delimiters => st.built \o c \in X
  PROVE  First(r, X) /\ (st.words # <<>> => r.words # <<>> /\ r.words[1] = st.words[1])
  <1>1. /\ PlainState(r)
        /\ c \in Delimiters => r = PushWord(st) /\ r.built = NoText
        /\ c \in Delimiters /\ st.built = NoText => r.words = st.words
        /\ c \in Delimiters /\ st.built # NoText => r.words = Append(st.words, st.built)
        /\ c \notin Delimiters => r.words = st.words /\ r.built = st.built \o c
    BY PlainChop, Zenon
  <1>2. st.words \in Seq(STRING) /\ st.built \in STRING
    BY DEF PlainState, ScanStates
  <1>3. /\ Append(st.words, st.built) # <<>>
        /\ st.words = <<>> => Append(st.words, st.built)[1] = st.built
        /\ st.words # <<>> => Append(st.words, st.built)[1] = st.words[1]
    BY <1>2, AppendFirst
  <1>4. st.words = <<>> => st.built \in X
    BY Zenon DEF First
  <1>5. st.words # <<>> => st.words[1] \in X
    BY Zenon DEF First
  <1>6. CASE c \notin Delimiters
    BY <1>1, <1>4, <1>5, <1>6, Zenon DEF First
  <1>7. CASE c \in Delimiters /\ st.built = NoText
    BY <1>1, <1>4, <1>5, <1>7, Zenon DEF First
  <1>8. CASE c \in Delimiters /\ st.built # NoText
    BY <1>1, <1>3, <1>4, <1>5, <1>8, Zenon DEF First
  <1> QED
    BY <1>6, <1>7, <1>8, Zenon

(* The end of a line is one more delimiter.                                *)
LEMMA PushIsChop ==
  ASSUME NEW st, PlainState(st)
  PROVE  /\ PushWord(st) = ChopChar(st, Newline)
         /\ Newline \in STRING /\ PlainCharacter(Newline) /\ Newline \in Delimiters
  <1>1. Newline \in STRING
    BY LiteralsAssumption, Zenon DEF Newline
  <1>2. PlainCharacter(Newline) /\ Newline \in Delimiters
    BY Zenon DEF Newline, PlainCharacter, Quotes, Delimiters
  <1>3. ~st.has_escaped /\ ~st.in_quotes /\ Newline \notin Quotes /\ Newline # "\\"
    BY <1>2, Zenon DEF PlainState, PlainCharacter
  <1>4. PushWord(st) = ChopChar(st, Newline)
    BY <1>2, <1>3, Zenon DEF ChopChar
  <1> QED
    BY <1>1, <1>2, <1>4

LEMMA FirstAlong ==
  ASSUME StringsAreSequences, NEW cs, PlainList(cs), NEW a \in 0 .. Len(cs), NEW b \in a .. Len(cs),
         NEW X, First(Scan(cs)[a], X),
         \A i \in a + 1 .. b : \A x \in X : x \o cs[i] \in X
  PROVE  /\ First(Scan(cs)[b], X)
         /\ Scan(cs)[a].words # <<>> => Scan(cs)[b].words # <<>> /\ Scan(cs)[b].words[1] = Scan(cs)[a].words[1]
  <1> DEFINE f == Scan(cs)
             n == Len(cs)
             Kept(st) == f[a].words # <<>> => st.words # <<>> /\ st.words[1] = f[a].words[1]
             V == {st \in ScanStates : PlainState(st) /\ First(st, X) /\ Kept(st)}
  <1>1. cs \in Seq(STRING) /\ n \in Nat /\ \A i \in 1 .. n : cs[i] \in STRING /\ PlainCharacter(cs[i])
    BY LenProperties, ElementOfSeq DEF PlainList
  <1>2. (\A i \in 1 .. n : f[i] = ChopChar(f[i - 1], cs[i])) /\ \A i \in 0 .. n : f[i] \in ScanStates /\ PlainState(f[i])
    BY <1>1, ScanSteps, PlainScan
  <1> HIDE DEF f, n
  <1>3. a \in Nat /\ b \in Nat /\ a <= b /\ a \in 0 .. n /\ \A i \in a + 1 .. b : i \in 1 .. n
    <2>1. a \in 0 .. n /\ b \in a .. n
      BY Zenon DEF n
    <2> QED
      BY <1>1, <2>1
  <1>4. f[a] \in V
    BY <1>2, <1>3, Zenon DEF f
  <1>5. \A i \in a + 1 .. b : f[i - 1] \in V => f[i] \in V
    <2> SUFFICES ASSUME NEW i \in a + 1 .. b, f[i - 1] \in V PROVE f[i] \in V
      BY Zenon
    <2>1. PlainState(f[i - 1]) /\ First(f[i - 1], X) /\ Kept(f[i - 1])
      BY Zenon
    <2>2. f[i] = ChopChar(f[i - 1], cs[i]) /\ cs[i] \in STRING /\ PlainCharacter(cs[i])
      BY <1>1, <1>2, <1>3, Zenon
    <2>3. f[i - 1].words = <<>> => f[i - 1].built \o cs[i] \in X
      BY <2>1, Zenon DEF First
    <2>4. First(f[i], X) /\ (f[i - 1].words # <<>> => f[i].words # <<>> /\ f[i].words[1] = f[i - 1].words[1])
      BY <2>1, <2>2, <2>3, FirstStays, Zenon
    <2>5. PlainState(f[i])
      BY <2>1, <2>2, PlainChop, Zenon
    <2>6. f[i] \in ScanStates
      BY <2>5, Zenon DEF PlainState
    <2> QED
      BY <2>1, <2>4, <2>5, <2>6, Zenon
  <1> HIDE DEF V, Kept
  <1>6. f[b] \in V
    BY <1>3, <1>4, <1>5, ScanKeeps, Zenon
  <1> QED
    BY <1>6, Zenon DEF V, Kept, f

(* No word is empty.                                                       *)
LEMMA FirstNotEmpty ==
  ASSUME StringsAreSequences, NEW cs, PlainList(cs), PushWord(Scan(cs)[Len(cs)]).words # <<>>
  PROVE  PushWord(Scan(cs)[Len(cs)]).words[1] # NoText
  <1> DEFINE f == Scan(cs)
             n == Len(cs)
             V == {st \in ScanStates : PlainState(st) /\ (st.words # <<>> => st.words[1] # NoText)}
  <1>1. cs \in Seq(STRING) /\ n \in Nat /\ \A i \in 1 .. n : cs[i] \in STRING /\ PlainCharacter(cs[i])
    BY LenProperties, ElementOfSeq DEF PlainList
  <1>2. /\ f[0] = ScanStart /\ \A i \in 1 .. n : f[i] = ChopChar(f[i - 1], cs[i])
        /\ \A i \in 0 .. n : f[i] \in ScanStates /\ PlainState(f[i])
    BY <1>1, ScanSteps, PlainScan
  <1> HIDE DEF f, n
  <1>3. ASSUME NEW st \in V, NEW c \in STRING, PlainCharacter(c) PROVE ChopChar(st, c) \in V
    <2> DEFINE r == ChopChar(st, c)
    <2>1. /\ PlainState(r)
          /\ c \in Delimiters /\ st.built = NoText => r.words = st.words
          /\ c \in Delimiters /\ st.built # NoText => r.words = Append(st.words, st.built)
          /\ c \notin Delimiters => r.words = st.words
      BY <1>3, PlainChop, Zenon
    <2>2. st.words \in Seq(STRING) /\ st.built \in STRING /\ (st.words # <<>> => st.words[1] # NoText)
      BY <1>3 DEF ScanStates
    <2>3. /\ st.words = <<>> => Append(st.words, st.built)[1] = st.built
          /\ st.words # <<>> => Append(st.words, st.built)[1] = st.words[1]
      BY <2>2, AppendFirst
    <2> HIDE DEF r
    <2>4. r.words # <<>> => r.words[1] # NoText
      <3>1. CASE c \in Delimiters /\ st.built # NoText
        BY <2>1, <2>2, <2>3, <3>1, Zenon
      <3> QED
        BY <2>1, <2>2, <3>1, Zenon
    <2>5. r \in ScanStates
      BY <2>1, Zenon DEF PlainState
    <2> QED
      BY <2>1, <2>4, <2>5, Zenon DEF r
  <1>4. f[0] \in V
    <2>1. ScanStart.words = <<>>
      BY DEF ScanStart
    <2>2. 0 \in 0 .. n
      BY <1>1
    <2> QED
      BY <1>2, <2>1, <2>2, Zenon
  <1>5. \A i \in 0 + 1 .. n : f[i - 1] \in V => f[i] \in V
    <2>1. \A i \in 0 + 1 .. n : i \in 1 .. n
      OBVIOUS
    <2> HIDE DEF V
    <2> QED
      BY <1>1, <1>2, <1>3, <2>1, Zenon
  <1>6. f[n] \in V
    <2>1. 0 \in Nat /\ 0 <= n
      BY <1>1
    <2> HIDE DEF V
    <2> QED
      BY <1>1, <1>4, <1>5, <2>1, ScanKeeps, Zenon
  <1>7. PushWord(f[n]) \in V
    <2>1. PlainState(f[n])
      BY <1>6, Zenon
    <2>2. PushWord(f[n]) = ChopChar(f[n], Newline) /\ Newline \in STRING /\ PlainCharacter(Newline)
      BY <2>1, PushIsChop, Zenon
    <2> HIDE DEF V
    <2> QED
      BY <1>3, <1>6, <2>2, Zenon
  <1> QED
    BY <1>7, Zenon DEF f, n

ColonFree(x) == \A i \in 1 .. Len(x) : SubSeq(x, i, i) # Colon
ColonFreeTexts == {x \in STRING : ColonFree(x)}

(* The texts with a colon that is not their last character.                *)
EarlyColon(x) == \E k \in 1 .. Len(x) - 1 : SubSeq(x, k, k) = Colon
EarlyColonTexts == {x \in STRING : EarlyColon(x)}

LEMMA ColonFreeMore ==
  ASSUME StringsAreSequences, NEW x \in ColonFreeTexts, NEW c \in STRING, Len(c) = 1, c # Colon
  PROVE  x \o c \in ColonFreeTexts
  <1> DEFINE n == Len(x)
  <1>1. x \in STRING /\ \A i \in 1 .. n : SubSeq(x, i, i) # Colon
    BY Zenon DEF ColonFreeTexts, ColonFree
  <1>2. /\ x \o c \in STRING /\ Len(x \o c) = n + 1 /\ n \in Nat
        /\ \A i \in 1 .. n : SubSeq(x \o c, i, i) = SubSeq(x, i, i)
        /\ \A i \in 1 .. 1 : SubSeq(x \o c, n + i, n + i) = SubSeq(c, i, i)
    <2>1. /\ x \o c \in STRING /\ Len(x \o c) = n + Len(c) /\ n \in Nat
          /\ \A i \in 1 .. n : SubSeq(x \o c, i, i) = SubSeq(x, i, i)
          /\ \A i \in 1 .. Len(c) : SubSeq(x \o c, n + i, n + i) = SubSeq(c, i, i)
      BY <1>1, CharactersJoined, Zenon
    <2> QED
      BY <2>1, Zenon
  <1> HIDE DEF n
  <1>3. 1 \in 1 .. 1 /\ \A i \in 1 .. n + 1 : i \in 1 .. n \/ i = n + 1
    BY <1>2
  <1>4. SubSeq(x \o c, n + 1, n + 1) = c
    BY <1>2, <1>3, OneCharacter, Zenon
  <1>5. \A i \in 1 .. n + 1 : SubSeq(x \o c, i, i) # Colon
    BY <1>1, <1>2, <1>3, <1>4, Zenon
  <1> QED
    BY <1>2, <1>5, Zenon DEF ColonFreeTexts, ColonFree

LEMMA EarlyColonMore ==
  ASSUME StringsAreSequences, NEW x \in STRING, NEW k \in 1 .. Len(x), SubSeq(x, k, k) = Colon,
         NEW c \in STRING, Len(c) = 1
  PROVE  x \o c \in EarlyColonTexts
  <1> DEFINE n == Len(x)
  <1>1. /\ x \o c \in STRING /\ Len(x \o c) = n + 1 /\ n \in Nat
        /\ \A i \in 1 .. n : SubSeq(x \o c, i, i) = SubSeq(x, i, i)
    BY CharactersJoined, Zenon
  <1>2. SubSeq(x \o c, k, k) = Colon
    BY <1>1, Zenon
  <1>3. k \in 1 .. (n + 1) - 1
    <2>1. \A i \in Nat : \A j \in 1 .. i : j \in 1 .. (i + 1) - 1
      OBVIOUS
    <2> QED
      BY <1>1, <2>1, Zenon
  <1> QED
    BY <1>1, <1>2, <1>3, Zenon DEF EarlyColonTexts, EarlyColon

(* One scan ahead of another by a word.                                    *)
Before(x, q) == <<x>> \o q

Ahead(B, st, rest) ==
  PlainState(st) /\ PlainState(rest) /\ st.words = Before(B, rest.words) /\ st.built = rest.built

BothWays(x, q, y) == Append(Before(x, q), y) = Before(x, Append(q, y))

LEMMA AppendAhead ==
  ASSUME NEW S, NEW B \in S, NEW q \in Seq(S), NEW x \in S
  PROVE  /\ BothWays(B, q, x)
         /\ Tail(Before(B, q)) = q
         /\ Before(B, q)[1] = B /\ Len(Before(B, q)) = Len(q) + 1 /\ Before(B, q) # <<>>
  <1>1. <<B>> \in Seq(S) /\ Len(<<B>>) = 1 /\ <<B>>[1] = B
    OBVIOUS
  <1>2. <<B>> \o q \in Seq(S) /\ Len(<<B>> \o q) = 1 + Len(q)
    BY <1>1
  <1>3. Append(<<B>> \o q, x) = <<B>> \o Append(q, x)
    <2> DEFINE u == <<B>> \o q
               v == Append(q, x)
               a == Append(u, x)
               b == <<B>> \o v
    <2>1. v \in Seq(S) /\ Len(v) = Len(q) + 1 /\ v[Len(q) + 1] = x /\ \A i \in 1 .. Len(q) : v[i] = q[i]
      OBVIOUS
    <2>2. u \in Seq(S) /\ Len(u) = Len(q) + 1 /\ u[1] = B /\ \A i \in 1 .. Len(q) : u[i + 1] = q[i]
      OBVIOUS
    <2> HIDE DEF u, v
    <2>3. a \in Seq(S) /\ Len(a) = Len(q) + 2 /\ a[Len(q) + 2] = x /\ \A i \in 1 .. Len(q) + 1 : a[i] = u[i]
      BY <2>2
    <2>4. b \in Seq(S) /\ Len(b) = Len(q) + 2 /\ b[1] = B /\ \A i \in 1 .. Len(q) + 1 : b[i + 1] = v[i]
      BY <2>1
    <2> HIDE DEF a, b
    <2>5. ASSUME NEW i \in 1 .. Len(a) PROVE a[i] = b[i]
      <3>0. Len(q) \in Nat
        OBVIOUS
      <3>1. CASE i = 1
        BY <2>2, <2>3, <2>4, <3>0, <3>1
      <3>2. CASE i = Len(q) + 2
        <4>1. Len(q) + 1 \in 1 .. Len(q) + 1 /\ (Len(q) + 1) + 1 = i
          BY <3>0, <3>2
        <4> QED
          BY <2>1, <2>3, <2>4, <3>0, <3>2, <4>1
      <3>3. CASE i # 1 /\ i # Len(q) + 2
        <4> DEFINE j == i - 1
        <4>1. j \in 1 .. Len(q) /\ j + 1 = i /\ j \in 1 .. Len(q) + 1 /\ i \in 1 .. Len(q) + 1
          BY <2>3, <3>0, <3>3
        <4> HIDE DEF j
        <4>2. a[i] = u[j + 1] /\ b[j + 1] = v[j]
          BY <2>3, <2>4, <4>1
        <4> QED
          BY <2>1, <2>2, <4>1, <4>2
      <3> QED
        BY <3>1, <3>2, <3>3
    <2>6. a = b
      BY <2>3, <2>4, <2>5, SameElements
    <2> QED
      BY <2>6 DEF a, b, u, v
  <1>4. Tail(<<B>> \o q) = q
    <2> DEFINE u == <<B>> \o q
    <2>2. u \in Seq(S) /\ Len(u) = Len(q) + 1 /\ u[1] = B /\ \A i \in 1 .. Len(q) : u[i + 1] = q[i]
      OBVIOUS
    <2> HIDE DEF u
    <2>3. Tail(u) \in Seq(S) /\ Len(Tail(u)) = Len(q) /\ \A i \in 1 .. Len(q) : Tail(u)[i] = u[i + 1]
      BY <2>2
    <2>4. Tail(u) = q
      BY <2>2, <2>3, SameElements
    <2> QED
      BY <2>4 DEF u
  <1> QED
    BY <1>2, <1>3, <1>4 DEF Before, BothWays

LEMMA AheadStays ==
  ASSUME StringsAreSequences, NEW B \in STRING, NEW st, NEW rest, Ahead(B, st, rest),
         NEW c \in STRING, PlainCharacter(c)
  PROVE  Ahead(B, ChopChar(st, c), ChopChar(rest, c))
  <1> DEFINE r == ChopChar(st, c)
             q == ChopChar(rest, c)
  <1>0. PlainState(st) /\ PlainState(rest) /\ st.words = Before(B, rest.words) /\ st.built = rest.built
    BY Zenon DEF Ahead
  <1>1. /\ PlainState(r)
        /\ c \in Delimiters => r = PushWord(st) /\ r.built = NoText
        /\ c \in Delimiters /\ st.built = NoText => r.words = st.words
        /\ c \in Delimiters /\ st.built # NoText => r.words = Append(st.words, st.built)
        /\ c \notin Delimiters => r.words = st.words /\ r.built = st.built \o c
    BY <1>0, PlainChop, Zenon
  <1>2. /\ PlainState(q)
        /\ c \in Delimiters => q = PushWord(rest) /\ q.built = NoText
        /\ c \in Delimiters /\ rest.built = NoText => q.words = rest.words
        /\ c \in Delimiters /\ rest.built # NoText => q.words = Append(rest.words, rest.built)
        /\ c \notin Delimiters => q.words = rest.words /\ q.built = rest.built \o c
    BY <1>0, PlainChop, Zenon
  <1> HIDE DEF r, q
  <1>3. rest.words \in Seq(STRING) /\ rest.built \in STRING
    BY <1>0 DEF PlainState, ScanStates
  <1>4. Append(Before(B, rest.words), rest.built) = Before(B, Append(rest.words, rest.built))
    <2>1. BothWays(B, rest.words, rest.built)
      BY <1>3, AppendAhead, Zenon
    <2> QED
      BY <2>1, Zenon DEF BothWays
  <1>5. r.words = Before(B, q.words) /\ r.built = q.built
    <2>1. CASE c \notin Delimiters
      BY <1>0, <1>1, <1>2, <2>1, Zenon
    <2>2. CASE c \in Delimiters /\ rest.built = NoText
      BY <1>0, <1>1, <1>2, <2>2, Zenon
    <2>3. CASE c \in Delimiters /\ rest.built # NoText
      BY <1>0, <1>1, <1>2, <1>4, <2>3, Zenon
    <2> QED
      BY <2>1, <2>2, <2>3, Zenon
  <1> QED
    BY <1>1, <1>2, <1>5, Zenon DEF Ahead, r, q

LEMMA AheadPushed ==
  ASSUME StringsAreSequences, NEW B \in STRING, NEW st, NEW rest, Ahead(B, st, rest)
  PROVE  PushWord(rest).words \in Seq(STRING) /\ PushWord(st).words = Before(B, PushWord(rest).words)
  <1>0. PlainState(st) /\ PlainState(rest) /\ st.words = Before(B, rest.words) /\ st.built = rest.built
    BY Zenon DEF Ahead
  <1>1. /\ PushWord(st) = ChopChar(st, Newline) /\ PushWord(rest) = ChopChar(rest, Newline)
        /\ Newline \in STRING /\ PlainCharacter(Newline)
    BY <1>0, PushIsChop, Zenon
  <1>2. Ahead(B, PushWord(st), PushWord(rest))
    BY <1>1, AheadStays, Zenon
  <1>3. PushWord(rest).words \in Seq(STRING)
    <2>1. PlainState(PushWord(rest))
      BY <1>2, Zenon DEF Ahead
    <2> QED
      BY <2>1 DEF PlainState, ScanStates
  <1> QED
    BY <1>2, <1>3, Zenon DEF Ahead

LastOf(x) == SubSeq(x, Len(x), Len(x))

LEMMA LastIs ==
  ASSUME StringsAreSequences, NEW x \in STRING, x # NoText, LastOf(x) = Colon
  PROVE  x \notin ColonFreeTexts /\ (x \in EarlyColonTexts => ~ColonFree(pop_back(x)))
  <1> DEFINE n == Len(x)
             y == pop_back(x)
  <1>1. n \in Nat /\ n # 0
    BY TextLaws, EmptyIs, Zenon DEF NoText
  <1> HIDE DEF n
  <1>2. n \in 1 .. n /\ 1 \in Nat \ {0} /\ n - 1 \in Int /\ n - 1 <= n /\ 1 <= (n - 1) + 1 /\ (n - 1) - 1 + 1 = n - 1
        /\ \A k \in 1 .. n - 1 : 1 + k - 1 = k
    BY <1>1
  <1>3. SubSeq(x, n, n) = Colon
    BY Zenon DEF LastOf, n
  <1>4. x \notin ColonFreeTexts
    BY <1>2, <1>3, Zenon DEF ColonFreeTexts, ColonFree, n
  <1>5. ASSUME x \in EarlyColonTexts PROVE ~ColonFree(y)
    <2>1. PICK k \in 1 .. n - 1 : SubSeq(x, k, k) = Colon
      BY <1>5, Zenon DEF EarlyColonTexts, EarlyColon, n
    <2> DEFINE j == n - 1
    <2>2. j \in Int /\ j <= Len(x) /\ 1 <= j + 1 /\ 1 \in Nat \ {0} /\ y = SubSeq(x, 1, j) /\ k \in 1 .. j
          /\ j - 1 + 1 = j
      BY <1>2, Zenon DEF n, pop_back
    <2> HIDE DEF j, y
    <2>3. Len(SubSeq(x, 1, j)) = j - 1 + 1
          /\ \A i \in 1 .. j - 1 + 1 : SubSeq(SubSeq(x, 1, j), i, i) = SubSeq(x, 1 + i - 1, 1 + i - 1)
      BY <2>2, CharactersOfPart, Zenon
    <2>4. k \in 1 .. Len(y) /\ SubSeq(y, k, k) = SubSeq(x, 1 + k - 1, 1 + k - 1) /\ 1 + k - 1 = k
      BY <1>2, <2>2, <2>3, Zenon
    <2> QED
      BY <2>1, <2>4, Zenon DEF ColonFree
  <1> QED
    BY <1>4, <1>5

(* A plain line whose first word is a label, and what chop_string has made *)
(* of it when it is through the first colon and the character behind it.   *)
LEMMA LabelScan ==
  ASSUME StringsAreSequences, NEW cs, PlainList(cs), \A i \in 1 .. Len(cs) : Len(cs[i]) = 1,
         NEW w, w = PushWord(Scan(cs)[Len(cs)]).words, w # <<>>, Len(w) > 1,
         LastOf(w[1]) = Colon, ColonFree(pop_back(w[1]))
  PROVE  \E p \in 1 .. Len(cs) - 1 :
           /\ cs[p] = Colon /\ \A i \in 1 .. p - 1 : cs[i] # Colon
           /\ cs[p + 1] \in Delimiters
           /\ Scan(cs)[p + 1].words = Before(w[1], <<>>) /\ Scan(cs)[p + 1].built = NoText
  <1> DEFINE f == Scan(cs)
             n == Len(cs)
             X == ColonFreeTexts
             C == {i \in 1 .. n : cs[i] = Colon}
             p == Min(C)
             W == w[1]
  <1>1. cs \in Seq(STRING) /\ n \in Nat /\ \A i \in 1 .. n : cs[i] \in STRING /\ PlainCharacter(cs[i]) /\ Len(cs[i]) = 1
    BY LenProperties, ElementOfSeq DEF PlainList
  <1>2. /\ f[0] = ScanStart /\ \A i \in 1 .. n : f[i] = ChopChar(f[i - 1], cs[i])
        /\ \A i \in 0 .. n : f[i] \in ScanStates /\ PlainState(f[i])
    BY <1>1, ScanSteps, PlainScan
  <1>3. w = PushWord(f[n]).words
    BY Zenon
  <1> HIDE DEF f, n
  <1>4. 0 \in 0 .. n /\ n \in 0 .. n
    BY <1>1
  <1>5. /\ PushWord(f[n]) = ChopChar(f[n], Newline) /\ Newline \in STRING /\ PlainCharacter(Newline)
        /\ Newline \in Delimiters /\ PlainState(PushWord(f[n])) /\ PlainState(f[n])
    <2>1. PlainState(f[n])
      BY <1>2, <1>4, Zenon
    <2> QED
      BY <2>1, PushIsChop, PlainChop, Zenon
  <1>6. w \in Seq(STRING) /\ W \in STRING
    <2>1. w \in Seq(STRING)
      BY <1>3, <1>5 DEF PlainState, ScanStates
    <2> QED
      BY <2>1
  <1>7. W # NoText
    BY <1>3, FirstNotEmpty, Zenon DEF f, n
  <1>8. W \notin X /\ ~(W \in EarlyColonTexts)
    BY <1>6, <1>7, LastIs, Zenon
  (* What the first word is made of, from any place of the line on.        *)
  <1>9. ASSUME NEW Y, NEW a \in 0 .. n, First(f[a], Y), \A i \in a + 1 .. n : \A x \in Y : x \o cs[i] \in Y
        PROVE  W \in Y
    <2>1. n \in a .. n
      BY <1>1
    <2>2. First(f[n], Y)
      BY <1>9, <2>1, FirstAlong, Zenon DEF f, n
    <2>3. First(PushWord(f[n]), Y)
      <3>1. PushWord(f[n]) = ChopChar(f[n], Newline) /\ ~(Newline \notin Delimiters)
        BY <1>5, Zenon
      <3> QED
        BY <1>5, <2>2, <3>1, FirstStays, Zenon
    <2> QED
      BY <1>3, <2>3, Zenon DEF First
  <1>10. ASSUME NEW a \in 0 .. n, f[a].words # <<>> PROVE W = f[a].words[1]
    <2> DEFINE Y == {x \in STRING : TRUE}
    <2>1. n \in a .. n /\ \A i \in a + 1 .. n : i \in 1 .. n
      BY <1>1
    <2>2. First(f[a], STRING)
      <3>1. f[a] \in ScanStates
        BY <1>2
      <3>2. f[a].words \in Seq(STRING) /\ f[a].built \in STRING
        BY <3>1 DEF ScanStates
      <3>3. f[a].words # <<>> => f[a].words[1] \in STRING
        BY <3>2
      <3> QED
        BY <3>2, <3>3, Zenon DEF First
    <2>3. \A i \in a + 1 .. n : \A x \in STRING : x \o cs[i] \in STRING
      BY <1>1, <2>1, TextLaws, Zenon
    <2>4. f[n].words # <<>> /\ f[n].words[1] = f[a].words[1] /\ First(f[n], STRING)
      BY <1>10, <2>1, <2>2, <2>3, FirstAlong, Zenon DEF f, n
    <2>5. PushWord(f[n]).words[1] = f[n].words[1]
      <3>1. PushWord(f[n]) = ChopChar(f[n], Newline) /\ ~(Newline \notin Delimiters)
        BY <1>5, Zenon
      <3> QED
        BY <1>5, <2>4, <3>1, FirstStays, Zenon
    <2> QED
      BY <1>3, <2>4, <2>5, Zenon
  <1>11. f[0].words = <<>> /\ f[0].built = NoText
    <2>1. ScanStart.words = <<>> /\ ScanStart.built = NoText
      BY DEF ScanStart, NoText
    <2> QED
      BY <1>2, <2>1, Zenon
  <1>12. NoText \in X
    <2>1. NoText \in STRING /\ Len(NoText) = 0
      BY LiteralsAssumption, Zenon DEF NoText
    <2>2. \A i \in 1 .. 0 : FALSE
      OBVIOUS
    <2> QED
      BY <2>1, <2>2, Zenon DEF ColonFreeTexts, ColonFree
  <1>13. First(f[0], X)
    BY <1>11, <1>12, Zenon DEF First
  <1>14. \A i \in 1 .. n : cs[i] # Colon => \A x \in X : x \o cs[i] \in X
    BY <1>1, ColonFreeMore, Zenon
  <1>15. C # {}
    <2>1. ASSUME C = {} PROVE W \in X
      <3>1. \A i \in 0 + 1 .. n : i \in 1 .. n
        OBVIOUS
      <3>2. \A i \in 0 + 1 .. n : cs[i] # Colon
        BY <2>1, <3>1, Zenon
      <3>3. \A i \in 0 + 1 .. n : \A x \in X : x \o cs[i] \in X
        BY <1>14, <3>1, <3>2, Zenon
      <3> QED
        BY <1>4, <1>9, <1>13, <3>3, Zenon
    <2> QED
      BY <1>8, <2>1, Zenon
  <1>16. p \in C /\ \A y \in C : p <= y
    <2>1. C \subseteq Nat
      OBVIOUS
    <2> QED
      BY <1>15, <2>1, LeastIn, Zenon
  <1> HIDE DEF C
  <1>17. p \in 1 .. n /\ cs[p] = Colon
    BY <1>16, Zenon DEF C
  <1>18. \A i \in 1 .. n : cs[i] = Colon => p <= i
    BY <1>16, Zenon DEF C
  <1> HIDE DEF p
  <1>19. /\ p - 1 \in 0 .. n /\ 0 <= p - 1 /\ (\A i \in 1 .. p - 1 : i \in 1 .. n /\ ~(p <= i))
         /\ (\A i \in 0 + 1 .. p - 1 : i \in 1 .. n /\ ~(p <= i)) /\ p - 1 \in 0 .. n /\ p - 1 \in 0 .. p - 1
         /\ p - 1 \in 0 .. n
    BY <1>1, <1>17
  <1>20. \A i \in 1 .. p - 1 : cs[i] # Colon
    BY <1>18, <1>19, Zenon
  <1>21. First(f[p - 1], X)
    <2>1. \A i \in 0 + 1 .. p - 1 : \A x \in X : x \o cs[i] \in X
      BY <1>14, <1>18, <1>19, Zenon
    <2> QED
      BY <1>4, <1>13, <1>19, <2>1, FirstAlong, Zenon DEF f, n
  <1>22. f[p - 1].words = <<>> /\ f[p - 1].built \in X
    <2>1. ASSUME f[p - 1].words # <<>> PROVE FALSE
      BY <1>8, <1>10, <1>19, <1>21, <2>1, Zenon DEF First
    <2> QED
      BY <1>21, <2>1, Zenon DEF First
  <1> DEFINE B == f[p - 1].built \o Colon
  <1>23. Colon \in STRING /\ Len(Colon) = 1 /\ PlainCharacter(Colon) /\ Colon \notin Delimiters
    <2>1. Colon \in STRING /\ Len(Colon) = 1
      BY <1>1, <1>17, Zenon
    <2>2. Colon \notin Delimiters
      BY Zenon DEF Colon, Delimiters
    <2> QED
      BY <1>1, <1>17, <2>1, <2>2, Zenon
  <1>24. f[p].words = <<>> /\ f[p].built = B /\ PlainState(f[p]) /\ p \in 0 .. n
    <2>1. f[p] = ChopChar(f[p - 1], Colon) /\ PlainState(f[p - 1])
      BY <1>2, <1>17, <1>19, Zenon
    <2>2. p \in 0 .. n
      BY <1>17
    <2>0. ASSUME NEW st, NEW r, PlainState(st), r = ChopChar(st, Colon)
          PROVE  PlainState(r) /\ r.words = st.words /\ r.built = st.built \o Colon
      BY <1>23, <2>0, PlainChop, Zenon
    <2>3. PlainState(f[p]) /\ f[p].words = f[p - 1].words /\ f[p].built = f[p - 1].built \o Colon
      BY <2>0, <2>1, Zenon
    <2> QED
      BY <1>22, <2>2, <2>3, Zenon
  <1>25. B \in STRING /\ B # NoText /\ \E k \in 1 .. Len(B) : SubSeq(B, k, k) = Colon
    <2> DEFINE b == f[p - 1].built
               l == Len(b)
    <2>1. b \in STRING
      BY <1>22, Zenon DEF ColonFreeTexts
    <2>2. /\ B \in STRING /\ Len(B) = l + Len(Colon) /\ l \in Nat
          /\ \A i \in 1 .. Len(Colon) : SubSeq(B, l + i, l + i) = SubSeq(Colon, i, i)
      BY <1>23, <2>1, CharactersJoined, Zenon
    <2> HIDE DEF b, l, B
    <2>3. Len(B) = l + 1 /\ 1 \in 1 .. 1 /\ l + 1 \in 1 .. l + 1 /\ l + 1 # 0
      <3>1. \A k \in Nat : 1 \in 1 .. 1 /\ k + 1 \in 1 .. k + 1 /\ k + 1 # 0
        OBVIOUS
      <3> QED
        BY <1>23, <2>2, <3>1, Zenon
    <2>4. SubSeq(B, l + 1, l + 1) = Colon
      BY <1>23, <2>2, <2>3, OneCharacter, Zenon
    <2>5. B # NoText
      <3>1. Len(NoText) = 0
        BY LiteralsAssumption, Zenon DEF NoText
      <3> QED
        BY <2>3, <3>1, Zenon
    <2> QED
      BY <2>2, <2>3, <2>4, <2>5, Zenon
  <1> HIDE DEF B
  <1>26. p # n
    <2>1. ASSUME p = n PROVE FALSE
      <3>1. w = Append(<<>>, B)
        BY <1>3, <1>5, <1>24, <1>25, <2>1, PlainChop, Zenon
      <3>2. \A x : Len(Append(<<>>, x)) = 1
        OBVIOUS
      <3>3. Len(w) = 1
        BY <3>1, <3>2, Zenon
      <3> QED
        BY <3>3
    <2> QED
      BY <2>1
  <1>27. p \in 1 .. n - 1 /\ p + 1 \in 1 .. n /\ p + 1 \in 0 .. n /\ (p + 1) - 1 = p
         /\ \A i \in (p + 1) + 1 .. n : i \in 1 .. n
    BY <1>1, <1>17, <1>26
  <1>28. f[p + 1] = ChopChar(f[p], cs[p + 1]) /\ cs[p + 1] \in STRING /\ PlainCharacter(cs[p + 1]) /\ Len(cs[p + 1]) = 1
    BY <1>1, <1>2, <1>27, Zenon
  <1>29. cs[p + 1] \in Delimiters
    <2>1. ASSUME cs[p + 1] \notin Delimiters PROVE W \in EarlyColonTexts
      <3>1. f[p + 1].words = <<>> /\ f[p + 1].built = B \o cs[p + 1]
        BY <1>24, <1>28, <2>1, PlainChop, Zenon
      <3>2. B \o cs[p + 1] \in EarlyColonTexts
        BY <1>25, <1>28, EarlyColonMore, Zenon
      <3>3. First(f[p + 1], EarlyColonTexts)
        BY <3>1, <3>2, Zenon DEF First
      <3>4. ASSUME NEW i \in (p + 1) + 1 .. n, NEW x \in EarlyColonTexts PROVE x \o cs[i] \in EarlyColonTexts
        <4>1. x \in STRING /\ Len(x) \in Nat
          BY TextLaws, Zenon DEF EarlyColonTexts
        <4>2. \A l \in Nat : \A j \in 1 .. l - 1 : j \in 1 .. l
          OBVIOUS
        <4>3. \E j \in 1 .. Len(x) : SubSeq(x, j, j) = Colon
          BY <4>1, <4>2, Zenon DEF EarlyColonTexts, EarlyColon
        <4>4. cs[i] \in STRING /\ Len(cs[i]) = 1
          BY <1>1, <1>27, Zenon
        <4> QED
          BY <4>1, <4>3, <4>4, EarlyColonMore, Zenon
      <3> QED
        BY <1>9, <1>27, <3>3, <3>4, Zenon
    <2> QED
      BY <1>8, <2>1, Zenon
  <1>30. f[p + 1].words = Before(B, <<>>) /\ f[p + 1].built = NoText
    <2>a. ASSUME NEW st, NEW c \in STRING, NEW r, PlainState(st), PlainCharacter(c), c \in Delimiters,
                 st.built # NoText, r = ChopChar(st, c)
          PROVE  r.words = Append(st.words, st.built) /\ r.built = NoText
      BY <2>a, PlainChop, Zenon
    <2>0. f[p + 1].words = Append(f[p].words, f[p].built) /\ f[p + 1].built = NoText
      BY <1>24, <1>25, <1>28, <1>29, <2>a, Zenon
    <2>1. f[p + 1].words = Append(<<>>, B) /\ f[p + 1].built = NoText
      BY <1>24, <2>0, Zenon
    <2>2. ASSUME NEW x PROVE Append(<<>>, x) = Before(x, <<>>)
      BY DEF Before
    <2> QED
      BY <2>1, <2>2, Zenon
  <1>31. W = B
    <2>1. ASSUME NEW x PROVE Before(x, <<>>) # <<>> /\ Before(x, <<>>)[1] = x
      BY DEF Before
    <2> QED
      BY <1>10, <1>27, <1>30, <2>1, Zenon
  <1> QED
    BY <1>17, <1>20, <1>27, <1>29, <1>30, <1>31, Zenon DEF f, n

(* Without its label the line has the other words, and still its end.      *)
LEMMA ChopTrimmed ==
  ASSUME StringsAreSequences, NEW s \in STRING, PlainText(s), NEW w, w = chop_string(s).val,
         w # <<>>, Len(w) > 1, LastOf(w[1]) = Colon, ColonFree(pop_back(w[1]))
  PROVE  /\ chop_string(trim_label(s)) = Return(Tail(w))
         /\ trim_label(s) \in STRING /\ PlainText(trim_label(s))
         /\ \E p \in 1 .. Len(s) - 1 : trim_label(s) = SubSeq(s, p + 1, Len(s))
  <1> DEFINE cs == Content(s)
             n == Len(s)
             m == Len(cs)
             f == Scan(cs)
             Colons == {i \in 1 .. n : SubSeq(s, i, i) = Colon}
             t == trim_label(s)
             ds == Content(t)
             k == Len(ds)
             g == Scan(ds)
             Semicolon == ";"
  <1>1. /\ cs \in Seq(STRING) /\ m \in 0 .. n
        /\ \A i \in 1 .. m : cs[i] = SubSeq(s, i, i) /\ SubSeq(s, i, i) # Semicolon
        /\ m < n => SubSeq(s, m + 1, m + 1) = Semicolon
    BY ContentIs, Zenon
  <1>2. PlainList(cs) /\ chop_string(s) = Return(PushWord(f[m]).words)
    BY PlainContent, Zenon DEF ScanEnd
  <1>3. n \in Nat
    BY TextLaws, Zenon
  <1>4. \A i \in 1 .. m : Len(cs[i]) = 1
    <2>1. \A i \in 1 .. m : i \in 1 .. n
      <3>1. \A a \in Nat : \A b \in 0 .. a : \A i \in 1 .. b : i \in 1 .. a
        OBVIOUS
      <3> QED
        BY <1>1, <1>3, <3>1, Zenon
    <2> QED
      BY <1>1, <2>1, CharacterAt, Zenon
  <1>5. w = PushWord(f[m]).words
    BY <1>2, Results, Zenon
  <1>6. PICK p \in 1 .. m - 1 :
          /\ cs[p] = Colon /\ \A i \in 1 .. p - 1 : cs[i] # Colon
          /\ cs[p + 1] \in Delimiters
          /\ f[p + 1].words = Before(w[1], <<>>) /\ f[p + 1].built = NoText
    BY <1>2, <1>4, <1>5, LabelScan, Zenon
  <1>7. trim_label(s) = IF Colons = {} THEN NoText ELSE SubSeq(s, Min(Colons) + 1, n)
    BY Zenon DEF trim_label, Colon, NoText
  <1> HIDE DEF n, m, cs, f, t, ds, k, g, Semicolon
  <1>8. /\ p \in Nat \ {0} /\ m \in 1 .. n /\ p \in 1 .. m /\ p + 1 \in 1 .. m /\ p \in 1 .. n /\ p + 1 \in 1 .. n
        /\ \A i \in 1 .. p - 1 : i \in 1 .. m
    BY <1>1, <1>3
  <1>9. t = SubSeq(s, p + 1, n)
    <2>1. p \in Colons
      BY <1>1, <1>6, <1>8, Zenon
    <2>2. \A i \in Colons : p <= i
      <3> SUFFICES ASSUME NEW i \in Colons PROVE p <= i
        BY Zenon
      <3>1. i \in 1 .. n /\ SubSeq(s, i, i) = Colon
        BY Zenon
      <3>2. i \in 1 .. p - 1 => FALSE
        BY <1>1, <1>6, <1>8, <3>1, Zenon
      <3> HIDE DEF Colons
      <3> QED
        BY <1>3, <1>8, <3>1, <3>2
    <2>3. Min(Colons) = p
      <3>1. Colons \subseteq Nat /\ Colons # {}
        BY <1>3, <2>1
      <3>2. Min(Colons) \in Colons /\ \A y \in Colons : Min(Colons) <= y
        BY <3>1, LeastIn, Zenon
      <3> DEFINE q == Min(Colons)
      <3>3. q \in Nat /\ q <= p /\ p <= q
        BY <2>1, <2>2, <3>1, <3>2
      <3> HIDE DEF q
      <3>4. q = p
        BY <1>8, <3>3
      <3> QED
        BY <3>4, Zenon DEF q
    <2> HIDE DEF Colons
    <2> QED
      BY <1>7, <2>1, <2>3, Zenon DEF t
  <1>10. /\ t \in STRING /\ Len(t) = n - p
         /\ \A i \in 1 .. n - p : SubSeq(t, i, i) = SubSeq(s, p + i, p + i)
    <2>1. p + 1 \in Nat \ {0} /\ n \in Int /\ n <= n /\ p + 1 <= n + 1 /\ n - (p + 1) + 1 = n - p
      BY <1>3, <1>8
    <2>2. \A i \in 1 .. n - p : (p + 1) + i - 1 = p + i
      BY <1>8
    <2> DEFINE q == p + 1
    <2>3. q \in Nat \ {0} /\ q <= n + 1 /\ n - q + 1 = n - p /\ \A i \in 1 .. n - p : q + i - 1 = p + i
      BY <2>1, <2>2, Zenon
    <2> HIDE DEF q
    <2>4. n \in Int /\ n <= Len(s)
      BY <2>1, Zenon DEF n
    <2>5. /\ SubSeq(s, q, n) \in STRING /\ Len(SubSeq(s, q, n)) = n - q + 1
          /\ \A i \in 1 .. n - q + 1 : SubSeq(SubSeq(s, q, n), i, i) = SubSeq(s, q + i - 1, q + i - 1)
      BY <2>3, <2>4, CharactersOfPart, Zenon
    <2>6. t = SubSeq(s, q, n)
      BY <1>9, Zenon DEF q
    <2> QED
      BY <2>3, <2>5, <2>6, Zenon
  <1>11. PlainText(t)
    <2>1. \A i \in 1 .. n - p : p + i \in 1 .. n
      BY <1>3, <1>8
    <2> QED
      BY <1>10, <2>1, Zenon DEF PlainText, n
  <1>12. /\ ds \in Seq(STRING) /\ k \in 0 .. n - p
         /\ \A i \in 1 .. k : ds[i] = SubSeq(t, i, i) /\ SubSeq(t, i, i) # Semicolon
         /\ k < n - p => SubSeq(t, k + 1, k + 1) = Semicolon
    BY <1>10, ContentIs, Zenon DEF ds, k, Semicolon
  <1>13. k = m - p
    <2>1. ASSUME k < m - p PROVE FALSE
      <3>1. k + 1 \in 1 .. n - p /\ p + (k + 1) \in 1 .. m /\ k < n - p
        BY <1>1, <1>3, <1>8, <1>12, <2>1
      <3> QED
        BY <1>1, <1>10, <1>12, <3>1, Zenon
    <2>2. ASSUME k > m - p PROVE FALSE
      <3>1. (m - p) + 1 \in 1 .. k /\ (m - p) + 1 \in 1 .. n - p /\ p + ((m - p) + 1) = m + 1 /\ m < n
        BY <1>1, <1>3, <1>8, <1>12, <2>2
      <3> QED
        BY <1>1, <1>10, <1>12, <3>1, Zenon
    <2> QED
      BY <1>1, <1>3, <1>8, <1>12, <2>1, <2>2
  <1>14. k \in Nat /\ 1 \in 1 .. k /\ 1 <= k /\ 1 \in Nat /\ p + 1 <= m /\ p + k = m
         /\ \A i \in 1 .. k : p + i \in 1 .. m /\ p + i \in 0 .. m /\ i \in 0 .. k /\ i \in 1 .. n - p
    BY <1>1, <1>3, <1>8, <1>13
  <1>15. \A i \in 1 .. k : ds[i] = cs[p + i]
    <2> SUFFICES ASSUME NEW i \in 1 .. k PROVE ds[i] = cs[p + i]
      BY Zenon
    <2>1. ds[i] = SubSeq(t, i, i) /\ SubSeq(t, i, i) = SubSeq(s, p + i, p + i)
      BY <1>10, <1>12, <1>14, Zenon
    <2>2. cs[p + i] = SubSeq(s, p + i, p + i)
      BY <1>1, <1>14, Zenon
    <2> QED
      BY <2>1, <2>2, Zenon
  <1>16. PlainList(ds) /\ chop_string(t) = Return(PushWord(g[k]).words)
    BY <1>10, <1>11, PlainContent, Zenon DEF ScanEnd, ds, k, g
  <1>17. /\ \A i \in 1 .. m : f[i] = ChopChar(f[i - 1], cs[i]) /\ cs[i] \in STRING /\ PlainCharacter(cs[i])
         /\ \A i \in 0 .. m : PlainState(f[i])
    <2>1. \A i \in 1 .. m : f[i] = ChopChar(f[i - 1], cs[i])
      BY <1>1, ScanSteps, Zenon DEF f, m
    <2>2. \A i \in 1 .. m : cs[i] \in STRING
      BY <1>1, ElementOfSeq, Zenon DEF m
    <2>3. \A i \in 1 .. m : PlainCharacter(cs[i])
      BY <1>2, Zenon DEF PlainList, m
    <2>4. \A i \in 0 .. m : PlainState(f[i])
      BY <1>2, PlainScan, Zenon DEF f, m
    <2> QED
      BY <2>1, <2>2, <2>3, <2>4, Zenon
  <1>18. /\ g[0] = ScanStart /\ \A i \in 1 .. k : g[i] = ChopChar(g[i - 1], ds[i])
         /\ \A i \in 0 .. k : PlainState(g[i])
    <2>1. g[0] = ScanStart /\ \A i \in 1 .. k : g[i] = ChopChar(g[i - 1], ds[i])
      BY <1>12, ScanSteps, Zenon DEF g, k
    <2>2. \A i \in 0 .. k : PlainState(g[i])
      BY <1>16, PlainScan, Zenon DEF g, k
    <2> QED
      BY <2>1, <2>2, Zenon
  <1> DEFINE B == w[1]
  <1>19. B \in STRING
    <2>1. PlainState(f[m])
      <3>1. m \in 0 .. m
        BY <1>1, <1>3
      <3> QED
        BY <1>17, <3>1, Zenon
    <2>2. PlainState(PushWord(f[m]))
      BY <2>1, PushIsChop, PlainChop, Zenon
    <2>3. w \in Seq(STRING)
      BY <1>5, <2>2 DEF PlainState, ScanStates
    <2> QED
      BY <2>3
  <1> HIDE DEF B
  <1>20. Ahead(B, f[p + 1], g[1])
    <2>1. g[1] = ChopChar(g[0], ds[1]) /\ PlainState(g[0]) /\ PlainState(g[1]) /\ ds[1] = cs[p + 1] /\ PlainState(f[p + 1])
          /\ ds[1] \in STRING /\ PlainCharacter(ds[1])
      <3>1. 0 \in 0 .. k /\ 1 - 1 = 0
        BY <1>14
      <3> QED
        BY <1>14, <1>15, <1>17, <1>18, <3>1, Zenon
    <2>2. ScanStart.words = <<>> /\ ScanStart.built = NoText
      BY DEF ScanStart, NoText
    <2>3. ASSUME NEW st, NEW c \in STRING, NEW r, PlainState(st), PlainCharacter(c), c \in Delimiters,
                 st.built = NoText, r = ChopChar(st, c)
          PROVE  r.words = st.words /\ r.built = NoText
      BY <2>3, PlainChop, Zenon
    <2>4. g[1].words = <<>> /\ g[1].built = NoText
      BY <1>6, <1>18, <2>1, <2>2, <2>3, Zenon
    <2> QED
      BY <1>6, <2>1, <2>4, Zenon DEF Ahead, B
  <1>21. Ahead(B, f[m], g[k])
    <2> DEFINE h == [i \in 1 .. k |-> <<f[p + i], g[i]>>]
               V == {x \in {h[i] : i \in 1 .. k} : Ahead(B, x[1], x[2])}
    <2>1. \A i \in 1 .. k : h[i][1] = f[p + i] /\ h[i][2] = g[i] /\ h[i] \in {h[j] : j \in 1 .. k}
      <3> SUFFICES ASSUME NEW i \in 1 .. k PROVE h[i][1] = f[p + i] /\ h[i][2] = g[i] /\ h[i] \in {h[j] : j \in 1 .. k}
        BY Zenon
      <3>1. h[i] = <<f[p + i], g[i]>>
        BY Zenon
      <3>2. h[i] \in {h[j] : j \in 1 .. k}
        BY Zenon
      <3> HIDE DEF h
      <3> QED
        BY <3>1, <3>2
    <2> HIDE DEF h
    <2>2. h[1] \in V
      BY <1>14, <1>20, <2>1, Zenon
    <2>3. \A i \in 1 + 1 .. k : h[i - 1] \in V => h[i] \in V
      <3> SUFFICES ASSUME NEW i \in 1 + 1 .. k, h[i - 1] \in V PROVE h[i] \in V
        BY Zenon
      <3>1. i - 1 \in 1 .. k /\ i \in 1 .. k /\ p + (i - 1) = (p + i) - 1
        BY <1>8, <1>14
      <3>2. Ahead(B, f[(p + i) - 1], g[i - 1])
        BY <2>1, <3>1, Zenon
      <3>3. f[p + i] = ChopChar(f[(p + i) - 1], cs[p + i]) /\ g[i] = ChopChar(g[i - 1], cs[p + i])
            /\ cs[p + i] \in STRING /\ PlainCharacter(cs[p + i])
        BY <1>14, <1>15, <1>17, <1>18, <3>1, Zenon
      <3>4. Ahead(B, f[p + i], g[i])
        BY <1>19, <3>2, <3>3, AheadStays, Zenon
      <3> QED
        BY <2>1, <3>1, <3>4, Zenon
    <2>4. h[k] \in V
      <3> HIDE DEF V
      <3> QED
        BY <1>14, <2>2, <2>3, ScanKeeps, Zenon
    <2>5. k \in 1 .. k
      BY <1>14
    <2> QED
      BY <1>14, <2>1, <2>4, <2>5, Zenon
  <1>22. PushWord(g[k]).words \in Seq(STRING) /\ PushWord(f[m]).words = Before(B, PushWord(g[k]).words)
    BY <1>19, <1>21, AheadPushed, Zenon
  <1>23. Tail(w) = PushWord(g[k]).words
    <2>1. ASSUME NEW q \in Seq(STRING), NEW u, u = Before(B, q) PROVE Tail(u) = q
      <3>1. Tail(Before(B, q)) = q
        BY <1>19, AppendAhead, Zenon
      <3> QED
        BY <2>1, <3>1, Zenon
    <2> QED
      BY <1>5, <1>22, <2>1, Zenon
  <1>24. p \in 1 .. n - 1
    BY <1>3, <1>8
  <1> QED
    BY <1>9, <1>10, <1>11, <1>16, <1>23, <1>24, Zenon DEF t, n

(* Numbers, for proofs that are also about literals.                       *)
LEMMA SmallNumbers ==
  /\ 1 \in Nat \ {0} /\ 0 + 1 = 1 /\ 0 \in Nat
  /\ \A x \in Nat : x \in Int /\ x <= x /\ 1 <= x + 1 /\ 0 <= x
  /\ \A x, y \in Nat : x - y = 0 => y = x
  /\ \A x \in Nat : \A y \in 1 .. x : y \in Nat /\ y <= x /\ ~(y <= 0)
  OBVIOUS

-----------------------------------------------------------------------------
(* Lists and texts put together *)

(* Lists put one behind the other.                                        *)
IsConcat(f, lists) == f = [i \in 0 .. Len(lists) |-> IF i = 0 THEN <<>> ELSE f[i - 1] \o lists[i]]
Concats(lists) == CHOOSE f : IsConcat(f, lists)

LEMMA ConcatSteps ==
  ASSUME NEW C, NEW lists \in Seq(Seq(C))
  PROVE  /\ Concat(lists) = Concats(lists)[Len(lists)]
         /\ Concats(lists)[0] = <<>>
         /\ \A i \in 1 .. Len(lists) : Concats(lists)[i] = Concats(lists)[i - 1] \o lists[i]
         /\ \A i \in 0 .. Len(lists) : Concats(lists)[i] \in Seq(C)
  <1> DEFINE n == Len(lists)
             next(v, i) == IF i \in 1 .. n THEN v \o lists[i] ELSE v
             G == [p \in Seq(C) \X Nat |-> next(p[1], p[2])]
  <1>1. n \in Nat /\ \A i \in 1 .. n : lists[i] \in Seq(C)
    BY LenProperties, ElementOfSeq
  <1>2. Concat(lists) = Concats(lists)[n]
    BY Zenon DEF Concat, Concats, IsConcat
  <1>3. <<>> \in Seq(C)
    OBVIOUS
  <1> HIDE DEF n
  <1>4. ASSUME NEW v \in Seq(C), NEW i \in 1 .. n PROVE v \o lists[i] \in Seq(C)
    BY <1>1, <1>4, ConcatProperties
  <1>5. G \in [Seq(C) \X Nat -> Seq(C)] /\ \A v \in Seq(C), i \in Nat : G[<<v, i>>] = next(v, i)
    <2>1. \A p \in Seq(C) \X Nat : next(p[1], p[2]) \in Seq(C)
      <3>1. ASSUME NEW v \in Seq(C), NEW i \in Nat PROVE next(v, i) \in Seq(C)
        BY <1>4, Zenon
      <3> HIDE DEF next
      <3> QED
        BY <3>1
    <2> HIDE DEF next
    <2> QED
      BY <2>1
  <1> HIDE DEF G
  <1>6. PICK r : RecursTo(r, Seq(C), n, <<>>, G)
    <2> HIDE DEF next
    <2> QED
      BY <1>1, <1>3, <1>5, RecursionTo
  <1>7. r \in [0 .. n -> Seq(C)] /\ r[0] = <<>> /\ \A i \in 1 .. n : r[i] = G[<<r[i - 1], i>>]
    BY <1>6, Zenon DEF RecursTo
  <1>8. \A i \in 1 .. n : r[i] = r[i - 1] \o lists[i]
    <2> SUFFICES ASSUME NEW i \in 1 .. n PROVE r[i] = r[i - 1] \o lists[i]
      BY Zenon
    <2>1. i \in Nat /\ i - 1 \in 0 .. n
      BY <1>1
    <2>2. r[i - 1] \in Seq(C)
      BY <1>7, <2>1, Zenon
    <2>3. r[i] = next(r[i - 1], i)
      BY <1>5, <1>7, <2>1, <2>2, Zenon
    <2> QED
      BY <2>3, Zenon
  <1> HIDE DEF next
  <1>9. IsConcat(r, lists)
    <2> DEFINE R(i) == IF i = 0 THEN <<>> ELSE r[i - 1] \o lists[i]
    <2>1. ASSUME NEW i \in 0 .. n PROVE r[i] = R(i)
      <3>1. i # 0 => i \in 1 .. n
        BY <1>1
      <3> QED
        BY <1>7, <1>8, <3>1, Zenon
    <2> HIDE DEF R
    <2>2. r = [i \in 0 .. n |-> R(i)]
      BY <1>7, <2>1
    <2> QED
      BY <2>2, Zenon DEF IsConcat, n, R
  <1> DEFINE f == Concats(lists)
  <1>10. IsConcat(f, lists)
    BY <1>9, Zenon DEF Concats
  <1> HIDE DEF f
  <1>11. f[0] = <<>> /\ \A i \in 1 .. n : f[i] = f[i - 1] \o lists[i]
    <2> DEFINE R(i) == IF i = 0 THEN <<>> ELSE f[i - 1] \o lists[i]
    <2>1. f = [i \in 0 .. n |-> R(i)]
      BY <1>10, Zenon DEF IsConcat, n
    <2> HIDE DEF R
    <2>2. \A i \in 0 .. n : f[i] = R(i)
      BY <2>1
    <2>3. 0 \in 0 .. n /\ \A i \in 1 .. n : i \in 0 .. n /\ i # 0
      BY <1>1
    <2> QED
      BY <2>2, <2>3, Zenon DEF R
  <1>12. f[0] \in Seq(C)
    BY <1>3, <1>11, Zenon
  <1>13. \A i \in 1 .. n : f[i - 1] \in Seq(C) => f[i] \in Seq(C)
    BY <1>4, <1>11, Zenon
  <1>14. ASSUME NEW m \in 0 .. n PROVE f[m] \in Seq(C)
    <2>1. m \in Nat /\ \A i \in 1 .. m : i \in 1 .. n
      BY <1>1
    <2>2. \A i \in 1 .. m : f[i - 1] \in Seq(C) => f[i] \in Seq(C)
      BY <1>13, <2>1, Zenon
    <2> QED
      BY <1>12, <2>1, <2>2, InductiveTo, Zenon
  <1> QED
    BY <1>2, <1>11, <1>14, Zenon DEF f, n

(* Texts put one behind the other.                                        *)
IsJoin(f, cs) == f = [i \in 0 .. Len(cs) |-> IF i = 0 THEN "" ELSE f[i - 1] \o cs[i]]
Joins(cs) == CHOOSE f : IsJoin(f, cs)

LEMMA JoinSteps ==
  ASSUME StringsAreSequences, NEW cs \in Seq(STRING)
  PROVE  /\ Join(cs) = Joins(cs)[Len(cs)]
         /\ Joins(cs)[0] = NoText
         /\ \A i \in 1 .. Len(cs) : Joins(cs)[i] = Joins(cs)[i - 1] \o cs[i]
         /\ \A i \in 0 .. Len(cs) : Joins(cs)[i] \in STRING
  <1> DEFINE n == Len(cs)
             next(v, i) == IF i \in 1 .. n THEN v \o cs[i] ELSE v
             G == [p \in STRING \X Nat |-> next(p[1], p[2])]
  <1>1. n \in Nat /\ \A i \in 1 .. n : cs[i] \in STRING
    BY LenProperties, ElementOfSeq
  <1>2. Join(cs) = Joins(cs)[n]
    BY Zenon DEF Join, Joins, IsJoin
  <1>3. NoText \in STRING
    BY EmptyText DEF NoText
  <1> HIDE DEF n
  <1>4. ASSUME NEW v \in STRING, NEW i \in 1 .. n PROVE v \o cs[i] \in STRING
    BY <1>1, <1>4, TextLaws, Zenon
  <1>5. G \in [STRING \X Nat -> STRING] /\ \A v \in STRING, i \in Nat : G[<<v, i>>] = next(v, i)
    <2>1. \A p \in STRING \X Nat : next(p[1], p[2]) \in STRING
      <3>1. ASSUME NEW v \in STRING, NEW i \in Nat PROVE next(v, i) \in STRING
        BY <1>4, Zenon
      <3> HIDE DEF next
      <3> QED
        BY <3>1
    <2> HIDE DEF next
    <2> QED
      BY <2>1
  <1> HIDE DEF G
  <1>6. PICK r : RecursTo(r, STRING, n, NoText, G)
    <2> HIDE DEF next
    <2> QED
      BY <1>1, <1>3, <1>5, RecursionTo
  <1>7. r \in [0 .. n -> STRING] /\ r[0] = NoText /\ \A i \in 1 .. n : r[i] = G[<<r[i - 1], i>>]
    BY <1>6, Zenon DEF RecursTo
  <1>8. \A i \in 1 .. n : r[i] = r[i - 1] \o cs[i]
    <2> SUFFICES ASSUME NEW i \in 1 .. n PROVE r[i] = r[i - 1] \o cs[i]
      BY Zenon
    <2>1. i \in Nat /\ i - 1 \in 0 .. n
      BY <1>1
    <2>2. r[i - 1] \in STRING
      BY <1>7, <2>1, Zenon
    <2>3. r[i] = next(r[i - 1], i)
      BY <1>5, <1>7, <2>1, <2>2, Zenon
    <2> QED
      BY <2>3, Zenon
  <1> HIDE DEF next
  <1>9. IsJoin(r, cs)
    <2> DEFINE R(i) == IF i = 0 THEN "" ELSE r[i - 1] \o cs[i]
    <2>1. ASSUME NEW i \in 0 .. n PROVE r[i] = R(i)
      <3>1. i # 0 => i \in 1 .. n
        BY <1>1
      <3> QED
        BY <1>7, <1>8, <3>1, Zenon DEF NoText
    <2> HIDE DEF R
    <2>2. r = [i \in 0 .. n |-> R(i)]
      BY <1>7, <2>1
    <2> QED
      BY <2>2, Zenon DEF IsJoin, n, R
  <1> DEFINE f == Joins(cs)
  <1>10. IsJoin(f, cs)
    BY <1>9, Zenon DEF Joins
  <1> HIDE DEF f
  <1>11. f[0] = NoText /\ \A i \in 1 .. n : f[i] = f[i - 1] \o cs[i]
    <2> DEFINE R(i) == IF i = 0 THEN "" ELSE f[i - 1] \o cs[i]
    <2>1. f = [i \in 0 .. n |-> R(i)]
      BY <1>10, Zenon DEF IsJoin, n
    <2> HIDE DEF R
    <2>2. \A i \in 0 .. n : f[i] = R(i)
      BY <2>1
    <2>3. 0 \in 0 .. n /\ \A i \in 1 .. n : i \in 0 .. n /\ i # 0
      BY <1>1
    <2> QED
      BY <2>2, <2>3, Zenon DEF R, NoText
  <1>12. f[0] \in STRING
    BY <1>3, <1>11, Zenon
  <1>13. \A i \in 1 .. n : f[i - 1] \in STRING => f[i] \in STRING
    BY <1>4, <1>11, Zenon
  <1>14. ASSUME NEW m \in 0 .. n PROVE f[m] \in STRING
    <2>1. m \in Nat /\ \A i \in 1 .. m : i \in 1 .. n
      BY <1>1
    <2>2. \A i \in 1 .. m : f[i - 1] \in STRING => f[i] \in STRING
      BY <1>13, <2>1, Zenon
    <2> QED
      BY <1>12, <2>1, <2>2, InductiveTo, Zenon
  <1> QED
    BY <1>2, <1>11, <1>14, Zenon DEF f, n

(* The two digits of a byte.                                               *)
Pair(b) == HexDigits[(b \div 16) + 1] \o HexDigits[(b % 16) + 1]

LEMMA DigitTexts ==
  \A i \in 1 .. 16 : HexDigits[i] \in STRING /\ Len(HexDigits[i]) = 1
  BY LiteralsAssumption, Zenon

LEMMA ByteDigits ==
  ASSUME NEW b \in 0 .. 255
  PROVE  (b \div 16) + 1 \in 1 .. 16 /\ (b % 16) + 1 \in 1 .. 16 /\ b = (b \div 16) * 16 + (b % 16)
  OBVIOUS

(* Bytes as text, the last one first.                                      *)
IsHexes(f, bytes) == f = [i \in 0 .. Len(bytes) |-> IF i = 0 THEN "" ELSE HexDigits[(bytes[i] \div 16) + 1] \o HexDigits[(bytes[i] % 16) + 1] \o f[i - 1]]
Hexes(bytes) == CHOOSE f : IsHexes(f, bytes)

LEMMA HexSteps ==
  ASSUME StringsAreSequences, NEW bytes \in Seq(0 .. 255)
  PROVE  /\ dynamicHexBuilder(bytes) = Hexes(bytes)[Len(bytes)]
         /\ Hexes(bytes)[0] = NoText
         /\ \A i \in 1 .. Len(bytes) : Hexes(bytes)[i] = HexDigits[(bytes[i] \div 16) + 1] \o HexDigits[(bytes[i] % 16) + 1] \o Hexes(bytes)[i - 1]
         /\ \A i \in 0 .. Len(bytes) : Hexes(bytes)[i] \in STRING
  <1> DEFINE n == Len(bytes)
             next(v, i) == IF i \in 1 .. n THEN HexDigits[(bytes[i] \div 16) + 1] \o HexDigits[(bytes[i] % 16) + 1] \o v ELSE v
             G == [p \in STRING \X Nat |-> next(p[1], p[2])]
  <1>1. n \in Nat /\ \A i \in 1 .. n : bytes[i] \in 0 .. 255
    BY LenProperties, ElementOfSeq
  <1>2. dynamicHexBuilder(bytes) = Hexes(bytes)[n]
    BY Zenon DEF dynamicHexBuilder, Hexes, IsHexes
  <1>3. NoText \in STRING
    BY EmptyText DEF NoText
  <1> HIDE DEF n
  <1>4. ASSUME NEW v \in STRING, NEW i \in 1 .. n PROVE HexDigits[(bytes[i] \div 16) + 1] \o HexDigits[(bytes[i] % 16) + 1] \o v \in STRING
    BY <1>1, <1>4, TextLaws, ByteDigits, DigitTexts, Zenon
  <1>5. G \in [STRING \X Nat -> STRING] /\ \A v \in STRING, i \in Nat : G[<<v, i>>] = next(v, i)
    <2>1. \A p \in STRING \X Nat : next(p[1], p[2]) \in STRING
      <3>1. ASSUME NEW v \in STRING, NEW i \in Nat PROVE next(v, i) \in STRING
        BY <1>4, Zenon
      <3> HIDE DEF next
      <3> QED
        BY <3>1
    <2> HIDE DEF next
    <2> QED
      BY <2>1
  <1> HIDE DEF G
  <1>6. PICK r : RecursTo(r, STRING, n, NoText, G)
    <2> HIDE DEF next
    <2> QED
      BY <1>1, <1>3, <1>5, RecursionTo
  <1>7. r \in [0 .. n -> STRING] /\ r[0] = NoText /\ \A i \in 1 .. n : r[i] = G[<<r[i - 1], i>>]
    BY <1>6, Zenon DEF RecursTo
  <1>8. \A i \in 1 .. n : r[i] = HexDigits[(bytes[i] \div 16) + 1] \o HexDigits[(bytes[i] % 16) + 1] \o r[i - 1]
    <2> SUFFICES ASSUME NEW i \in 1 .. n PROVE r[i] = HexDigits[(bytes[i] \div 16) + 1] \o HexDigits[(bytes[i] % 16) + 1] \o r[i - 1]
      BY Zenon
    <2>1. i \in Nat /\ i - 1 \in 0 .. n
      BY <1>1
    <2>2. r[i - 1] \in STRING
      BY <1>7, <2>1, Zenon
    <2>3. r[i] = next(r[i - 1], i)
      BY <1>5, <1>7, <2>1, <2>2, Zenon
    <2> QED
      BY <2>3, Zenon
  <1> HIDE DEF next
  <1>9. IsHexes(r, bytes)
    <2> DEFINE R(i) == IF i = 0 THEN "" ELSE HexDigits[(bytes[i] \div 16) + 1] \o HexDigits[(bytes[i] % 16) + 1] \o r[i - 1]
    <2>1. ASSUME NEW i \in 0 .. n PROVE r[i] = R(i)
      <3>1. i # 0 => i \in 1 .. n
        BY <1>1
      <3> QED
        BY <1>7, <1>8, <3>1, Zenon DEF NoText
    <2> HIDE DEF R
    <2>2. r = [i \in 0 .. n |-> R(i)]
      BY <1>7, <2>1
    <2> QED
      BY <2>2, Zenon DEF IsHexes, n, R
  <1> DEFINE f == Hexes(bytes)
  <1>10. IsHexes(f, bytes)
    BY <1>9, Zenon DEF Hexes
  <1> HIDE DEF f
  <1>11. f[0] = NoText /\ \A i \in 1 .. n : f[i] = HexDigits[(bytes[i] \div 16) + 1] \o HexDigits[(bytes[i] % 16) + 1] \o f[i - 1]
    <2> DEFINE R(i) == IF i = 0 THEN "" ELSE HexDigits[(bytes[i] \div 16) + 1] \o HexDigits[(bytes[i] % 16) + 1] \o f[i - 1]
    <2>1. f = [i \in 0 .. n |-> R(i)]
      BY <1>10, Zenon DEF IsHexes, n
    <2> HIDE DEF R
    <2>2. \A i \in 0 .. n : f[i] = R(i)
      BY <2>1
    <2>3. 0 \in 0 .. n /\ \A i \in 1 .. n : i \in 0 .. n /\ i # 0
      BY <1>1
    <2> QED
      BY <2>2, <2>3, Zenon DEF R, NoText
  <1>12. f[0] \in STRING
    BY <1>3, <1>11, Zenon
  <1>13. \A i \in 1 .. n : f[i - 1] \in STRING => f[i] \in STRING
    BY <1>4, <1>11, Zenon
  <1>14. ASSUME NEW m \in 0 .. n PROVE f[m] \in STRING
    <2>1. m \in Nat /\ \A i \in 1 .. m : i \in 1 .. n
      BY <1>1
    <2>2. \A i \in 1 .. m : f[i - 1] \in STRING => f[i] \in STRING
      BY <1>13, <2>1, Zenon
    <2> QED
      BY <1>12, <2>1, <2>2, InductiveTo, Zenon
  <1> QED
    BY <1>2, <1>11, <1>14, Zenon DEF f, n

(* One text put behind another, and its parts.                             *)
IsJoint(u, s, t) ==
  /\ u \in STRING /\ Len(u) = Len(s) + Len(t)
  /\ \A i \in Nat \ {0} : \A j \in Int : i <= j + 1 =>
       /\ j <= Len(s) => SubSeq(u, i, j) = SubSeq(s, i, j)
       /\ j <= Len(t) => SubSeq(u, Len(s) + i, Len(s) + j) = SubSeq(t, i, j)

LEMMA Joint ==
  ASSUME StringsAreSequences, NEW s \in STRING, NEW t \in STRING
  PROVE  IsJoint(s \o t, s, t)
  BY TextJoined, Zenon DEF IsJoint

LEMMA PairIs ==
  ASSUME StringsAreSequences, NEW b \in 0 .. 255
  PROVE  /\ Pair(b) \in STRING /\ Len(Pair(b)) = 2
         /\ SubSeq(Pair(b), 1, 1) = HexDigits[(b \div 16) + 1]
         /\ SubSeq(Pair(b), 2, 2) = HexDigits[(b % 16) + 1]
         /\ SubSeq(Pair(b), 1, 2) = Pair(b)
  <1> DEFINE x == HexDigits[(b \div 16) + 1]
             y == HexDigits[(b % 16) + 1]
             z == x \o y
  <1>1. x \in STRING /\ Len(x) = 1 /\ y \in STRING /\ Len(y) = 1
    BY ByteDigits, DigitTexts, Zenon
  <1> HIDE DEF x, y
  <1>2. 1 \in Nat \ {0} /\ 1 \in Int /\ 1 <= 1 + 1 /\ 1 <= 1 /\ 1 + 1 = 2
    OBVIOUS
  <1>3. z \in STRING /\ Len(z) = 1 + 1 /\ SubSeq(z, 1, 1) = SubSeq(x, 1, 1)
        /\ SubSeq(z, 1 + 1, 1 + 1) = SubSeq(y, 1, 1)
    <2>1. IsJoint(z, x, y)
      BY <1>1, Joint, Zenon
    <2> HIDE DEF z
    <2> QED
      BY <1>1, <1>2, <2>1, Zenon DEF IsJoint
  <1>4. ASSUME NEW u \in STRING PROVE SubSeq(u, 1, Len(u)) = u
    <2>1. Len(u) \in Nat
      BY TextLaws, Zenon
    <2> QED
      BY <1>2, <2>1, SmallNumbers, TextParts, Zenon
  <1>5. SubSeq(x, 1, 1) = x /\ SubSeq(y, 1, 1) = y /\ SubSeq(z, 1, 2) = z
    <2> HIDE DEF z
    <2> QED
      BY <1>1, <1>2, <1>3, <1>4, Zenon
  <1> QED
    BY <1>2, <1>3, <1>5, Zenon DEF Pair, x, y, z

(* The text of some bytes: two digits each, from the right.                *)
HexHolds(t, bytes, n) ==
  /\ t \in STRING /\ Len(t) = 2 * n
  /\ \A k \in 1 .. n : SubSeq(t, 2 * n - 2 * k + 1, 2 * n - 2 * k + 2) = Pair(bytes[k])

LEMMA HexText ==
  ASSUME StringsAreSequences, NEW bytes \in Seq(0 .. 255)
  PROVE  HexHolds(dynamicHexBuilder(bytes), bytes, Len(bytes))
  <1> DEFINE n == Len(bytes)
             f == Hexes(bytes)
             S == {i \in Nat : i <= n => HexHolds(f[i], bytes, i)}
  <1>1. /\ dynamicHexBuilder(bytes) = f[n] /\ f[0] = NoText
        /\ \A i \in 1 .. n : f[i] = Pair(bytes[i]) \o f[i - 1]
    BY HexSteps, Zenon DEF Pair
  <1>2. n \in Nat /\ \A i \in 1 .. n : bytes[i] \in 0 .. 255
    BY LenProperties, ElementOfSeq
  <1> HIDE DEF n, f
  <1>3. 0 \in S
    <2>1. NoText \in STRING /\ Len(NoText) = 0
      BY LiteralsAssumption, Zenon DEF NoText
    <2>2. 2 * 0 = 0 /\ 1 .. 0 = {} /\ 0 \in Nat
      OBVIOUS
    <2> QED
      BY <1>1, <2>1, <2>2, Zenon DEF HexHolds
  <1>4. ASSUME NEW i \in Nat, i \in S PROVE i + 1 \in S
    <2>0. i + 1 \in Nat
      OBVIOUS
    <2> SUFFICES ASSUME i + 1 <= n PROVE HexHolds(f[i + 1], bytes, i + 1)
      BY <2>0, Zenon
    <2> DEFINE p == Pair(bytes[i + 1])
               t == f[i]
               u == f[i + 1]
    <2>1. HexHolds(t, bytes, i)
      <3>1. i <= n
        BY <1>2
      <3> QED
        BY <1>4, <3>1, Zenon
    <2>2. i + 1 \in 1 .. n /\ (i + 1) - 1 = i
      BY <1>2
    <2>3. u = p \o t
      BY <1>1, <2>2, Zenon
    <2>4. p \in STRING /\ Len(p) = 2 /\ SubSeq(p, 1, 2) = p
      BY <1>2, <2>2, PairIs, Zenon
    <2> HIDE DEF p, t, u
    <2>5. t \in STRING /\ Len(t) = 2 * i
      BY <2>1, Zenon DEF HexHolds
    <2>6. /\ u \in STRING /\ Len(u) = 2 + 2 * i
          /\ \A a \in Nat \ {0} : \A b \in Int : a <= b + 1 =>
               /\ b <= 2 => SubSeq(u, a, b) = SubSeq(p, a, b)
               /\ b <= 2 * i => SubSeq(u, 2 + a, 2 + b) = SubSeq(t, a, b)
      <3>1. IsJoint(u, p, t)
        BY <2>3, <2>4, <2>5, Joint, Zenon
      <3> QED
        BY <2>4, <2>5, <3>1, Zenon DEF IsJoint
    <2>7. ASSUME NEW k \in 1 .. i + 1
          PROVE  SubSeq(u, 2 * (i + 1) - 2 * k + 1, 2 * (i + 1) - 2 * k + 2) = Pair(bytes[k])
      <3>1. CASE k = i + 1
        <4>1. 2 * (i + 1) - 2 * k + 1 = 1 /\ 2 * (i + 1) - 2 * k + 2 = 2
              /\ 1 \in Nat \ {0} /\ 2 \in Int /\ 1 <= 2 + 1 /\ 2 <= 2
          BY <3>1
        <4> QED
          BY <2>4, <2>6, <3>1, <4>1, Zenon DEF p
      <3>2. CASE k # i + 1
        <4> DEFINE a == 2 * i - 2 * k + 1
                   b == 2 * i - 2 * k + 2
        <4>1. /\ k \in 1 .. i /\ a \in Nat \ {0} /\ b \in Int /\ a <= b + 1 /\ b <= 2 * i
              /\ 2 * (i + 1) - 2 * k + 1 = 2 + a /\ 2 * (i + 1) - 2 * k + 2 = 2 + b
          BY <3>2
        <4>2. SubSeq(t, a, b) = Pair(bytes[k])
          BY <2>1, <4>1, Zenon DEF HexHolds
        <4> HIDE DEF a, b
        <4> QED
          BY <2>6, <4>1, <4>2, Zenon
      <3> QED
        BY <3>1, <3>2, Zenon
    <2>8. 2 + 2 * i = 2 * (i + 1)
      OBVIOUS
    <2>9. HexHolds(u, bytes, i + 1)
      BY <2>6, <2>7, <2>8, Zenon DEF HexHolds
    <2> QED
      BY <2>9, Zenon DEF u
  <1>5. n \in S
    <2> HIDE DEF S
    <2> QED
      BY <1>2, <1>3, <1>4, Inductive, Zenon
  <1>6. n <= n
    BY <1>2
  <1>7. HexHolds(f[n], bytes, n)
    BY <1>5, <1>6, Zenon
  <1> QED
    BY <1>1, <1>7, Zenon DEF n

-----------------------------------------------------------------------------
(* Digits read back *)

(* A hexadecimal digit is read as its number.                              *)
LEMMA DigitsDiffer ==
  /\ \A i, j \in 1 .. 16 : HexDigits[i] = HexDigits[j] => i = j
  /\ \A i \in 1 .. 16 : \A j \in 1 .. 6 : HexDigits[i] # UpperHex[j]
  /\ \A i \in 1 .. 16 : HexDigits[i] # "-"
  BY DEF HexDigits, UpperHex

LEMMA DigitRead ==
  ASSUME NEW i \in 1 .. 16
  PROVE  IsDigit(HexDigits[i]) /\ get_digit_value(HexDigits[i]) = i - 1
  <1> DEFINE P(j) == HexDigits[j] = HexDigits[i] \/ (j > 10 /\ UpperHex[j - 10] = HexDigits[i])
             q == CHOOSE j \in 1 .. 16 : P(j)
  <1>1. P(i)
    OBVIOUS
  <1>2. \A j \in 1 .. 16 : P(j) => j = i
    <2> SUFFICES ASSUME NEW j \in 1 .. 16, P(j) PROVE j = i
      BY Zenon
    <2>1. j > 10 => j - 10 \in 1 .. 6
      OBVIOUS
    <2> QED
      BY <2>1, DigitsDiffer, Zenon
  <1>3. get_digit_value(HexDigits[i]) = q - 1
    BY Zenon DEF get_digit_value
  <1> HIDE DEF P
  <1>4. q = i
    BY <1>1, <1>2, Zenon
  <1> QED
    BY <1>3, <1>4, Zenon DEF IsDigit

(* The digits of a number put together.                                    *)
IsValue(f, digits, radix) == f = [i \in 0 .. Len(digits) |-> IF i = 0 THEN 0 ELSE f[i - 1] * radix + get_digit_value(digits[i])]
Values(digits, radix) == CHOOSE f : IsValue(f, digits, radix)

LEMMA ValueSteps ==
  ASSUME NEW digits, Len(digits) \in Nat, DOMAIN digits = 1 .. Len(digits), NEW radix \in Int,
         \A i \in 1 .. Len(digits) : IsDigit(digits[i])
  PROVE  /\ Value(digits, radix) = Return(Values(digits, radix)[Len(digits)])
         /\ Values(digits, radix)[0] = 0
         /\ \A i \in 1 .. Len(digits) : Values(digits, radix)[i] = Values(digits, radix)[i - 1] * radix + get_digit_value(digits[i])
         /\ \A i \in 0 .. Len(digits) : Values(digits, radix)[i] \in Int
  <1> DEFINE n == Len(digits)
             next(v, i) == IF i \in 1 .. n THEN v * radix + get_digit_value(digits[i]) ELSE v
             G == [p \in Int \X Nat |-> next(p[1], p[2])]
  <1>1. n \in Nat /\ \A i \in 1 .. n : get_digit_value(digits[i]) \in Int
    BY DigitType
  <1>2. Value(digits, radix) = Return(Values(digits, radix)[n])
    BY Zenon DEF Value, Values, IsValue
  <1>3. 0 \in Int
    OBVIOUS
  <1> HIDE DEF n
  <1>4. ASSUME NEW v \in Int, NEW i \in 1 .. n PROVE v * radix + get_digit_value(digits[i]) \in Int
    BY <1>1
  <1>5. G \in [Int \X Nat -> Int] /\ \A v \in Int, i \in Nat : G[<<v, i>>] = next(v, i)
    <2>1. \A p \in Int \X Nat : next(p[1], p[2]) \in Int
      <3>1. ASSUME NEW v \in Int, NEW i \in Nat PROVE next(v, i) \in Int
        BY <1>4, Zenon
      <3> HIDE DEF next
      <3> QED
        BY <3>1
    <2> HIDE DEF next
    <2> QED
      BY <2>1
  <1> HIDE DEF G
  <1>6. PICK r : RecursTo(r, Int, n, 0, G)
    <2> HIDE DEF next
    <2> QED
      BY <1>1, <1>3, <1>5, RecursionTo
  <1>7. r \in [0 .. n -> Int] /\ r[0] = 0 /\ \A i \in 1 .. n : r[i] = G[<<r[i - 1], i>>]
    BY <1>6, Zenon DEF RecursTo
  <1>8. \A i \in 1 .. n : r[i] = r[i - 1] * radix + get_digit_value(digits[i])
    <2> SUFFICES ASSUME NEW i \in 1 .. n PROVE r[i] = r[i - 1] * radix + get_digit_value(digits[i])
      BY Zenon
    <2>1. i \in Nat /\ i - 1 \in 0 .. n
      BY <1>1
    <2>2. r[i - 1] \in Int
      BY <1>7, <2>1, Zenon
    <2>3. r[i] = next(r[i - 1], i)
      BY <1>5, <1>7, <2>1, <2>2, Zenon
    <2> QED
      BY <2>3, Zenon
  <1> HIDE DEF next
  <1>9. IsValue(r, digits, radix)
    <2> DEFINE R(i) == IF i = 0 THEN 0 ELSE r[i - 1] * radix + get_digit_value(digits[i])
    <2>1. ASSUME NEW i \in 0 .. n PROVE r[i] = R(i)
      <3>1. i # 0 => i \in 1 .. n
        BY <1>1
      <3> QED
        BY <1>7, <1>8, <3>1, Zenon
    <2> HIDE DEF R
    <2>2. r = [i \in 0 .. n |-> R(i)]
      BY <1>7, <2>1
    <2> QED
      BY <2>2, Zenon DEF IsValue, n, R
  <1> DEFINE f == Values(digits, radix)
  <1>10. IsValue(f, digits, radix)
    BY <1>9, Zenon DEF Values
  <1> HIDE DEF f
  <1>11. f[0] = 0 /\ \A i \in 1 .. n : f[i] = f[i - 1] * radix + get_digit_value(digits[i])
    <2> DEFINE R(i) == IF i = 0 THEN 0 ELSE f[i - 1] * radix + get_digit_value(digits[i])
    <2>1. f = [i \in 0 .. n |-> R(i)]
      BY <1>10, Zenon DEF IsValue, n
    <2> HIDE DEF R
    <2>2. \A i \in 0 .. n : f[i] = R(i)
      BY <2>1
    <2>3. 0 \in 0 .. n /\ \A i \in 1 .. n : i \in 0 .. n /\ i # 0
      BY <1>1
    <2> QED
      BY <2>2, <2>3, Zenon DEF R
  <1>12. f[0] \in Int
    BY <1>3, <1>11, Zenon
  <1>13. \A i \in 1 .. n : f[i - 1] \in Int => f[i] \in Int
    BY <1>4, <1>11, Zenon
  <1>14. ASSUME NEW m \in 0 .. n PROVE f[m] \in Int
    <2>1. m \in Nat /\ \A i \in 1 .. m : i \in 1 .. n
      BY <1>1
    <2>2. \A i \in 1 .. m : f[i - 1] \in Int => f[i] \in Int
      BY <1>13, <2>1, Zenon
    <2> QED
      BY <1>12, <2>1, <2>2, InductiveTo, Zenon
  <1> QED
    BY <1>2, <1>11, <1>14, Zenon DEF f, n

(* Two hexadecimal digits behind their prefix are read as their byte.      *)
HexPrefix == "0x"

IsPrefixed(u, x, y) ==
  /\ u \in STRING /\ Len(u) = 4 /\ SubSeq(u, 1, 2) = HexPrefix
  /\ SubSeq(u, 3, 3) = x /\ SubSeq(u, 4, 4) = y

LEMMA TwoDigits ==
  ASSUME NEW ds, Len(ds) = 2, DOMAIN ds = 1 .. 2, NEW i \in 1 .. 16, NEW j \in 1 .. 16,
         ds[1] = HexDigits[i], ds[2] = HexDigits[j]
  PROVE  Value(ds, 16) = Return((i - 1) * 16 + (j - 1))
  <1> DEFINE f == Values(ds, 16)
             a == i - 1
             b == j - 1
  <1>1. /\ IsDigit(ds[1]) /\ get_digit_value(ds[1]) = a
        /\ IsDigit(ds[2]) /\ get_digit_value(ds[2]) = b
    BY DigitRead, Zenon
  <1>2. /\ 2 \in Nat /\ 16 \in Int /\ \A k \in 1 .. 2 : k = 1 \/ k = 2
        /\ 1 \in 1 .. 2 /\ 2 \in 1 .. 2 /\ 1 - 1 = 0 /\ 2 - 1 = 1 /\ a \in Int /\ b \in Int
    OBVIOUS
  <1>3. \A k \in 1 .. 2 : IsDigit(ds[k])
    BY <1>1, <1>2, Zenon
  <1> HIDE DEF f, a, b
  <1>4. /\ Value(ds, 16) = Return(f[2]) /\ f[0] = 0
        /\ f[1] = f[1 - 1] * 16 + get_digit_value(ds[1])
        /\ f[2] = f[2 - 1] * 16 + get_digit_value(ds[2])
    <2>1. Len(ds) \in Nat /\ DOMAIN ds = 1 .. Len(ds) /\ \A k \in 1 .. Len(ds) : IsDigit(ds[k])
      BY <1>2, <1>3, Zenon
    <2>2. /\ Value(ds, 16) = Return(f[Len(ds)]) /\ f[0] = 0
          /\ \A k \in 1 .. Len(ds) : f[k] = f[k - 1] * 16 + get_digit_value(ds[k])
      BY <1>2, <2>1, ValueSteps, Zenon DEF f
    <2> QED
      BY <1>2, <2>2, Zenon
  <1>5. f[1] = 0 * 16 + a /\ f[2] = f[1] * 16 + b
    BY <1>1, <1>2, <1>4, Zenon
  <1>6. 0 * 16 + a = a
    BY <1>2
  <1>7. f[2] = a * 16 + b
    BY <1>5, <1>6, Zenon
  <1> QED
    BY <1>4, <1>7, Zenon DEF a, b

LEMMA HexRead ==
  ASSUME StringsAreSequences, NEW u, NEW i \in 1 .. 16, NEW j \in 1 .. 16,
         IsPrefixed(u, HexDigits[i], HexDigits[j])
  PROVE  numeric_interpret(u) = Return((i - 1) * 16 + (j - 1))
  <1> DEFINE t == SubSeq(u, 3, 4)
  <1>1. /\ u \in STRING /\ Len(u) = 4 /\ SubSeq(u, 1, 2) = HexPrefix
        /\ SubSeq(u, 3, 3) = HexDigits[i] /\ SubSeq(u, 4, 4) = HexDigits[j]
    BY Zenon DEF IsPrefixed
  <1>2. Len(HexPrefix) = 2
    BY LiteralsAssumption, Zenon DEF HexPrefix
  <1>3. /\ 3 \in Nat \ {0} /\ 4 \in Int /\ 4 <= 4 /\ 3 <= 4 + 1 /\ 4 - 3 + 1 = 2 /\ 2 < 4 /\ 2 + 1 = 3
        /\ 1 \in Nat \ {0} /\ 2 \in Nat \ {0} /\ 1 \in Int /\ 2 \in Int /\ 1 <= 2 /\ 2 <= 2
        /\ 1 <= 1 + 1 /\ 2 <= 2 + 1 /\ 3 + 1 - 1 = 3 /\ 3 + 2 - 1 = 4 /\ 2 # 0 /\ 0 < 2
        /\ 1 \in 1 .. 2 /\ 2 \in 1 .. 2 /\ 2 \in Nat
    OBVIOUS
  <1>4. /\ t \in STRING /\ Len(t) = 4 - 3 + 1
        /\ \A k \in Nat \ {0} : \A l \in Int : l <= 4 - 3 + 1 /\ k <= l + 1 =>
             SubSeq(t, k, l) = SubSeq(u, 3 + k - 1, 3 + l - 1)
    <2>1. u \in STRING /\ 4 <= Len(u)
      BY <1>1, <1>3, Zenon
    <2>2. 3 \in Nat \ {0}
      OBVIOUS
    <2>3. 4 \in Int
      OBVIOUS
    <2>4. 3 <= 4 + 1
      OBVIOUS
    <2> QED
      BY <2>1, <2>2, <2>3, <2>4, TextParts, Zenon
  <1>5. has_prefix(u, HexPrefix) = t
    BY <1>1, <1>2, <1>3, Zenon DEF has_prefix
  <1> HIDE DEF t
  <1>6. t \in STRING /\ Len(t) = 2 /\ SubSeq(t, 1, 1) = HexDigits[i] /\ SubSeq(t, 2, 2) = HexDigits[j]
    BY <1>1, <1>3, <1>4, Zenon
  <1>7. t # NoText
    BY <1>3, <1>6, EmptyIs, Zenon DEF NoText
  <1>8. numeric_interpret(u) = Interpret(t, 16)
    BY <1>5, <1>7, Zenon DEF numeric_interpret, HexPrefix, NoText
  <1>9. ~Negative(t)
    BY <1>6, DigitsDiffer, Zenon DEF Negative
  <1>10. Interpret(t, 16) = Value(Chars(t), 16)
    BY <1>7, <1>9, Zenon DEF Interpret, Digits, NoText
  <1> DEFINE ds == Chars(t)
  <1>11. Len(ds) = 2 /\ DOMAIN ds = 1 .. 2
    BY <1>3, <1>6, CharsLength, Zenon
  <1>12. ds[1] = HexDigits[i] /\ ds[2] = HexDigits[j]
    <2>1. \A k \in 1 .. 2 : ds[k] = SubSeq(t, k, k)
      <3> DEFINE R(k) == SubSeq(t, k, k)
      <3>1. ds = [k \in 1 .. 2 |-> R(k)]
        BY <1>6, Zenon DEF Chars
      <3> HIDE DEF R, ds
      <3>2. \A k \in 1 .. 2 : ds[k] = R(k)
        BY <3>1
      <3> QED
        BY <3>2, Zenon DEF R
    <2> HIDE DEF ds
    <2> QED
      BY <1>3, <1>6, <2>1, Zenon
  <1> HIDE DEF ds
  <1>13. Value(ds, 16) = Return((i - 1) * 16 + (j - 1))
    BY <1>11, <1>12, TwoDigits, Zenon
  <1> QED
    BY <1>8, <1>10, <1>13, Zenon DEF ds

LEMMA ByteRead ==
  ASSUME StringsAreSequences, NEW b \in 0 .. 255, NEW u,
         IsPrefixed(u, HexDigits[(b \div 16) + 1], HexDigits[(b % 16) + 1])
  PROVE  numeric_interpret(u) = Return(b)
  <1> DEFINE i == (b \div 16) + 1
             j == (b % 16) + 1
  <1>1. i \in 1 .. 16 /\ j \in 1 .. 16 /\ (i - 1) * 16 + (j - 1) = b
    BY ByteDigits
  <1> HIDE DEF i, j
  <1>2. IsPrefixed(u, HexDigits[i], HexDigits[j])
    BY Zenon DEF i, j
  <1> QED
    BY <1>1, <1>2, HexRead, Zenon

LEMMA PairRead ==
  ASSUME StringsAreSequences, NEW b \in 0 .. 255
  PROVE  numeric_interpret(HexPrefix \o Pair(b)) = Return(b)
  <1> DEFINE p == Pair(b)
             u == HexPrefix \o p
  <1>1. HexPrefix \in STRING /\ Len(HexPrefix) = 2
    BY LiteralsAssumption, Zenon DEF HexPrefix
  <1>2. /\ p \in STRING /\ Len(p) = 2
        /\ SubSeq(p, 1, 1) = HexDigits[(b \div 16) + 1]
        /\ SubSeq(p, 2, 2) = HexDigits[(b % 16) + 1]
    BY PairIs, Zenon
  <1> HIDE DEF p
  <1>3. IsJoint(u, HexPrefix, p)
    BY <1>1, <1>2, Joint, Zenon
  <1> HIDE DEF u
  <1>4. /\ 1 \in Nat \ {0} /\ 2 \in Nat \ {0} /\ 1 \in Int /\ 2 \in Int /\ 1 <= 2 /\ 2 <= 2 /\ 1 <= 2 + 1
        /\ 1 <= 1 + 1 /\ 2 <= 2 + 1 /\ 2 + 2 = 4 /\ 2 + 1 = 3
    OBVIOUS
  <1>5. /\ u \in STRING /\ Len(u) = 2 + 2
        /\ \A i \in Nat \ {0} : \A j \in Int : i <= j + 1 =>
             /\ j <= 2 => SubSeq(u, i, j) = SubSeq(HexPrefix, i, j)
             /\ j <= 2 => SubSeq(u, 2 + i, 2 + j) = SubSeq(p, i, j)
    BY <1>1, <1>2, <1>3, Zenon DEF IsJoint
  <1>6. SubSeq(HexPrefix, 1, 2) = HexPrefix
    BY <1>1, <1>4, TextParts, Zenon
  <1>7. SubSeq(u, 1, 2) = HexPrefix
    BY <1>4, <1>5, <1>6, Zenon
  <1>8. SubSeq(u, 3, 3) = SubSeq(p, 1, 1)
    BY <1>4, <1>5, Zenon
  <1>9. SubSeq(u, 4, 4) = SubSeq(p, 2, 2)
    BY <1>4, <1>5, Zenon
  <1>10. u \in STRING /\ Len(u) = 4
    BY <1>4, <1>5, Zenon
  <1>11. IsPrefixed(u, HexDigits[(b \div 16) + 1], HexDigits[(b % 16) + 1])
    BY <1>2, <1>7, <1>8, <1>9, <1>10, Zenon DEF IsPrefixed
  <1> QED
    BY <1>11, ByteRead, Zenon DEF u, p

-----------------------------------------------------------------------------
(* Lists of blocks of one length *)

(* The k-th element of the a-th block of width w is in its place.          *)
LEMMA BlockPlaces ==
  ASSUME NEW w \in Nat, NEW n \in Nat, NEW a \in 1 .. n, NEW k \in 1 .. w
  PROVE  (a - 1) * w + k \in 1 .. n * w
  <1> DEFINE x == (a - 1) * w
  <1>1. x \in Nat
    OBVIOUS
  <1>2. x + w = a * w
    OBVIOUS
  <1>3. a * w <= n * w
    <2>1. n - a \in Nat
      OBVIOUS
    <2>2. (n - a) * w \in Nat
      BY <2>1
    <2>3. (n - a) * w = n * w - a * w
      OBVIOUS
    <2> QED
      BY <2>2, <2>3
  <1>4. n * w \in Nat /\ a * w \in Nat
    OBVIOUS
  <1> HIDE DEF x
  <1> DEFINE y == a * w
             z == n * w
  <1>5. x + w = y /\ y <= z /\ z \in Nat /\ y \in Nat
    BY <1>2, <1>3, <1>4
  <1> HIDE DEF y, z
  <1>6. x + k \in 1 .. z
    BY <1>1, <1>5
  <1> QED
    BY <1>6 DEF x, z

LEMMA Placed ==
  ASSUME NEW w \in Nat \ {0}, NEW n \in Nat, NEW i \in 1 .. n * w
  PROVE  \E a \in 1 .. n : \E k \in 1 .. w : i = (a - 1) * w + k
  <1> DEFINE q == (i - 1) \div w
             r == (i - 1) % w
  <1>1. n * w \in Nat
    OBVIOUS
  <1>2. i - 1 \in Nat /\ i - 1 < n * w
    BY <1>1
  <1>3. q \in Nat /\ r \in 0 .. w - 1 /\ i - 1 = q * w + r
    BY <1>2, Divides
  <1> HIDE DEF q, r
  <1>4. q * w < n * w
    <2> DEFINE x == q * w
               y == n * w
    <2>1. x \in Nat /\ y \in Nat /\ i - 1 = x + r /\ i - 1 < y
      BY <1>1, <1>2, <1>3
    <2> HIDE DEF x, y
    <2>2. x < y
      BY <1>3, <2>1
    <2> QED
      BY <2>2 DEF x, y
  <1>5. q < n
    BY <1>3, <1>4, Below
  <1>6. q + 1 \in 1 .. n /\ r + 1 \in 1 .. w /\ (q + 1) - 1 = q
    BY <1>3, <1>5
  <1>7. i = q * w + (r + 1)
    <2> DEFINE x == q * w
    <2>1. x \in Nat /\ i - 1 = x + r
      BY <1>3
    <2> HIDE DEF x
    <2>2. i = x + (r + 1)
      BY <1>3, <2>1
    <2> QED
      BY <2>2 DEF x
  <1> QED
    BY <1>6, <1>7, Zenon

InBlocks(s, lists, n, w) ==
  Len(s) = n * w /\ \A a \in 1 .. n : \A k \in 1 .. w : s[(a - 1) * w + k] = lists[a][k]

LEMMA SameBlocks ==
  ASSUME NEW C, NEW s \in Seq(C), NEW t \in Seq(C), NEW lists, NEW n \in Nat, NEW w \in Nat \ {0},
         InBlocks(s, lists, n, w), InBlocks(t, lists, n, w)
  PROVE  s = t
  <1>1. Len(s) = Len(t) /\ Len(s) = n * w
    BY Zenon DEF InBlocks
  <1>2. ASSUME NEW i \in 1 .. n * w PROVE s[i] = t[i]
    <2>1. PICK a \in 1 .. n, k \in 1 .. w : i = (a - 1) * w + k
      BY Placed, Zenon
    <2> QED
      BY <2>1, Zenon DEF InBlocks
  <1> QED
    BY <1>1, <1>2, SameElements, Zenon

LEMMA BlockAdded ==
  ASSUME NEW C, NEW s \in Seq(C), NEW t \in Seq(C), NEW lists, NEW n \in Nat, NEW w \in Nat,
         InBlocks(s, lists, n, w), Len(t) = w, \A k \in 1 .. w : t[k] = lists[n + 1][k]
  PROVE  InBlocks(s \o t, lists, n + 1, w)
  <1> DEFINE x == n * w
             u == s \o t
  <1>1. x \in Nat /\ (n + 1) * w = x + w /\ (n + 1) - 1 = n
    OBVIOUS
  <1>2. Len(s) = x
    BY Zenon DEF InBlocks
  <1>3. Len(u) = x + w
    BY <1>2
  <1>4. \A i \in 1 .. x : u[i] = s[i]
    BY <1>2, <1>1
  <1>5. \A k \in 1 .. w : u[x + k] = t[k]
    BY <1>2, <1>1
  <1> HIDE DEF u
  <1>6. ASSUME NEW a \in 1 .. n + 1, NEW k \in 1 .. w PROVE u[(a - 1) * w + k] = lists[a][k]
    <2>1. CASE a = n + 1
      <3>1. (a - 1) * w + k = x + k
        BY <1>1, <2>1, Zenon DEF x
      <3> QED
        BY <1>5, <2>1, <3>1, Zenon
    <2>2. CASE a # n + 1
      <3>1. a \in 1 .. n
        BY <2>2
      <3>2. (a - 1) * w + k \in 1 .. x
        BY <3>1, BlockPlaces, Zenon DEF x
      <3> QED
        BY <1>4, <3>1, <3>2, Zenon DEF InBlocks
    <2> QED
      BY <2>1, <2>2, Zenon
  <1> HIDE DEF x
  <1> QED
    BY <1>1, <1>3, <1>6, Zenon DEF InBlocks, u

(* One behind the other, the blocks keep their elements.                   *)
LEMMA ConcatBlocks ==
  ASSUME NEW C, NEW lists \in Seq(Seq(C)), NEW w \in Nat,
         \A a \in 1 .. Len(lists) : Len(lists[a]) = w
  PROVE  Concat(lists) \in Seq(C) /\ InBlocks(Concat(lists), lists, Len(lists), w)
  <1> DEFINE n == Len(lists)
             f == Concats(lists)
             S == {i \in Nat : i <= n => InBlocks(f[i], lists, i, w)}
  <1>1. /\ Concat(lists) = f[n] /\ f[0] = <<>>
        /\ \A i \in 1 .. n : f[i] = f[i - 1] \o lists[i]
        /\ \A i \in 0 .. n : f[i] \in Seq(C)
    BY ConcatSteps, Zenon
  <1>2. n \in Nat /\ \A a \in 1 .. n : lists[a] \in Seq(C)
    BY LenProperties, ElementOfSeq
  <1> HIDE DEF f, n
  <1>3. 0 \in S
    <2>1. Len(<<>>) = 0 * w /\ 0 \in Nat
      OBVIOUS
    <2>2. InBlocks(<<>>, lists, 0, w)
      BY <2>1 DEF InBlocks
    <2> QED
      BY <1>1, <2>1, <2>2, Zenon
  <1>4. ASSUME NEW i \in Nat, i \in S PROVE i + 1 \in S
    <2>0. i + 1 \in Nat
      OBVIOUS
    <2> SUFFICES ASSUME i + 1 <= n PROVE InBlocks(f[i + 1], lists, i + 1, w)
      BY <2>0, Zenon
    <2>1. i <= n /\ i \in 0 .. n /\ i + 1 \in 1 .. n /\ (i + 1) - 1 = i
      BY <1>2
    <2>2. InBlocks(f[i], lists, i, w) /\ f[i] \in Seq(C)
      BY <1>1, <1>4, <2>1, Zenon
    <2>3. lists[i + 1] \in Seq(C) /\ Len(lists[i + 1]) = w
      BY <1>2, <2>1, Zenon DEF n
    <2>4. f[i + 1] = f[i] \o lists[i + 1]
      BY <1>1, <2>1, Zenon
    <2>5. InBlocks(f[i] \o lists[i + 1], lists, i + 1, w)
      BY <2>2, <2>3, BlockAdded, Zenon
    <2> QED
      BY <2>4, <2>5, Zenon
  <1> HIDE DEF S
  <1>5. n \in S
    BY <1>2, <1>3, <1>4, Inductive, Zenon
  <1>6. n <= n /\ n \in 0 .. n
    BY <1>2
  <1>7. InBlocks(f[n], lists, n, w)
    BY <1>5, <1>6, Zenon DEF S
  <1> QED
    BY <1>1, <1>6, <1>7, Zenon DEF n

(* The same of texts.                                                      *)
CutsInto(t, cs, n, w) ==
  /\ t \in STRING /\ Len(t) = n * w
  /\ \A a \in 1 .. n : \A i \in Nat \ {0} : \A j \in Int : i <= j + 1 /\ j <= w =>
       SubSeq(t, (a - 1) * w + i, (a - 1) * w + j) = SubSeq(cs[a], i, j)

LEMMA TextAdded ==
  ASSUME StringsAreSequences, NEW s, NEW t \in STRING, NEW cs, NEW n \in Nat, NEW w \in Nat,
         CutsInto(s, cs, n, w), Len(t) = w, t = cs[n + 1]
  PROVE  CutsInto(s \o t, cs, n + 1, w)
  <1> DEFINE x == n * w
             u == s \o t
  <1>1. x \in Nat /\ (n + 1) * w = x + w /\ (n + 1) - 1 = n
    OBVIOUS
  <1>2. s \in STRING /\ Len(s) = x
    BY Zenon DEF CutsInto
  <1>3. IsJoint(u, s, t)
    BY <1>2, Joint, Zenon
  <1> HIDE DEF u
  <1>4. /\ u \in STRING /\ Len(u) = x + w
        /\ \A i \in Nat \ {0} : \A j \in Int : i <= j + 1 =>
             /\ j <= x => SubSeq(u, i, j) = SubSeq(s, i, j)
             /\ j <= w => SubSeq(u, x + i, x + j) = SubSeq(t, i, j)
    BY <1>2, <1>3, Zenon DEF IsJoint
  <1>5. ASSUME NEW a \in 1 .. n + 1, NEW i \in Nat \ {0}, NEW j \in Int, i <= j + 1, j <= w
        PROVE  SubSeq(u, (a - 1) * w + i, (a - 1) * w + j) = SubSeq(cs[a], i, j)
    <2>1. CASE a = n + 1
      <3>1. (a - 1) * w = x
        BY <1>1, <2>1, Zenon DEF x
      <3> QED
        BY <1>4, <1>5, <2>1, <3>1, Zenon
    <2>2. CASE a # n + 1
      <3> DEFINE y == (a - 1) * w
      <3>1. a \in 1 .. n
        BY <2>2
      <3>2. y \in Nat /\ y + w <= x
        <4>1. y \in Nat /\ y + w = a * w /\ a * w <= n * w
          <5>1. n - a \in Nat
            BY <3>1
          <5>2. (n - a) * w \in Nat /\ (n - a) * w = n * w - a * w
            BY <5>1
          <5> QED
            BY <5>2
        <4> QED
          BY <4>1, Zenon DEF x
      <3>3. SubSeq(s, y + i, y + j) = SubSeq(cs[a], i, j)
        BY <1>5, <3>1, Zenon DEF CutsInto
      <3> HIDE DEF x, y
      <3>4. y + i \in Nat \ {0} /\ y + j \in Int /\ y + i <= y + j + 1 /\ y + j <= x
        BY <1>1, <1>5, <3>2
      <3>5. SubSeq(u, y + i, y + j) = SubSeq(s, y + i, y + j)
        BY <1>4, <3>4, Zenon
      <3> QED
        BY <3>3, <3>5, Zenon DEF y
    <2> QED
      BY <2>1, <2>2, Zenon
  <1>6. Len(u) = (n + 1) * w
    BY <1>1, <1>4, Zenon
  <1>7. CutsInto(u, cs, n + 1, w)
    BY <1>4, <1>5, <1>6, Zenon DEF CutsInto
  <1> QED
    BY <1>7, Zenon DEF u

LEMMA JoinBlocks ==
  ASSUME StringsAreSequences, NEW cs \in Seq(STRING), NEW w \in Nat,
         \A a \in 1 .. Len(cs) : Len(cs[a]) = w
  PROVE  CutsInto(Join(cs), cs, Len(cs), w)
  <1> DEFINE n == Len(cs)
             f == Joins(cs)
             S == {i \in Nat : i <= n => CutsInto(f[i], cs, i, w)}
  <1>1. /\ Join(cs) = f[n] /\ f[0] = NoText
        /\ \A i \in 1 .. n : f[i] = f[i - 1] \o cs[i]
    BY JoinSteps, Zenon
  <1>2. n \in Nat /\ \A a \in 1 .. n : cs[a] \in STRING
    BY LenProperties, ElementOfSeq
  <1> HIDE DEF f, n
  <1>3. 0 \in S
    <2>1. NoText \in STRING /\ Len(NoText) = 0
      BY LiteralsAssumption, Zenon DEF NoText
    <2>2. 0 = 0 * w /\ 0 \in Nat /\ 1 .. 0 = {}
      OBVIOUS
    <2>3. CutsInto(NoText, cs, 0, w)
      BY <2>1, <2>2, Zenon DEF CutsInto
    <2> QED
      BY <1>1, <2>2, <2>3, Zenon
  <1>4. ASSUME NEW i \in Nat, i \in S PROVE i + 1 \in S
    <2>0. i + 1 \in Nat
      OBVIOUS
    <2> SUFFICES ASSUME i + 1 <= n PROVE CutsInto(f[i + 1], cs, i + 1, w)
      BY <2>0, Zenon
    <2>1. i <= n /\ i + 1 \in 1 .. n /\ (i + 1) - 1 = i
      BY <1>2
    <2>2. CutsInto(f[i], cs, i, w)
      BY <1>4, <2>1, Zenon
    <2>3. cs[i + 1] \in STRING /\ Len(cs[i + 1]) = w
      BY <1>2, <2>1, Zenon DEF n
    <2>4. f[i + 1] = f[i] \o cs[i + 1]
      BY <1>1, <2>1, Zenon
    <2>5. CutsInto(f[i] \o cs[i + 1], cs, i + 1, w)
      BY <2>2, <2>3, TextAdded, Zenon
    <2> QED
      BY <2>4, <2>5, Zenon
  <1> HIDE DEF S
  <1>5. n \in S
    BY <1>2, <1>3, <1>4, Inductive, Zenon
  <1>6. n <= n
    BY <1>2
  <1>7. CutsInto(f[n], cs, n, w)
    BY <1>5, <1>6, Zenon DEF S
  <1> QED
    BY <1>1, <1>7, Zenon DEF n

(* Pairs of digits put together are the text of their bytes.               *)
LEMMA PairsHold ==
  ASSUME StringsAreSequences, NEW n \in Nat, NEW vals \in [1 .. n -> 0 .. 255],
         NEW cs, cs = [i \in 1 .. n |-> Pair(vals[n - i + 1])]
  PROVE  HexHolds(Join(cs), vals, n)
  <1>1. ASSUME NEW i \in 1 .. n PROVE n - i + 1 \in 1 .. n /\ n - (n - i + 1) + 1 = i
    OBVIOUS
  <1>2. ASSUME NEW i \in 1 .. n PROVE vals[n - i + 1] \in 0 .. 255
    BY <1>1
  <1>3. ASSUME NEW i \in 1 .. n
        PROVE  Pair(vals[n - i + 1]) \in STRING /\ Len(Pair(vals[n - i + 1])) = 2
               /\ SubSeq(Pair(vals[n - i + 1]), 1, 2) = Pair(vals[n - i + 1])
    BY <1>2, PairIs, Zenon
  <1> DEFINE p(i) == Pair(vals[n - i + 1])
  <1>4. \A i \in 1 .. n : p(i) \in STRING /\ Len(p(i)) = 2 /\ SubSeq(p(i), 1, 2) = p(i)
    BY <1>3, Zenon
  <1>5. cs = [i \in 1 .. n |-> p(i)]
    OBVIOUS
  <1> HIDE DEF p
  <1>6. cs \in [1 .. n -> STRING] /\ \A i \in 1 .. n : cs[i] = p(i)
    BY <1>4, <1>5
  <1>7. cs \in Seq(STRING) /\ Len(cs) = n
    BY <1>6, SeqDef, LenProperties
  <1> DEFINE t == Join(cs)
  <1>8. CutsInto(t, cs, n, 2)
    <2>1. 2 \in Nat /\ \A i \in 1 .. Len(cs) : Len(cs[i]) = 2
      BY <1>4, <1>6, <1>7
    <2> QED
      BY <1>7, <2>1, JoinBlocks, Zenon
  <1> HIDE DEF t
  <1>9. ASSUME NEW k \in 1 .. n
        PROVE  SubSeq(t, 2 * n - 2 * k + 1, 2 * n - 2 * k + 2) = Pair(vals[k])
    <2> DEFINE a == n - k + 1
    <2>1. /\ a \in 1 .. n /\ 2 * n - 2 * k + 1 = (a - 1) * 2 + 1 /\ 2 * n - 2 * k + 2 = (a - 1) * 2 + 2
          /\ 1 \in Nat \ {0} /\ 2 \in Int /\ 1 <= 2 + 1 /\ 2 <= 2
      OBVIOUS
    <2>2. p(a) = Pair(vals[k])
      BY <1>1, Zenon DEF p
    <2> HIDE DEF a
    <2>3. SubSeq(t, (a - 1) * 2 + 1, (a - 1) * 2 + 2) = SubSeq(cs[a], 1, 2)
      BY <1>8, <2>1, Zenon DEF CutsInto
    <2> QED
      BY <1>4, <1>6, <2>1, <2>2, <2>3, Zenon
  <1>10. n * 2 = 2 * n
    OBVIOUS
  <1>11. t \in STRING /\ Len(t) = 2 * n
    BY <1>8, <1>10, Zenon DEF CutsInto
  <1> QED
    BY <1>9, <1>11, Zenon DEF HexHolds, t
=============================================================================
