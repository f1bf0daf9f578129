-------------------------- MODULE Assembler_proofs --------------------------
(***************************************************************************)
(* Proofs about the assembler, for every source, option and program size.  *)
(***************************************************************************)
EXTENDS AsmProps, Text_proofs

-----------------------------------------------------------------------------
(* Sequences whose elements have no type of their own *)

LEMMA SeqListed ==
  ASSUME NEW S, NEW s \in Seq(S)
  PROVE  Listed(s)
  BY LenProperties DEF Listed

LEMMA ListedSeq ==
  ASSUME NEW s, Listed(s), NEW S, \A i \in 1 .. Len(s) : s[i] \in S
  PROVE  s \in Seq(S)
  BY DEF Listed

LEMMA AppendLength ==
  ASSUME NEW s, Listed(s), NEW e
  PROVE  Listed(Append(s, e)) /\ Len(Append(s, e)) = Len(s) + 1
  <1> DEFINE S == {s[i] : i \in 1 .. Len(s)} \cup {e}
  <1>1. s \in Seq(S) /\ e \in S
    BY ListedSeq
  <1> HIDE DEF S
  <1> QED
    BY <1>1, AppendProperties, SeqListed

LEMMA FourMore ==
  ASSUME NEW s, Listed(s), NEW w
  PROVE  Listed(s \o LittleEndian(w)) /\ Len(s \o LittleEndian(w)) = Len(s) + 4
  <1> DEFINE l == LittleEndian(w)
             S == {s[i] : i \in 1 .. Len(s)} \cup {l[i] : i \in 1 .. 4}
  <1>1. s \in Seq(S)
    BY ListedSeq
  <1>2. l \in [1 .. 4 -> S]
    BY DEF LittleEndian
  <1> HIDE DEF l, S
  <1>3. l \in Seq(S) /\ Len(l) = 4
    <2>1. l \in Seq(S)
      BY <1>2, SeqDef
    <2>2. DOMAIN l = 1 .. 4 /\ DOMAIN l = 1 .. Len(l) /\ Len(l) \in Nat
      BY <1>2, <2>1, LenProperties
    <2> QED
      BY <2>1, <2>2
  <1>4. s \o l \in Seq(S) /\ Len(s \o l) = Len(s) + Len(l)
    BY <1>1, <1>3, ConcatProperties, Zenon
  <1> QED
    BY <1>3, <1>4, SeqListed DEF l

-----------------------------------------------------------------------------
(* The steps *)

LEMMA Initially ==
  ASSUME Init
  PROVE  CountsInv /\ TablesInv
  <1>1. /\ lines = <<>> /\ inst_lengths = <<>> /\ prog = <<>> /\ equiv_pc = 0 /\ asm_pc = 0
        /\ line_number = 0 /\ line_number_to_PC = <<>> /\ PC_to_line_number = <<>>
    BY DEF Init
  <1>2. Listed(<<>>)
    BY DEF Listed
  <1>3. CountsInv
    BY <1>1, <1>2 DEF CountsInv, itr
  <1>4. TablesInv
    <2>1. {4 * k : k \in 0 .. Len(lines) - 1} = {}
      BY <1>1
    <2> QED
      BY <1>1, <2>1 DEF TablesInv
  <1> QED
    BY <1>3, <1>4

(* A kept line gets the next address, in both tables.                      *)
LEMMA KeepLineStep ==
  ASSUME CountsInv, TablesInv, NEW text, KeepLine(text), pc # "terminated",
         line_number' = line_number + 1, UNCHANGED pass2Vars
  PROVE  CountsInv' /\ TablesInv'
  <1>1. Listed(lines') /\ Len(lines') = Len(lines) + 1 /\ Len(lines) \in Nat
    BY AppendLength DEF KeepLine, CountsInv, Listed
  <1>2. CountsInv'
    BY <1>1, LenProperties DEF CountsInv, KeepLine, pass2Vars, itr
  <1>3. /\ line_number_to_PC' = Put(line_number_to_PC, line_number', equiv_pc)
        /\ PC_to_line_number' = Put(PC_to_line_number, equiv_pc, line_number')
    BY DEF KeepLine
  <1>4. equiv_pc = 4 * Len(lines) /\ line_number' \notin DOMAIN line_number_to_PC
        /\ line_number' \in Nat /\ line_number \in Nat
    BY DEF CountsInv, TablesInv
  <1>5. equiv_pc \notin DOMAIN PC_to_line_number
    BY <1>1, <1>4 DEF TablesInv
  <1>6. /\ DOMAIN line_number_to_PC' = DOMAIN line_number_to_PC \cup {line_number'}
        /\ line_number_to_PC'[line_number'] = equiv_pc
        /\ \A n \in DOMAIN line_number_to_PC : line_number_to_PC'[n] = line_number_to_PC[n]
    BY <1>3, <1>4 DEF Put
  <1>7. /\ DOMAIN PC_to_line_number' = DOMAIN PC_to_line_number \cup {equiv_pc}
        /\ PC_to_line_number'[equiv_pc] = line_number'
        /\ \A a \in DOMAIN PC_to_line_number : PC_to_line_number'[a] = PC_to_line_number[a]
    BY <1>3, <1>5 DEF Put
  <1>8. DOMAIN PC_to_line_number' = {4 * k : k \in 0 .. Len(lines') - 1}
    <2> PICK n \in Nat : n = Len(lines)
      BY <1>1
    <2>1. {4 * k : k \in 0 .. n} = {4 * k : k \in 0 .. n - 1} \cup {4 * n}
      <3>1. 0 .. n = (0 .. n - 1) \cup {n}
        OBVIOUS
      <3> QED
        BY <3>1, Zenon
    <2>2. (n + 1) - 1 = n
      OBVIOUS
    <2> QED
      BY <1>1, <1>4, <1>7, <2>1, <2>2 DEF TablesInv
  <1>9. DOMAIN line_number_to_PC' \subseteq 1 .. line_number'
    BY <1>4, <1>6 DEF TablesInv
  <1>10. ASSUME NEW a \in DOMAIN PC_to_line_number'
         PROVE  /\ PC_to_line_number'[a] \in DOMAIN line_number_to_PC'
                /\ line_number_to_PC'[PC_to_line_number'[a]] = a
    <2>1. CASE a = equiv_pc
      BY <2>1, <1>6, <1>7
    <2>2. CASE a \in DOMAIN PC_to_line_number
      BY <2>2, <1>6, <1>7 DEF TablesInv
    <2> QED
      BY <1>7, <1>10, <2>1, <2>2
  <1>11. TablesInv'
    BY <1>4, <1>8, <1>9, <1>10 DEF TablesInv
  <1> QED
    BY <1>2, <1>11

(* A line that is skipped or ends the run is only counted.                 *)
LEMMA OtherLineStep ==
  ASSUME CountsInv, TablesInv, NextLine, pc' # "terminated",
         UNCHANGED <<equiv_pc, lines, line_number_to_PC, PC_to_line_number>>
  PROVE  CountsInv' /\ TablesInv'
  <1>1. pc # "terminated" /\ line_number' = line_number + 1 /\ UNCHANGED pass2Vars
    BY DEF NextLine
  <1>2. CountsInv'
    BY <1>1 DEF CountsInv, pass2Vars, itr
  <1>3. TablesInv'
    BY <1>1 DEF TablesInv
  <1> QED
    BY <1>2, <1>3

LEMMA AsmFlashStep ==
  ASSUME CountsInv, TablesInv, AsmFlash
  PROVE  CountsInv' /\ TablesInv'
  <1>1. /\ pc = "pass 2" /\ itr < Len(lines)
        /\ UNCHANGED <<line_number, equiv_pc, lines, line_number_to_PC, PC_to_line_number>>
    BY DEF AsmFlash, pass1Vars
  <1>2. TablesInv'
    BY <1>1 DEF TablesInv
  <1>3. ASSUME UNCHANGED <<asm_pc, prog, inst_lengths>> PROVE CountsInv'
    <2>1. pc' # "terminated" => Listed(prog') /\ Len(prog') = asm_pc'
      BY <1>1, <1>3 DEF CountsInv
    <2> QED
      BY <1>1, <1>3, <2>1 DEF CountsInv, itr
  <1>4. ASSUME Terminate, UNCHANGED <<asm_pc, inst_lengths>> PROVE CountsInv'
    BY <1>1, <1>4 DEF CountsInv, Terminate, itr
  <1>5. ASSUME NEW w, prog' = prog \o LittleEndian(w), asm_pc' = asm_pc + 4,
               inst_lengths' = Append(inst_lengths, 4)
        PROVE  CountsInv'
    <2>1. Listed(prog') /\ Len(prog') = Len(prog) + 4
      BY <1>1, <1>5, FourMore DEF CountsInv
    <2>2. inst_lengths' \in Seq({4}) /\ Len(inst_lengths') = Len(inst_lengths) + 1
          /\ Len(inst_lengths) \in Nat
      BY <1>5, AppendProperties, LenProperties DEF CountsInv
    <2>3. Len(lines) \in Nat /\ Listed(lines') /\ lines' = lines
      BY <1>1 DEF CountsInv, Listed
    <2>4. asm_pc = 4 * Len(inst_lengths) /\ Len(inst_lengths) < Len(lines) /\ Len(prog) = asm_pc
      BY <1>1 DEF CountsInv, itr
    <2>6. asm_pc' = 4 * Len(inst_lengths') /\ Len(inst_lengths') <= Len(lines')
      BY <1>5, <2>2, <2>3, <2>4
    <2>7. Len(prog') = asm_pc'
      BY <1>5, <2>1, <2>2, <2>4
    <2>5. equiv_pc' = 4 * Len(lines')
      BY <1>1, <2>3 DEF CountsInv
    <2> QED
      BY <2>1, <2>2, <2>3, <2>5, <2>6, <2>7 DEF CountsInv, itr
  <1>6. CountsInv'
    <2>1. PICK args, w : \/ UNCHANGED pass2Vars
                         \/ Terminate /\ UNCHANGED <<asm_pc, inst_lengths>>
                         \/ /\ prog' = prog \o LittleEndian(w) /\ asm_pc' = asm_pc + 4
                            /\ inst_lengths' = Append(inst_lengths, 4)
      BY DEF AsmFlash
    <2> QED
      BY <2>1, <1>3, <1>4, <1>5 DEF pass2Vars
  <1> QED
    BY <1>2, <1>6

LEMMA CountsStep ==
  ASSUME CountsInv, TablesInv, [Next]_vars
  PROVE  CountsInv' /\ TablesInv'
  <1>1. CASE TakeLine
    <2>1. PICK text : KeepLine(text)
      BY <1>1 DEF TakeLine
    <2>2. pc # "terminated" /\ line_number' = line_number + 1 /\ UNCHANGED pass2Vars
      BY <1>1 DEF TakeLine, NextLine
    <2> QED
      BY <2>1, <2>2, KeepLineStep
  <1>2. CASE SymbolsError \/ SkipLine
    <2>1. NextLine /\ pc' # "terminated"
          /\ UNCHANGED <<equiv_pc, lines, line_number_to_PC, PC_to_line_number>>
      BY <1>2 DEF SymbolsError, SkipLine, NextLine, Stop
    <2> QED
      BY <2>1, OtherLineStep
  <1>3. CASE AsmFlash
    BY <1>3, AsmFlashStep
  <1>4. CASE Start \/ EndPass1 \/ EndPass2 \/ OpenOutput \/ WriteInst \/ FinishOutput \/ UNCHANGED vars
    <2>1. UNCHANGED <<line_number, equiv_pc, lines, line_number_to_PC, PC_to_line_number, pass2Vars>>
      BY <1>4 DEF Start, EndPass1, EndPass2, OpenOutput, WriteInst, FinishOutput, vars, pass1Vars
    <2>2. pc = "terminated" => pc' = "terminated"
      BY <1>4 DEF Start, EndPass1, EndPass2, OpenOutput, WriteInst, FinishOutput, Stop, vars
    <2>3. CountsInv'
      <3>1. UNCHANGED <<asm_pc, prog, inst_lengths>>
        BY <2>1 DEF pass2Vars
      <3>2. pc' # "terminated" => Listed(prog') /\ Len(prog') = asm_pc'
        <4> SUFFICES ASSUME pc' # "terminated"
                     PROVE  Listed(prog') /\ Len(prog') = asm_pc'
          OBVIOUS
        <4>1. pc # "terminated"
          BY <2>2
        <4>2. pc # "terminated" => Listed(prog) /\ Len(prog) = asm_pc
          BY Zenon DEF CountsInv
        <4> QED
          BY <3>1, <4>1, <4>2 DEF Listed
      <3> QED
        BY <2>1, <3>1, <3>2 DEF CountsInv, itr
    <2>4. TablesInv'
      BY <2>1 DEF TablesInv
    <2> QED
      BY <2>3, <2>4
  <1> QED
    BY <1>1, <1>2, <1>3, <1>4 DEF Next

-----------------------------------------------------------------------------
(* What follows *)

(* The two passes count the same addresses, whatever the source.           *)
THEOREM PassesAgreeHolds == Spec => []PassesAgree
  <1>1. Init => CountsInv /\ TablesInv
    BY Initially
  <1>2. CountsInv /\ TablesInv /\ [Next]_vars => (CountsInv /\ TablesInv)'
    BY CountsStep
  <1>3. ASSUME CountsInv, TablesInv PROVE PassesAgree
    <2>1. itr \in Nat /\ Len(lines) \in Nat
      BY <1>3, LenProperties DEF CountsInv, itr, Listed
    <2>2. itr < Len(lines) => asm_pc \in DOMAIN PC_to_line_number
      BY <1>3, <2>1 DEF CountsInv, TablesInv
    <2> QED
      BY <1>3, <2>1, <2>2 DEF CountsInv, TablesInv, PassesAgree
  <1> QED
    BY <1>1, <1>2, <1>3, PTL DEF Spec

-----------------------------------------------------------------------------
(* Binary numbers *)

LEMMA TwoPowers ==
  ASSUME NEW n \in Nat
  PROVE  2^n \in Nat \ {0} /\ 2^(n + 1) = 2 * 2^n
  <1>1. n \in 0 .. n
    OBVIOUS
  <1> QED
    BY <1>1, PowerSplits, Doubling

(* What one bit adds to the number.                                        *)
BinaryDigit(w, lo, i) == IF lo + i \in w THEN 2^i ELSE 0

(* The recursion inside Bits has its function.                             *)
LEMMA BitsSteps ==
  ASSUME NEW w, NEW lo \in Nat, NEW m \in Nat
  PROVE  /\ Bits(w, 0, lo) = 0 /\ Bits(w, m, lo) \in Nat
         /\ Bits(w, m + 1, lo) = Bits(w, m, lo) + BinaryDigit(w, lo, m)
  <1> DEFINE more(v, i) == IF i = 0 THEN v ELSE v + (IF lo + i - 1 \in w THEN 2^(i - 1) ELSE 0)
             G == [p \in Nat \X Nat |-> more(p[1], p[2])]
  <1>1. ASSUME NEW v \in Nat, NEW i \in Nat PROVE more(v, i) \in Nat
    <2>1. CASE i # 0
      <3>1. i - 1 \in Nat
        BY <2>1
      <3>2. 2^(i - 1) \in Nat
        BY <3>1, TwoPowers
      <3> QED
        BY <3>2
    <2> QED
      BY <2>1
  <1>2. G \in [Nat \X Nat -> Nat]
    <2>1. \A p \in Nat \X Nat : more(p[1], p[2]) \in Nat
      BY <1>1
    <2> HIDE DEF more
    <2> QED
      BY <2>1
  <1>3. \A v \in Nat, i \in Nat : G[<<v, i>>] = more(v, i)
    OBVIOUS
  <1> HIDE DEF G
  <1>4. PICK h \in [Nat -> Nat] : h[0] = 0 /\ \A i \in Nat : h[i + 1] = G[<<h[i], i + 1>>]
    <2>1. 0 \in Nat
      OBVIOUS
    <2>2. \E h : Recurs(h, Nat, 0, G)
      BY <1>2, <2>1, Recursion
    <2> QED
      BY <2>2 DEF Recurs
  <1>5. ASSUME NEW i \in Nat PROVE h[i + 1] = h[i] + (IF lo + i \in w THEN 2^i ELSE 0)
    <2>1. i + 1 \in Nat /\ i + 1 # 0 /\ (i + 1) - 1 = i /\ lo + (i + 1) - 1 = lo + i /\ h[i] \in Nat
      OBVIOUS
    <2>2. h[i + 1] = more(h[i], i + 1)
      BY <1>3, <1>4, <2>1
    <2> QED
      BY <2>1, <2>2
  <1>6. ASSUME NEW n \in Nat PROVE Bits(w, n, lo) = h[n]
    <2> DEFINE E(f) == f = [i \in 0 .. n |->
                             IF i = 0 THEN 0
                             ELSE f[i - 1] + (IF lo + i - 1 \in w THEN 2^(i - 1) ELSE 0)]
               r == [i \in 0 .. n |-> h[i]]
               f == CHOOSE f : E(f)
    <2>1. E(r)
      <3>1. ASSUME NEW i \in 0 .. n
            PROVE  r[i] = IF i = 0 THEN 0
                          ELSE r[i - 1] + (IF lo + i - 1 \in w THEN 2^(i - 1) ELSE 0)
        <4>1. CASE i # 0
          <5>1. i - 1 \in Nat /\ i - 1 \in 0 .. n /\ (i - 1) + 1 = i /\ lo + (i - 1) = lo + i - 1
            BY <4>1
          <5>2. h[i] = h[i - 1] + (IF lo + i - 1 \in w THEN 2^(i - 1) ELSE 0)
            BY <1>5, <5>1
          <5> QED
            BY <4>1, <5>1, <5>2
        <4> QED
          BY <1>4, <4>1
      <3> QED
        BY <3>1
    <2>2. E(f)
      BY <2>1, Zenon
    <2>3. Bits(w, n, lo) = f[n]
      BY Zenon DEF Bits
    <2> HIDE DEF f, r
    <2>4. \A i \in 0 .. n : f[i] = IF i = 0 THEN 0
                                   ELSE f[i - 1] + (IF lo + i - 1 \in w THEN 2^(i - 1) ELSE 0)
      BY <2>2
    <2> HIDE DEF E
    <2> DEFINE S == {i \in Nat : i <= n => f[i] = h[i]}
    <2>5. 0 \in S
      BY <1>4, <2>4
    <2>6. ASSUME NEW i \in Nat, i \in S PROVE i + 1 \in S
      <3>1. i + 1 \in Nat
        OBVIOUS
      <3>2. CASE i + 1 <= n
        <4>1. i + 1 \in 0 .. n /\ i + 1 # 0 /\ (i + 1) - 1 = i /\ lo + (i + 1) - 1 = lo + i /\ f[i] = h[i]
          BY <2>6, <3>2
        <4>2. f[i + 1] = h[i] + (IF lo + i \in w THEN 2^i ELSE 0)
          BY <2>4, <4>1
        <4> QED
          BY <1>5, <3>1, <4>2
      <3> QED
        BY <3>1, <3>2
    <2> HIDE DEF S
    <2>7. n \in S
      BY <2>5, <2>6, Inductive
    <2> QED
      BY <2>3, <2>7 DEF S
  <1>7. m + 1 \in Nat /\ 0 \in Nat
    OBVIOUS
  <1>8. h[m + 1] = h[m] + BinaryDigit(w, lo, m)
    BY <1>5 DEF BinaryDigit
  <1> QED
    BY <1>4, <1>6, <1>7, <1>8

LEMMA BitsType ==
  ASSUME NEW w, NEW lo \in Nat, NEW n \in Nat
  PROVE  Bits(w, n, lo) \in Nat
  BY BitsSteps

(* n bits make a number below 2^n.                                         *)
LEMMA BitsBelow ==
  ASSUME NEW w, NEW lo \in Nat, NEW n \in Nat
  PROVE  Bits(w, n, lo) \in 0 .. 2^n - 1
  <1> DEFINE S == {k \in Nat : Bits(w, k, lo) < 2^k}
  <1>1. 0 \in S
    <2>1. 2^0 = 1 /\ Bits(w, 0, lo) = 0
      BY BitsSteps
    <2> QED
      BY <2>1
  <1>2. ASSUME NEW k \in Nat, k \in S PROVE k + 1 \in S
    <2>0. Bits(w, k + 1, lo) = Bits(w, k, lo) + BinaryDigit(w, lo, k)
      BY BitsSteps
    <2>1. Bits(w, k, lo) \in Nat
      BY BitsSteps
    <2>2. 2^k \in Nat \ {0} /\ 2^(k + 1) = 2 * 2^k
      BY TwoPowers
    <2>3. Bits(w, k, lo) < 2^k
      BY <1>2
    <2>4. k + 1 \in Nat
      OBVIOUS
    <2>5. Bits(w, k + 1, lo) < 2^(k + 1)
      BY <2>0, <2>1, <2>2, <2>3 DEF BinaryDigit
    <2> QED
      BY <2>4, <2>5
  <1> HIDE DEF S
  <1>3. n \in S
    BY <1>1, <1>2, Inductive
  <1>4. Bits(w, n, lo) \in Nat /\ 2^n \in Nat
    BY BitsSteps, TwoPowers
  <1> QED
    BY <1>3, <1>4 DEF S

(* The number of the low n binary digits of v is v modulo 2^n.             *)
LEMMA BitsOfNumber ==
  ASSUME NEW w, NEW lo \in Nat, NEW n \in Nat, NEW v \in Int,
         \A i \in 0 .. n - 1 : lo + i \in w <=> (v \div 2^i) % 2 = 1
  PROVE  Bits(w, n, lo) = v % 2^n
  <1> DEFINE S == {k \in Nat : k <= n => Bits(w, k, lo) = v % 2^k}
  <1>1. 0 \in S
    <2>1. 2^0 = 1 /\ Bits(w, 0, lo) = 0
      BY BitsSteps
    <2> QED
      BY <2>1
  <1>2. ASSUME NEW k \in Nat, k \in S PROVE k + 1 \in S
    <2>0. k + 1 \in Nat
      OBVIOUS
    <2> SUFFICES ASSUME k + 1 <= n PROVE Bits(w, k + 1, lo) = v % 2^(k + 1)
      BY <2>0
    <2> DEFINE p == 2^k
               q == v \div p
               r == v % p
               t == q \div 2
               u == q % 2
    <2>1. p \in Nat \ {0} /\ 2^(k + 1) = 2 * p
      BY TwoPowers
    <2>2. Bits(w, k + 1, lo) = Bits(w, k, lo) + (IF lo + k \in w THEN p ELSE 0)
      <3>1. Bits(w, k + 1, lo) = Bits(w, k, lo) + BinaryDigit(w, lo, k)
        BY BitsSteps
      <3> QED
        BY <3>1, Zenon DEF BinaryDigit
    <2>3. Bits(w, k, lo) = r
      BY <1>2
    <2>4. k \in 0 .. n - 1
      OBVIOUS
    <2>5. lo + k \in w <=> u = 1
      BY <2>4
    <2> HIDE DEF p
    <2>6. q \in Int /\ r \in 0 .. p - 1 /\ v = q * p + r
      BY <2>1
    <2> HIDE DEF q, r
    <2>7. t \in Int /\ u \in 0 .. 1 /\ q = 2 * t + u
      BY <2>6
    <2> HIDE DEF t, u
    <2>8. v = t * (2 * p) + (u * p + r)
      <3>1. q * p = t * (2 * p) + u * p
        BY <2>1, <2>7
      <3> QED
        BY <2>1, <2>6, <2>7, <3>1
    <2>9. u * p + r \in 0 .. (2 * p) - 1
      <3>1. u = 0 \/ u = 1
        BY <2>7
      <3> QED
        BY <2>1, <2>6, <3>1
    <2>10. 2 * p \in Nat \ {0}
      BY <2>1
    <2>11. v % (2 * p) = u * p + r
      BY <2>7, <2>8, <2>9, <2>10, Quotient
    <2>12. u * p + r = r + (IF u = 1 THEN p ELSE 0)
      <3>1. u = 0 \/ u = 1
        BY <2>7
      <3> QED
        BY <2>1, <2>6, <3>1
    <2> QED
      BY <2>1, <2>2, <2>3, <2>5, <2>11, <2>12
  <1> HIDE DEF S
  <1>3. n \in S
    BY <1>1, <1>2, Inductive
  <1> QED
    BY <1>3 DEF S

(* A digit of a number that n bits make is the bit it was made of.         *)
LEMMA DigitIsBit ==
  ASSUME NEW w, NEW lo \in Nat, NEW n \in Nat, NEW i \in 0 .. n - 1
  PROVE  (Bits(w, n, lo) \div 2^i) % 2 = 1 <=> lo + i \in w
  <1>0. \A k \in Nat : Bits(w, k + 1, lo) = Bits(w, k, lo) + BinaryDigit(w, lo, k)
    BY BitsSteps
  <1> DEFINE S == {k \in Nat : i < k => ((Bits(w, k, lo) \div 2^i) % 2 = 1 <=> lo + i \in w)}
  <1>1. 0 \in S
    OBVIOUS
  <1>2. ASSUME NEW k \in Nat, k \in S PROVE k + 1 \in S
    <2>0. k + 1 \in Nat /\ i \in Nat
      OBVIOUS
    <2> SUFFICES ASSUME i <= k
                 PROVE  (Bits(w, k + 1, lo) \div 2^i) % 2 = 1 <=> lo + i \in w
      BY <2>0
    <2> DEFINE p == 2^i
               b == Bits(w, k, lo)
               d == IF lo + k \in w THEN 1 ELSE 0
    <2>1. p \in Nat \ {0} /\ 2^k \in Nat \ {0} /\ d \in 0 .. 1
      BY <2>0, TwoPowers
    <2>2. Bits(w, k + 1, lo) = b + (IF lo + k \in w THEN 2^k ELSE 0)
      BY <1>0, Zenon DEF BinaryDigit
    <2>3. b \in 0 .. 2^k - 1
      BY BitsBelow
    <2>4. Bits(w, k + 1, lo) = b + d * 2^k
      BY <2>1, <2>2, <2>3
    <2>5. CASE i = k
      <3>1. b \in 0 .. p - 1 /\ d \in Int
        BY <2>1, <2>3, <2>5
      <3>2. (d * p + b) \div p = d
        <4> HIDE DEF p, b, d
        <4> QED
          BY <2>1, <3>1, Quotient
      <3>3. Bits(w, k + 1, lo) \div p = d
        BY <2>1, <2>3, <2>4, <2>5, <3>2
      <3> QED
        BY <2>1, <2>5, <3>3
    <2>6. CASE i < k
      <3> DEFINE q == 2^(k - i - 1)
                 a == b \div p
                 r == b % p
      <3>1. k - i - 1 \in Nat /\ (k - i - 1) + 1 = k - i /\ i \in 0 .. k
        BY <2>0, <2>6
      <3>2. q \in Nat /\ 2^(k - i) = 2 * q
        BY <3>1, TwoPowers
      <3>3. 2^(k - i) * 2^i = 2^k
        BY <3>1, PowerSplits
      <3> HIDE DEF q
      <3>4. 2^k = (2 * q) * p
        BY <3>2, <3>3
      <3>5. a \in Int /\ r \in 0 .. p - 1 /\ b = a * p + r
        <4> HIDE DEF p
        <4>1. b \in Int
          BY <2>3
        <4> HIDE DEF b
        <4> QED
          BY <2>1, <4>1
      <3>6. a % 2 = 1 <=> lo + i \in w
        BY <1>2, <2>6
      <3> HIDE DEF a, r, b, p, d
      <3>7. b + d * 2^k = (a + 2 * (d * q)) * p + r
        <4>1. d = 0 \/ d = 1
          BY <2>1
        <4>2. CASE d = 0
          <5>1. d * 2^k = 0 /\ d * q = 0 /\ a + 2 * 0 = a
            BY <2>1, <3>2, <3>5, <4>2
          <5> QED
            BY <3>5, <5>1
        <4>3. CASE d = 1
          <5>1. \A x, y, z \in Int : (x + y) * z = x * z + y * z
            OBVIOUS
          <5>2. d * 2^k = (2 * q) * p /\ d * q = q /\ 2 * q \in Int /\ p \in Int
            BY <2>1, <3>2, <3>4, <4>3
          <5>3. (a + 2 * q) * p = a * p + (2 * q) * p
            BY <3>5, <5>1, <5>2
          <5>4. a * p \in Int /\ (2 * q) * p \in Int
            BY <3>5, <5>2
          <5> QED
            BY <3>5, <5>2, <5>3, <5>4
        <4> QED
          BY <4>1, <4>2, <4>3
      <3>8. d * q \in Int
        BY <2>1, <3>2
      <3> DEFINE e == d * q
      <3> HIDE DEF e
      <3>9. ((a + 2 * e) * p + r) \div p = a + 2 * e
        <4>1. a + 2 * e \in Int
          BY <3>5, <3>8 DEF e
        <4> QED
          BY <2>1, <3>5, <4>1, Quotient
      <3>10. (a + 2 * e) % 2 = a % 2
        <4>1. e \in Int
          BY <3>8 DEF e
        <4> QED
          BY <3>5, <4>1
      <3>11. Bits(w, k + 1, lo) \div p = a + 2 * e
        BY <2>4, <3>7, <3>9 DEF e, b, d
      <3>12. (Bits(w, k + 1, lo) \div p) % 2 = a % 2
        BY <3>10, <3>11
      <3> QED
        BY <3>6, <3>12 DEF p
    <2> QED
      BY <2>0, <2>5, <2>6
  <1> HIDE DEF S
  <1>3. n \in S
    BY <1>1, <1>2, Inductive
  <1> QED
    BY <1>3 DEF S

(* The bits of a word that a field puts there.                             *)
LEMMA FieldMember ==
  ASSUME NEW v \in Int, NEW width \in Nat, NEW lo \in Nat, NEW x \in Int
  PROVE  x \in Field(v, width, lo) <=>
           x \in lo .. lo + width - 1 /\ (v \div 2^(x - lo)) % 2 = 1
  <1>1. ASSUME x \in Field(v, width, lo)
        PROVE  x \in lo .. lo + width - 1 /\ (v \div 2^(x - lo)) % 2 = 1
    <2>1. PICK i \in 0 .. width - 1 : x = lo + i /\ (v \div 2^i) % 2 = 1
      BY <1>1 DEF Field
    <2>2. x - lo = i
      BY <2>1
    <2> QED
      BY <2>1, <2>2
  <1>2. ASSUME x \in lo .. lo + width - 1, (v \div 2^(x - lo)) % 2 = 1
        PROVE  x \in Field(v, width, lo)
    <2>1. x - lo \in 0 .. width - 1 /\ x = lo + (x - lo)
      BY <1>2
    <2> QED
      BY <1>2, <2>1 DEF Field
  <1> QED
    BY <1>1, <1>2

(* What is read from a field is what was put there, modulo its width.      *)
LEMMA FieldRead ==
  ASSUME NEW v \in Int, NEW width \in Nat, NEW lo \in Nat, NEW w,
         \A x \in lo .. lo + width - 1 : x \in w <=> x \in Field(v, width, lo)
  PROVE  Bits(w, width, lo) = v % 2^width
  <1>1. ASSUME NEW i \in 0 .. width - 1
        PROVE  lo + i \in w <=> (v \div 2^i) % 2 = 1
    <2>1. lo + i \in lo .. lo + width - 1 /\ lo + i \in Int /\ (lo + i) - lo = i
      OBVIOUS
    <2>2. lo + i \in Field(v, width, lo) <=> (v \div 2^i) % 2 = 1
      BY <2>1, FieldMember
    <2> QED
      BY <2>1, <2>2
  <1> QED
    BY <1>1, BitsOfNumber

(* The bytes of a word put together are the word.                          *)
LEMMA ByteIsPart ==
  ASSUME NEW w, NEW n \in 0 .. 3, NEW x \in Int
  PROVE  x \in Field(get_nth_byte(w, n), 8, 8 * n) <=> x \in 8 * n .. 8 * n + 7 /\ x \in w
  <1> DEFINE lo == 8 * n
             b == Bits(w, 8, lo)
  <1>1. lo \in Nat /\ 8 \in Nat
    OBVIOUS
  <1>2. b \in Int
    BY <1>1, BitsType
  <1>3. get_nth_byte(w, n) = b
    BY DEF get_nth_byte
  <1> HIDE DEF b, lo
  <1>4. x \in Field(b, 8, lo) <=> x \in lo .. lo + 8 - 1 /\ (b \div 2^(x - lo)) % 2 = 1
    BY <1>1, <1>2, FieldMember
  <1>5. ASSUME x \in lo .. lo + 8 - 1
        PROVE  (b \div 2^(x - lo)) % 2 = 1 <=> x \in w
    <2>1. x - lo \in 0 .. 8 - 1 /\ lo + (x - lo) = x
      BY <1>1, <1>5
    <2> QED
      BY <1>1, <2>1, DigitIsBit DEF b
  <1>6. lo .. lo + 8 - 1 = lo .. lo + 7
    BY <1>1
  <1> QED
    BY <1>3, <1>4, <1>5, <1>6 DEF lo

-----------------------------------------------------------------------------
(* The fields of an instruction, as they are packed and as they are read *)

LEMMA SmallPowers == 2^4 = 16 /\ 2^5 = 32
  <1>1. 2^0 = 1
    OBVIOUS
  <1>2. 2^1 = 2
    BY <1>1, TwoPowers
  <1>3. 2^2 = 4
    BY <1>2, TwoPowers
  <1>4. 2^3 = 8
    BY <1>3, TwoPowers
  <1>5. 2^4 = 16
    BY <1>4, TwoPowers
  <1> QED
    BY <1>5, TwoPowers

(* A register number is cut to five bits, then to four.                    *)
LEMMA RemainderOfRemainder ==
  ASSUME NEW x \in Int, NEW a \in Nat \ {0}, NEW b \in Nat \ {0}
  PROVE  (x % (a * b)) % b = x % b
  <1> DEFINE q == x \div (a * b)
             r == x % (a * b)
             s == r \div b
             t == r % b
  <1>1. a * b \in Nat \ {0}
    OBVIOUS
  <1>2. q \in Int /\ r \in Int /\ x = q * (a * b) + r
    <2> DEFINE c == a * b
    <2> HIDE DEF c
    <2> QED
      BY <1>1 DEF c
  <1> HIDE DEF q, r
  <1>3. s \in Int /\ t \in 0 .. b - 1 /\ r = s * b + t
    BY <1>2
  <1> HIDE DEF s, t
  <1>4. q * (a * b) = (q * a) * b /\ q * a \in Int
    BY <1>2
  <1>5. x = (q * a + s) * b + t
    <2>1. \A y, z \in Int : (y + z) * b = y * b + z * b
      OBVIOUS
    <2>2. (q * a + s) * b = (q * a) * b + s * b
      BY <1>3, <1>4, <2>1
    <2> QED
      BY <1>2, <1>3, <1>4, <2>2
  <1>6. x % b = t
    <2>1. q * a + s \in Int
      BY <1>3, <1>4
    <2> QED
      BY <1>3, <1>5, <2>1, Quotient
  <1> QED
    BY <1>6 DEF r, t

(* The sign extension of the low n + 1 bits of a number that fits in them. *)
LEMMA SignExtended ==
  ASSUME NEW n \in Nat, NEW v \in -(2^n) .. 2^n - 1
  PROVE  SignExtend(v % 2^(n + 1), n + 1) = v
  <1> DEFINE p == 2^n
  <1>1. p \in Nat \ {0} /\ 2^(n + 1) = 2 * p /\ (n + 1) - 1 = n
    BY TwoPowers
  <1>2. v \in -p .. p - 1
    OBVIOUS
  <1> HIDE DEF p
  <1>3. CASE v >= 0
    <2>1. v % (2 * p) = v
      <3>1. v = 0 * (2 * p) + v /\ v \in 0 .. 2 * p - 1 /\ 2 * p \in Nat \ {0} /\ 0 \in Int
        BY <1>1, <1>2, <1>3
      <3> QED
        BY <3>1, Quotient
    <2> QED
      BY <1>1, <1>2, <1>3, <2>1 DEF SignExtend, p
  <1>4. CASE v < 0
    <2>1. v % (2 * p) = v + 2 * p
      <3>1. v = (-1) * (2 * p) + (v + 2 * p) /\ v + 2 * p \in 0 .. 2 * p - 1 /\ 2 * p \in Nat \ {0} /\ -1 \in Int
        BY <1>1, <1>2, <1>4
      <3> QED
        BY <3>1, Quotient
    <2> QED
      BY <1>1, <1>2, <1>4, <2>1 DEF SignExtend, p
  <1> QED
    BY <1>2, <1>3, <1>4, <1>1

(* A mnemonic is the one its opcode is decoded to.                         *)
LEMMA OpcodesDiffer ==
  /\ \A op \in DOMAIN Opcode : Opcode[op] \in 0 .. 31
  /\ \A o1, o2 \in DOMAIN Opcode : Opcode[o1] = Opcode[o2] => o1 = o2
  BY DEF Opcode

LEMMA OpcodeRead ==
  ASSUME NEW op \in DOMAIN Opcode, NEW w,
         \A x \in 27 .. 31 : x \in w <=> x \in Field(Opcode[op], 5, 27)
  PROVE  opcodeOf(w) = op
  <1>1. Opcode[op] \in Int /\ Opcode[op] % 32 = Opcode[op]
    BY OpcodesDiffer
  <1>2. Bits(w, 5, 27) = Opcode[op] % 2^5
    <2>1. 27 + 5 - 1 = 31 /\ 5 \in Nat /\ 27 \in Nat
      OBVIOUS
    <2> QED
      BY <1>1, <2>1, FieldRead
  <1>3. Bits(w, 5, 27) = Opcode[op]
    BY <1>1, <1>2, SmallPowers
  <1> DEFINE P(o) == Opcode[o] = Bits(w, 5, 27)
             c == CHOOSE o \in DOMAIN Opcode : P(o)
  <1>4. P(op)
    BY <1>3
  <1>5. c \in DOMAIN Opcode /\ P(c)
    <2> HIDE DEF P
    <2> QED
      BY <1>4, Zenon
  <1>6. opcodeOf(w) = c
    BY Zenon DEF opcodeOf
  <1> HIDE DEF c
  <1>7. c = op
    BY <1>3, <1>5, OpcodesDiffer, Zenon
  <1> QED
    BY <1>6, <1>7

LEMMA FieldWithin ==
  ASSUME NEW v \in Int, NEW width \in Nat, NEW lo \in Nat, NEW x \in Field(v, width, lo)
  PROVE  x \in lo .. lo + width - 1
  <1>1. x \in Int
    BY DEF Field
  <1> QED
    BY <1>1, FieldMember

LEMMA RegisterWithin ==
  ASSUME NEW v \in Int, NEW lo \in Nat
  PROVE  \A x \in Field(v, 4, lo) : x \in lo .. lo + 3
  <1>1. lo + 4 - 1 = lo + 3 /\ 4 \in Nat
    OBVIOUS
  <1> QED
    BY <1>1, FieldWithin

LEMMA OpcodeWithin ==
  ASSUME NEW v \in Int
  PROVE  \A x \in Field(v, 5, 27) : x \in 27 .. 31
  <1>1. 27 + 5 - 1 = 31 /\ 5 \in Nat /\ 27 \in Nat
    OBVIOUS
  <1> QED
    BY <1>1, FieldWithin

LEMMA Register4Read ==
  ASSUME NEW v \in Int, NEW lo \in Nat, NEW w,
         \A x \in lo .. lo + 3 : x \in w <=> x \in Field(v, 4, lo)
  PROVE  Bits(w, 4, lo) = v % 16
  <1>1. lo + 4 - 1 = lo + 3 /\ 4 \in Nat
    OBVIOUS
  <1>2. Bits(w, 4, lo) = v % 2^4
    BY <1>1, FieldRead
  <1> QED
    BY <1>2, SmallPowers

(* The instruction w holds these operands.                                 *)
Packs(w, op, rs, rt, rd, imm, filter, signum) ==
  \A x \in 0 .. 31 : x \in w <=> x \in Operands(op, rs, rt, rd, imm, filter, signum)
                                        \cup Field(Opcode[op], 5, 27)

(* The three formats with registers and the one without.                   *)
LEMMA ROperandsRead ==
  ASSUME NEW op \in r_inst, NEW rs \in Int, NEW rt \in Int, NEW rd \in Int, NEW imm, NEW filter,
         NEW signum, NEW w,
         Packs(w, op, rs, rt, rd, imm, filter, signum)
  PROVE  /\ opcodeOf(w) = op
         /\ rdOf(w) = rd % 16 /\ rsOf(w) = rs % 16 /\ rtOf(w) = rt % 16
  <1>1. Operands(op, rs, rt, rd, imm, filter, signum)
          = Field(rd, 4, 15) \cup Field(rt, 4, 19) \cup Field(rs, 4, 23)
    BY DEF Operands, r_inst, i_inst1, i_inst2, j_inst
  <1>2. op \in DOMAIN Opcode /\ Opcode[op] \in Int
    BY OpcodesDiffer DEF r_inst, Opcode
  <1>3. /\ \A x \in Field(rd, 4, 15) : x \in 15 .. 18
        /\ \A x \in Field(rt, 4, 19) : x \in 19 .. 22
        /\ \A x \in Field(rs, 4, 23) : x \in 23 .. 26
        /\ \A x \in Field(Opcode[op], 5, 27) : x \in 27 .. 31
    <2>1. 15 + 3 = 18 /\ 19 + 3 = 22 /\ 23 + 3 = 26 /\ 15 \in Nat /\ 19 \in Nat /\ 23 \in Nat
      OBVIOUS
    <2>2. \A x \in Field(rd, 4, 15) : x \in 15 .. 18
      BY <2>1, RegisterWithin
    <2>3. \A x \in Field(rt, 4, 19) : x \in 19 .. 22
      BY <2>1, RegisterWithin
    <2>4. \A x \in Field(rs, 4, 23) : x \in 23 .. 26
      BY <2>1, RegisterWithin
    <2> QED
      BY <1>2, <2>2, <2>3, <2>4, OpcodeWithin
  <1>4. /\ \A x \in 15 .. 15 + 3 : x \in w <=> x \in Field(rd, 4, 15)
        /\ \A x \in 19 .. 19 + 3 : x \in w <=> x \in Field(rt, 4, 19)
        /\ \A x \in 23 .. 23 + 3 : x \in w <=> x \in Field(rs, 4, 23)
        /\ \A x \in 27 .. 31 : x \in w <=> x \in Field(Opcode[op], 5, 27)
    BY <1>1, <1>3 DEF Packs
  <1>5. 15 \in Nat /\ 19 \in Nat /\ 23 \in Nat
    OBVIOUS
  <1> QED
    BY <1>2, <1>4, <1>5, OpcodeRead, Register4Read DEF rdOf, rsOf, rtOf

LEMMA I1OperandsRead ==
  ASSUME NEW op \in i_inst1, NEW rs \in Int, NEW rt \in Int, NEW rd, NEW imm \in Int, NEW filter,
         NEW signum, NEW w,
         Packs(w, op, rs, rt, rd, imm, filter, signum)
  PROVE  /\ opcodeOf(w) = op
         /\ rsOf(w) = rs % 16 /\ rtOf(w) = rt % 16 /\ Bits(w, 19, 0) = imm % 2^19
  <1>1. Operands(op, rs, rt, rd, imm, filter, signum)
          = Field(imm, 19, 0) \cup Field(rt, 4, 19) \cup Field(rs, 4, 23)
    BY DEF Operands, r_inst, i_inst1, i_inst2, j_inst
  <1>2. op \in DOMAIN Opcode /\ Opcode[op] \in Int
    BY OpcodesDiffer DEF i_inst1, Opcode
  <1>3. /\ \A x \in Field(imm, 19, 0) : x \in 0 .. 18
        /\ \A x \in Field(rt, 4, 19) : x \in 19 .. 22
        /\ \A x \in Field(rs, 4, 23) : x \in 23 .. 26
        /\ \A x \in Field(Opcode[op], 5, 27) : x \in 27 .. 31
    <2>1. 0 + 19 - 1 = 18 /\ 19 + 3 = 22 /\ 23 + 3 = 26 /\ 0 \in Nat /\ 19 \in Nat /\ 23 \in Nat
      OBVIOUS
    <2>2. \A x \in Field(imm, 19, 0) : x \in 0 .. 18
      BY <2>1, FieldWithin
    <2>3. \A x \in Field(rt, 4, 19) : x \in 19 .. 22
      BY <2>1, RegisterWithin
    <2>4. \A x \in Field(rs, 4, 23) : x \in 23 .. 26
      BY <2>1, RegisterWithin
    <2> QED
      BY <1>2, <2>2, <2>3, <2>4, OpcodeWithin
  <1>4. /\ \A x \in 0 .. 0 + 19 - 1 : x \in w <=> x \in Field(imm, 19, 0)
        /\ \A x \in 19 .. 19 + 3 : x \in w <=> x \in Field(rt, 4, 19)
        /\ \A x \in 23 .. 23 + 3 : x \in w <=> x \in Field(rs, 4, 23)
        /\ \A x \in 27 .. 31 : x \in w <=> x \in Field(Opcode[op], 5, 27)
    BY <1>1, <1>3 DEF Packs
  <1>5. 0 \in Nat /\ 19 \in Nat /\ 23 \in Nat
    OBVIOUS
  <1>6. Bits(w, 19, 0) = imm % 2^19
    BY <1>4, <1>5, FieldRead
  <1> QED
    BY <1>2, <1>4, <1>5, <1>6, OpcodeRead, Register4Read DEF rsOf, rtOf

LEMMA I2OperandsRead ==
  ASSUME NEW op \in i_inst2, NEW rs \in Int, NEW rt, NEW rd, NEW imm \in Int, NEW filter,
         NEW signum, NEW w,
         Packs(w, op, rs, rt, rd, imm, filter, signum)
  PROVE  /\ opcodeOf(w) = op /\ rsOf(w) = rs % 16
         /\ Bits(w, 23, 0) = imm % 2^23 /\ Bits(w, 16, 0) = imm % 2^16
  <1>1. Operands(op, rs, rt, rd, imm, filter, signum) = Field(imm, 23, 0) \cup Field(rs, 4, 23)
    BY DEF Operands, r_inst, i_inst1, i_inst2, j_inst
  <1>2. op \in DOMAIN Opcode /\ Opcode[op] \in Int
    BY OpcodesDiffer DEF i_inst2, Opcode
  <1>3. /\ \A x \in Field(imm, 23, 0) : x \in 0 .. 22
        /\ \A x \in Field(rs, 4, 23) : x \in 23 .. 26
        /\ \A x \in Field(Opcode[op], 5, 27) : x \in 27 .. 31
    <2>1. 0 + 23 - 1 = 22 /\ 23 + 4 - 1 = 26 /\ 27 + 5 - 1 = 31 /\ {0, 4, 5, 23, 27} \subseteq Nat
      OBVIOUS
    <2> QED
      BY <1>2, <2>1, FieldWithin, ZenonT(30)
  <1>4. /\ \A x \in 0 .. 0 + 23 - 1 : x \in w <=> x \in Field(imm, 23, 0)
        /\ \A x \in 23 .. 23 + 3 : x \in w <=> x \in Field(rs, 4, 23)
        /\ \A x \in 27 .. 31 : x \in w <=> x \in Field(Opcode[op], 5, 27)
    BY <1>1, <1>3 DEF Packs
  <1>5. 0 \in Nat /\ 16 \in Nat /\ 23 \in Nat
    OBVIOUS
  <1>6. Bits(w, 23, 0) = imm % 2^23
    BY <1>4, <1>5, FieldRead
  <1>7. \A x \in 0 .. 0 + 16 - 1 : x \in w <=> x \in Field(imm, 16, 0)
    <2> SUFFICES ASSUME NEW x \in 0 .. 0 + 16 - 1
                 PROVE  x \in Field(imm, 23, 0) <=> x \in Field(imm, 16, 0)
      BY <1>4
    <2>1. x \in Int /\ x \in 0 .. 0 + 23 - 1
      OBVIOUS
    <2> QED
      BY <1>5, <2>1, FieldMember
  <1>8. Bits(w, 16, 0) = imm % 2^16
    BY <1>5, <1>7, FieldRead
  <1> QED
    BY <1>2, <1>4, <1>5, <1>6, <1>8, OpcodeRead, Register4Read DEF rsOf

LEMMA JOperandsRead ==
  ASSUME NEW op \in j_inst, NEW rs, NEW rt, NEW rd, NEW imm \in Int, NEW filter, NEW signum, NEW w,
         Packs(w, op, rs, rt, rd, imm, filter, signum)
  PROVE  opcodeOf(w) = op /\ Bits(w, 27, 0) = imm % 2^27
  <1>1. Operands(op, rs, rt, rd, imm, filter, signum) = Field(imm, 27, 0)
    BY DEF Operands, r_inst, i_inst1, i_inst2, j_inst
  <1>2. op \in DOMAIN Opcode /\ Opcode[op] \in Int
    BY OpcodesDiffer DEF j_inst, Opcode
  <1>3. /\ \A x \in Field(imm, 27, 0) : x \in 0 .. 26
        /\ \A x \in Field(Opcode[op], 5, 27) : x \in 27 .. 31
    <2>1. 0 + 27 - 1 = 26 /\ 27 + 5 - 1 = 31 /\ {0, 5, 27} \subseteq Nat
      OBVIOUS
    <2> QED
      BY <1>2, <2>1, FieldWithin, ZenonT(30)
  <1>4. /\ \A x \in 0 .. 0 + 27 - 1 : x \in w <=> x \in Field(imm, 27, 0)
        /\ \A x \in 27 .. 31 : x \in w <=> x \in Field(Opcode[op], 5, 27)
    BY <1>1, <1>3 DEF Packs
  <1>5. 0 \in Nat /\ 27 \in Nat
    OBVIOUS
  <1> QED
    BY <1>2, <1>4, <1>5, OpcodeRead, FieldRead

LEMMA SignalRead ==
  ASSUME NEW op \in {"startf", "starti", "loadf"}, NEW rs, NEW rt, NEW rd, NEW imm, NEW filter,
         NEW signum \in Int, NEW w,
         Packs(w, op, rs, rt, rd, imm, filter, signum)
  PROVE  /\ opcodeOf(w) = op /\ sigNumOf(w) = signum % 2^18
         /\ op = "startf" => (filterOf(w) <=> filter # 0)
  <1> DEFINE flag == IF op = "startf" /\ filter # 0 THEN {8} ELSE {}
  <1>1. Operands(op, rs, rt, rd, imm, filter, signum) = flag \cup Field(signum, 18, 9)
    BY DEF Operands, r_inst, i_inst1, i_inst2, j_inst
  <1>2. op \in DOMAIN Opcode /\ Opcode[op] \in Int
    BY OpcodesDiffer DEF Opcode
  <1>3. /\ \A x \in Field(signum, 18, 9) : x \in 9 .. 26
        /\ \A x \in Field(Opcode[op], 5, 27) : x \in 27 .. 31
    <2>1. 9 + 18 - 1 = 26 /\ 27 + 5 - 1 = 31 /\ {5, 9, 18, 27} \subseteq Nat
      OBVIOUS
    <2> QED
      BY <1>2, <2>1, FieldWithin, ZenonT(30)
  <1>4. /\ \A x \in 9 .. 9 + 18 - 1 : x \in w <=> x \in Field(signum, 18, 9)
        /\ \A x \in 27 .. 31 : x \in w <=> x \in Field(Opcode[op], 5, 27)
        /\ 8 \in w <=> 8 \in flag
    BY <1>1, <1>3 DEF Packs
  <1>5. 9 \in Nat /\ 18 \in Nat
    OBVIOUS
  <1> QED
    BY <1>2, <1>4, <1>5, OpcodeRead, FieldRead DEF sigNumOf, filterOf

LEMMA BareRead ==
  ASSUME NEW op \in {"halt", "nop"}, NEW rs, NEW rt, NEW rd, NEW imm, NEW filter, NEW signum, NEW w,
         Packs(w, op, rs, rt, rd, imm, filter, signum)
  PROVE  opcodeOf(w) = op
  <1>1. Operands(op, rs, rt, rd, imm, filter, signum) = {}
    BY DEF Operands, r_inst, i_inst1, i_inst2, j_inst
  <1>2. op \in DOMAIN Opcode
    BY DEF Opcode
  <1> QED
    BY <1>1, <1>2, OpcodeRead DEF Packs

(* A word of zeros.                                                        *)
LEMMA ZeroRead ==
  ASSUME NEW w, \A x \in 0 .. 31 : x \notin w
  PROVE  opcodeOf(w) = "halt"
  <1>1. "halt" \in DOMAIN Opcode /\ Opcode["halt"] = 0
    BY DEF Opcode
  <1>2. \A x \in 27 .. 31 : x \notin Field(0, 5, 27)
    <2> SUFFICES ASSUME NEW x \in 27 .. 31 PROVE x \notin Field(0, 5, 27)
      OBVIOUS
    <2>1. x - 27 \in Nat /\ x \in Int /\ 5 \in Nat /\ 27 \in Nat /\ 0 \in Int
      OBVIOUS
    <2> DEFINE p == 2^(x - 27)
    <2>2. p \in Nat \ {0}
      BY <2>1, TwoPowers
    <2> HIDE DEF p
    <2>3. 0 \div p = 0
      BY <2>2
    <2>4. (0 \div p) % 2 # 1
      BY <2>3
    <2>5. (0 \div 2^(x - 27)) % 2 # 1
      BY <2>4, Zenon DEF p
    <2>6. x \in Field(0, 5, 27) => (0 \div 2^(x - 27)) % 2 = 1
      BY <2>1, FieldMember, Zenon
    <2> QED
      BY <2>5, <2>6, Zenon
  <1> QED
    BY <1>1, <1>2, OpcodeRead

-----------------------------------------------------------------------------
(* Operands *)

(* A register by its name, by its number, and in parentheses.              *)
LEMMA FriendlyType ==
  ASSUME NEW s
  PROVE  friendly_to_numerical(s) \in Int
  <1> DEFINE P(i) == s = "$" \o REGISTERS[i]
             c == CHOOSE i \in DOMAIN REGISTERS : P(i)
  <1>1. DOMAIN REGISTERS \subseteq Int
    BY DEF REGISTERS
  <1>2. CASE \E i \in DOMAIN REGISTERS : P(i)
    <2>1. c \in DOMAIN REGISTERS
      <3> HIDE DEF P
      <3> QED
        BY <1>2, Zenon
    <2>2. friendly_to_numerical(s) = c - 1
      BY <1>2, Zenon DEF friendly_to_numerical
    <2> HIDE DEF c
    <2> QED
      BY <1>1, <2>1, <2>2
  <1>3. CASE ~ \E i \in DOMAIN REGISTERS : P(i)
    <2>1. friendly_to_numerical(s) = INVALID
      BY <1>3, Zenon DEF friendly_to_numerical
    <2> QED
      BY <2>1 DEF INVALID
  <1> QED
    BY <1>2, <1>3, Zenon

LEMMA Failures ==
  ASSUME NEW e \in {"bad_imm", "parse_unexpected", "bad_reg_format", "unmatched_parenthesis",
                    "invalid_reg", "bad_mnemonic", "asm_bad_arg_count"}
  PROVE  ~Returned(Throw(e))
  <1>1. Throw(e).err = e
    BY DEF Throw
  <1>2. "bad_imm" # "" /\ "parse_unexpected" # "" /\ "bad_reg_format" # ""
        /\ "unmatched_parenthesis" # "" /\ "invalid_reg" # "" /\ "bad_mnemonic" # ""
        /\ "asm_bad_arg_count" # ""
    BY Zenon
  <1> QED
    BY <1>1, <1>2, Zenon DEF Returned

LEMMA RegisterType ==
  ASSUME StringsAreSequences, NEW s \in STRING, NEW stray \in STRING, Returned(Register(s, stray))
  PROVE  Register(s, stray).val \in Int
  <1> DEFINE t == SubSeq(s, 2, Len(s)) \o stray
  <1>1. t \in STRING
    <2>1. 2 \in Nat \ {0} /\ Len(s) \in Int /\ Len(s) <= Len(s)
      BY TextLaws
    <2> QED
      BY <2>1, TextLaws, Zenon
  <1>2. \/ Register(s, stray) = Return(friendly_to_numerical(s))
        \/ Register(s, stray) = get_reg_num(s, stray)
    BY Zenon DEF Register
  <1>3. get_reg_num(s, stray) \in {Throw("bad_imm"), Throw("parse_unexpected"), Throw("bad_reg_format"),
                                   numeric_interpret(t)}
    BY Zenon DEF get_reg_num
  <1> HIDE DEF t
  <1>4. CASE Register(s, stray) = Return(friendly_to_numerical(s))
    BY <1>4, FriendlyType, Results
  <1>5. CASE Register(s, stray) = get_reg_num(s, stray)
    <2>1. get_reg_num(s, stray) = numeric_interpret(t)
      BY <1>3, <1>5, Failures, Zenon
    <2> QED
      BY <1>1, <1>5, <2>1, NumberType
  <1> QED
    BY <1>2, <1>4, <1>5

LEMMA UnparenthesizedType ==
  ASSUME StringsAreSequences, NEW s \in STRING
  PROVE  Unparenthesized(s) \in STRING
  <1> DEFINE kept(i) == IF Chars(s)[i] \in {"(", ")"} THEN "" ELSE Chars(s)[i]
             ks == [i \in 1 .. Len(s) |-> kept(i)]
  <1>1. Len(s) \in Nat /\ \A i \in 1 .. Len(s) : Chars(s)[i] \in STRING
    <2>1. Len(s) \in Nat
      BY TextLaws
    <2> QED
      BY <2>1, CharsLength, CharsType, ElementOfSeq
  <1>2. \A i \in 1 .. Len(s) : kept(i) \in STRING
    <2>1. "" \in STRING
      BY EmptyText
    <2> QED
      BY <1>1, <2>1, Zenon
  <1>3. Unparenthesized(s) = Join(ks)
    BY Zenon DEF Unparenthesized
  <1> HIDE DEF kept
  <1>4. ks \in Seq(STRING)
    <2>1. ks \in [1 .. Len(s) -> STRING]
      BY <1>2
    <2> HIDE DEF ks
    <2> QED
      BY <1>1, <2>1, SeqDef
  <1> QED
    BY <1>3, <1>4, JoinType

LEMMA BaseRegisterType ==
  ASSUME StringsAreSequences, NEW s \in STRING, NEW stray \in STRING, Returned(BaseRegister(s, stray))
  PROVE  /\ BaseRegister(s, stray) = Register(Unparenthesized(s), stray)
         /\ BaseRegister(s, stray).val \in Int
  <1>1. BaseRegister(s, stray) \in {Throw("unmatched_parenthesis"), Register(Unparenthesized(s), stray)}
    BY Zenon DEF BaseRegister
  <1>2. BaseRegister(s, stray) = Register(Unparenthesized(s), stray)
    BY <1>1, Failures, Zenon
  <1> QED
    BY <1>2, UnparenthesizedType, RegisterType

(* What follows when an instruction was assembled without an exception: every *)
(* operand returned, and what each field holds is what one of them set.    *)
LEMMA OnlyField ==
  ASSUME NEW arg, NEW k \in DOMAIN arg, NEW f, arg[k].field = f,
         \A m \in DOMAIN arg : m # k => arg[m].field # f
  PROVE  FieldValue(arg, f) = arg[k].val
  <1> DEFINE P(m) == arg[m].field = f
             c == CHOOSE m \in DOMAIN arg : P(m)
  <1>1. FieldValue(arg, f) = arg[c].val
    BY Zenon DEF FieldValue
  <1>2. c \in DOMAIN arg /\ P(c)
    <2>1. P(k)
      OBVIOUS
    <2> HIDE DEF P
    <2> QED
      BY <2>1, Zenon
  <1> HIDE DEF c
  <1> QED
    BY <1>1, <1>2, Zenon

LEMMA EncodeReturned ==
  ASSUME NEW op, NEW arg, DOMAIN arg \subseteq Nat, Returned(Encode(op, arg))
  PROVE  /\ \A k \in DOMAIN arg : Returned(arg[k])
         /\ Encode(op, arg) =
              Return(Operands(op, FieldValue(arg, "rs"), FieldValue(arg, "rt"), FieldValue(arg, "rd"),
                              FieldValue(arg, "imm"), FieldValue(arg, "filter"), FieldValue(arg, "signum"))
                       \cup Field(Opcode[op], 5, 27))
  <1> DEFINE bad == {k \in DOMAIN arg : arg[k].err # ""}
  <1>1. bad = {}
    <2> SUFFICES ASSUME bad # {} PROVE FALSE
      OBVIOUS
    <2>1. bad \subseteq Nat
      BY Zenon
    <2>2. Encode(op, arg) = Throw(arg[Min(bad)].err)
      BY Zenon DEF Encode
    <2>3. \A m \in bad : ~Returned(arg[m])
      BY Zenon DEF Returned
    <2> HIDE DEF bad
    <2>4. Min(bad) \in bad
      BY <2>1, LeastIn
    <2>5. Throw(arg[Min(bad)].err).err = arg[Min(bad)].err
      BY DEF Throw
    <2> QED
      BY <2>2, <2>3, <2>4, <2>5, Zenon DEF Returned
  <1>2. \A k \in DOMAIN arg : Returned(arg[k])
    BY <1>1, Zenon DEF Returned
  <1>3. Encode(op, arg) = generic_mips32_encode(op, FieldValue(arg, "rs"), FieldValue(arg, "rt"),
                                FieldValue(arg, "rd"), FieldValue(arg, "imm"),
                                FieldValue(arg, "filter"), FieldValue(arg, "signum"))
    BY <1>1, Zenon DEF Encode
  <1>4. ASSUME NEW rs, NEW rt, NEW rd, NEW imm, NEW filter, NEW signum,
               Returned(generic_mips32_encode(op, rs, rt, rd, imm, filter, signum))
        PROVE  generic_mips32_encode(op, rs, rt, rd, imm, filter, signum)
                 = Return(Operands(op, rs, rt, rd, imm, filter, signum) \cup Field(Opcode[op], 5, 27))
    <2>1. generic_mips32_encode(op, rs, rt, rd, imm, filter, signum) \in
            {Throw("invalid_reg"),
             Return(Operands(op, rs, rt, rd, imm, filter, signum) \cup Field(Opcode[op], 5, 27))}
      BY Zenon DEF generic_mips32_encode
    <2> QED
      BY <1>4, <2>1, Failures, Zenon
  <1> QED
    BY <1>2, <1>3, <1>4, Zenon

LEMMA AssembleReturned ==
  ASSUME NEW args, args # <<>>, NEW base, NEW syms, NEW stray, Returned(assemble(args, base, syms, stray))
  PROVE  /\ args[1] \in DOMAIN Opcode /\ Len(args) = ArgCount(args[1])
         /\ assemble(args, base, syms, stray) = Encode(args[1], ReadOperands(args, base, syms, stray))
  <1>1. args[1] \in DOMAIN Opcode
    <2> SUFFICES ASSUME args[1] \notin DOMAIN Opcode PROVE FALSE
      OBVIOUS
    <2>1. assemble(args, base, syms, stray) = Throw("bad_mnemonic")
      BY Zenon DEF assemble
    <2> QED
      BY <2>1, Failures, Zenon
  <1>2. Len(args) = ArgCount(args[1])
    <2> SUFFICES ASSUME Len(args) # ArgCount(args[1]) PROVE FALSE
      OBVIOUS
    <2>1. assemble(args, base, syms, stray) = Throw("asm_bad_arg_count")
      BY <1>1, Zenon DEF assemble
    <2> QED
      BY <2>1, Failures, Zenon
  <1> QED
    BY <1>1, <1>2, Zenon DEF assemble

LEMMA SetOf ==
  ASSUME NEW f, NEW result
  PROVE  /\ Set(f, result).field = f /\ Set(f, result).val = result.val
         /\ Returned(Set(f, result)) => Returned(result)
  <1>1. Set(f, result).field = f /\ Set(f, result).val = result.val /\ Set(f, result).err = result.err
    BY DEF Set
  <1> QED
    BY <1>1, Zenon DEF Returned

NoDigits == ""

LEMMA Low4Is == ASSUME NEW s PROVE Low4(s) = Register(s, NoDigits).val % 16
  BY Zenon DEF Low4, NoDigits

(* Without stray digits an operand is what its text says.                  *)
LEMMA OperandRead ==
  ASSUME NEW args, NEW base, NEW syms, NEW n \in Nat, Len(args) = n
  PROVE  /\ DOMAIN ReadOperands(args, base, syms, NoStrays) = 1 .. n - 1
         /\ n > 1 => ReadOperands(args, base, syms, NoStrays)[1] = FirstArg(args[1], args[2], syms, NoDigits)
         /\ n > 2 => ReadOperands(args, base, syms, NoStrays)[2] = SecondArg(args[1], args[3], NoDigits)
         /\ n > 3 => ReadOperands(args, base, syms, NoStrays)[3] = ThirdArg(args[1], args[4], base, syms, NoDigits)
  <1> DEFINE R(k) == IF k = 1 THEN FirstArg(args[1], args[2], syms, NoStrays[1])
                     ELSE IF k = 2 THEN SecondArg(args[1], args[3], NoStrays[2])
                     ELSE ThirdArg(args[1], args[4], base, syms, NoStrays[3])
  <1>1. NoStrays[1] = NoDigits /\ NoStrays[2] = NoDigits /\ NoStrays[3] = NoDigits
    <2>1. 1 \in 1 .. 3 /\ 2 \in 1 .. 3 /\ 3 \in 1 .. 3
      OBVIOUS
    <2> QED
      BY <2>1, Zenon DEF NoStrays, NoDigits
  <1>2. /\ R(1) = FirstArg(args[1], args[2], syms, NoDigits) /\ R(2) = SecondArg(args[1], args[3], NoDigits)
        /\ R(3) = ThirdArg(args[1], args[4], base, syms, NoDigits)
    <2>1. 2 # 1 /\ 3 # 1 /\ 3 # 2
      OBVIOUS
    <2> QED
      BY <1>1, <2>1, Zenon
  <1>3. ReadOperands(args, base, syms, NoStrays) = [k \in 1 .. n - 1 |-> R(k)]
    BY Zenon DEF ReadOperands
  <1> HIDE DEF R
  <1>4. /\ n > 1 => 1 \in 1 .. n - 1
        /\ n > 2 => 2 \in 1 .. n - 1
        /\ n > 3 => 3 \in 1 .. n - 1
    OBVIOUS
  <1> QED
    BY <1>2, <1>3, <1>4, Zenon

LEMMA ArgumentTypes ==
  ASSUME NEW args \in Seq(STRING)
  PROVE  Len(args) \in Nat /\ \A i \in 1 .. Len(args) : args[i] \in STRING
  BY LenProperties, ElementOfSeq

LEMMA NoDigitsText == NoDigits \in STRING
  BY EmptyText, Zenon DEF NoDigits

(* Operand o sets field f to the number v.                                 *)
SetTo(o, f, v) == o.field = f /\ o.val = v /\ v \in Int

LEMMA RegisterOperand ==
  ASSUME StringsAreSequences, NEW s \in STRING, NEW f, NEW o, o = Set(f, Register(s, NoDigits)), Returned(o)
  PROVE  SetTo(o, f, Register(s, NoDigits).val)
  <1>1. Returned(Register(s, NoDigits))
    BY SetOf
  <1>2. Register(s, NoDigits).val \in Int
    BY <1>1, NoDigitsText, RegisterType
  <1> QED
    BY <1>2, SetOf DEF SetTo

LEMMA BaseOperand ==
  ASSUME StringsAreSequences, NEW s \in STRING, NEW f, NEW o, o = Set(f, BaseRegister(s, NoDigits)), Returned(o)
  PROVE  SetTo(o, f, Register(Unparenthesized(s), NoDigits).val)
  <1>1. Returned(BaseRegister(s, NoDigits))
    BY SetOf
  <1>2. BaseRegister(s, NoDigits) = Register(Unparenthesized(s), NoDigits) /\ BaseRegister(s, NoDigits).val \in Int
    BY <1>1, NoDigitsText, BaseRegisterType
  <1> QED
    BY <1>2, SetOf DEF SetTo

LEMMA NumberOperand ==
  ASSUME StringsAreSequences, NEW s \in STRING, NEW f, NEW o, o = Set(f, get_imm(s)), Returned(o)
  PROVE  SetTo(o, f, get_imm(s).val)
  <1>1. Returned(get_imm(s))
    BY SetOf
  <1>2. get_imm(s).val \in Int
    BY <1>1, NumberType DEF get_imm
  <1> QED
    BY <1>2, SetOf DEF SetTo

LEMMA FieldSet ==
  ASSUME NEW arg, NEW k \in DOMAIN arg, NEW f, NEW v, SetTo(arg[k], f, v),
         \A m \in DOMAIN arg : m # k => arg[m].field # f
  PROVE  FieldValue(arg, f) = v /\ v \in Int
  BY OnlyField DEF SetTo

(* The instruction W that args were assembled to.                          *)
AssembledTo(args, base, syms, W) ==
  /\ Returned(assemble(args, base, syms, NoStrays))
  /\ \A x \in 0 .. 31 : x \in W <=> x \in assemble(args, base, syms, NoStrays).val

(* The operands it was made of.                                            *)
MadeOf(args, base, syms, arg, W) ==
  /\ args[1] \in DOMAIN Opcode /\ Len(args) = ArgCount(args[1])
  /\ DOMAIN arg = 1 .. Len(args) - 1
  /\ \A k \in DOMAIN arg : Returned(arg[k])
  /\ Len(args) > 1 => arg[1] = FirstArg(args[1], args[2], syms, NoDigits)
  /\ Len(args) > 2 => arg[2] = SecondArg(args[1], args[3], NoDigits)
  /\ Len(args) > 3 => arg[3] = ThirdArg(args[1], args[4], base, syms, NoDigits)
  /\ Packs(W, args[1], FieldValue(arg, "rs"), FieldValue(arg, "rt"), FieldValue(arg, "rd"),
           FieldValue(arg, "imm"), FieldValue(arg, "filter"), FieldValue(arg, "signum"))

(* An instruction that was assembled was packed from its operands.         *)
LEMMA Assembled ==
  ASSUME NEW args \in Seq(STRING), args # <<>>, NEW base, NEW syms, NEW W, AssembledTo(args, base, syms, W)
  PROVE  \E arg : MadeOf(args, base, syms, arg, W)
  <1> PICK arg : arg = ReadOperands(args, base, syms, NoStrays)
    OBVIOUS
  <1>1. Returned(assemble(args, base, syms, NoStrays)) /\ Len(args) \in Nat
    BY ArgumentTypes, Zenon DEF AssembledTo
  <1>2. /\ args[1] \in DOMAIN Opcode /\ Len(args) = ArgCount(args[1])
        /\ assemble(args, base, syms, NoStrays) = Encode(args[1], arg)
    BY <1>1, AssembleReturned, Zenon
  <1>3. /\ DOMAIN arg = 1 .. Len(args) - 1
        /\ Len(args) > 1 => arg[1] = FirstArg(args[1], args[2], syms, NoDigits)
        /\ Len(args) > 2 => arg[2] = SecondArg(args[1], args[3], NoDigits)
        /\ Len(args) > 3 => arg[3] = ThirdArg(args[1], args[4], base, syms, NoDigits)
    BY <1>1, OperandRead
  <1>4. DOMAIN arg \subseteq Nat
    <2>1. DOMAIN arg = 1 .. Len(args) - 1
      BY <1>3, Zenon
    <2> QED
      BY <1>1, <2>1
  <1>5. /\ \A k \in DOMAIN arg : Returned(arg[k])
        /\ Encode(args[1], arg) =
              Return(Operands(args[1], FieldValue(arg, "rs"), FieldValue(arg, "rt"), FieldValue(arg, "rd"),
                              FieldValue(arg, "imm"), FieldValue(arg, "filter"), FieldValue(arg, "signum"))
                       \cup Field(Opcode[args[1]], 5, 27))
    <2>1. Returned(Encode(args[1], arg))
      BY <1>1, <1>2, Zenon
    <2> QED
      BY <1>4, <2>1, EncodeReturned, Zenon
  <1>6. assemble(args, base, syms, NoStrays).val
          = Operands(args[1], FieldValue(arg, "rs"), FieldValue(arg, "rt"), FieldValue(arg, "rd"),
                     FieldValue(arg, "imm"), FieldValue(arg, "filter"), FieldValue(arg, "signum"))
              \cup Field(Opcode[args[1]], 5, 27)
    BY <1>2, <1>5, Results, Zenon
  <1>7. MadeOf(args, base, syms, arg, W)
    BY <1>2, <1>3, <1>5, <1>6, Zenon DEF AssembledTo, MadeOf, Packs
  <1> QED
    BY <1>7

(* The formats in turn.                                                    *)
LEMMA RMeans ==
  ASSUME StringsAreSequences, NEW args \in Seq(STRING), args[1] \in r_inst,
         NEW base, NEW syms, NEW arg, NEW W, MadeOf(args, base, syms, arg, W)
  PROVE  /\ opcodeOf(W) = args[1]
         /\ rdOf(W) = Low4(args[2]) /\ rsOf(W) = Low4(args[3]) /\ rtOf(W) = Low4(args[4])
  <1> DEFINE op == args[1]
             r(i) == Register(args[i], NoDigits)
  <1>1. Len(args) = 4 /\ DOMAIN arg = {1, 2, 3}
    <2>1. ArgCount(op) = 4
      BY DEF ArgCount, r_inst, i_inst1, i_inst2, j_inst
    <2>2. Len(args) = 4 /\ DOMAIN arg = 1 .. Len(args) - 1
      BY <2>1 DEF MadeOf
    <2> QED
      BY <2>2
  <1>2. args[2] \in STRING /\ args[3] \in STRING /\ args[4] \in STRING
    BY <1>1, ArgumentTypes, SMTT(20)
  <1>3. arg[1] = Set("rd", r(2))
    <2>1. arg[1] = FirstArg(op, args[2], syms, NoDigits)
      BY <1>1 DEF MadeOf
    <2> QED
      BY <2>1 DEF FirstArg, r_inst, i_inst1, i_inst2, j_inst
  <1>4. arg[2] = Set("rs", r(3))
    <2>1. arg[2] = SecondArg(op, args[3], NoDigits)
      BY <1>1 DEF MadeOf
    <2> QED
      BY <2>1 DEF SecondArg, r_inst, i_inst1, i_inst2, mem_inst
  <1>5. arg[3] = Set("rt", r(4))
    <2>1. arg[3] = ThirdArg(op, args[4], base, syms, NoDigits)
      BY <1>1 DEF MadeOf
    <2> QED
      BY <2>1 DEF ThirdArg
  <1>6. Returned(arg[1]) /\ Returned(arg[2]) /\ Returned(arg[3])
    BY <1>1 DEF MadeOf
  <1>7. SetTo(arg[1], "rd", r(2).val) /\ SetTo(arg[2], "rs", r(3).val) /\ SetTo(arg[3], "rt", r(4).val)
    BY <1>2, <1>3, <1>4, <1>5, <1>6, RegisterOperand
  <1> HIDE DEF r
  <1>8. FieldValue(arg, "rd") = r(2).val /\ r(2).val \in Int
    BY <1>1, <1>7, FieldSet DEF SetTo
  <1>9. FieldValue(arg, "rs") = r(3).val /\ r(3).val \in Int
    BY <1>1, <1>7, FieldSet DEF SetTo
  <1>10. FieldValue(arg, "rt") = r(4).val /\ r(4).val \in Int
    BY <1>1, <1>7, FieldSet, SMTT(20) DEF SetTo
  <1>11. PICK imm, filter, signum : Packs(W, op, r(3).val, r(4).val, r(2).val, imm, filter, signum)
    BY <1>8, <1>9, <1>10, Zenon DEF MadeOf
  <1>12. /\ opcodeOf(W) = op
         /\ rdOf(W) = r(2).val % 16 /\ rsOf(W) = r(3).val % 16 /\ rtOf(W) = r(4).val % 16
    BY <1>8, <1>9, <1>10, <1>11, ROperandsRead
  <1> QED
    BY <1>12, Low4Is DEF r

(* The offset of a branch to a label, cut to the field of the instruction. *)
LEMMA OffsetRead ==
  ASSUME NEW t \in Int, NEW k \in Nat \ {0}
  PROVE  /\ offset_to_address_br(4 * (k - 1), t) \in Int
         /\ offset_to_address_br(4 * (k - 1), t) % 2^19 = ((t - 4 * k) \div 4) % 2^19
  <1> DEFINE x == (t - 4 * k) \div 4
             a == 2^11
             b == 2^19
  <1>1. a \in Nat \ {0} /\ b \in Nat \ {0}
    BY TwoPowers
  <1>2. 2^30 = a * b
    <2>1. 30 \in Nat /\ 19 \in 0 .. 30 /\ 30 - 19 = 11
      OBVIOUS
    <2> QED
      BY <2>1, PowerSplits
  <1>3. x \in Int
    OBVIOUS
  <1>4. t - 4 * (k - 1) - 4 = t - 4 * k
    OBVIOUS
  <1>5. offset_to_address_br(4 * (k - 1), t) = x % (a * b)
    BY <1>2, <1>4, Zenon DEF offset_to_address_br
  <1> HIDE DEF x, a, b
  <1>6. x % (a * b) \in Int
    <2> DEFINE c == a * b
    <2>1. c \in Nat \ {0}
      BY <1>1
    <2> HIDE DEF c
    <2>2. x % c \in Int
      BY <1>3, <2>1
    <2> QED
      BY <2>2 DEF c
  <1>7. (x % (a * b)) % b = x % b
    BY <1>1, <1>3, RemainderOfRemainder
  <1> QED
    BY <1>5, <1>6, <1>7, Zenon DEF x, b

(* Operand o sets the immediate that s means in the k-th instruction, up   *)
(* to multiples of 2^19.                                                   *)
SetsImmediate(o, s, k) ==
  /\ o.field = "imm" /\ o.val \in Int
  /\ Immediate(s, k) \in Int /\ o.val % 2^19 = Immediate(s, k) % 2^19

LEMMA ImmediateOperand ==
  ASSUME StringsAreSequences, NEW op \in i_inst1, NEW s \in STRING, NEW k \in Nat \ {0}, NEW t,
         \A l \in DOMAIN jump_syms : jump_syms[l] \in Int,
         NEW base, base = 4 * (k - 1), NEW o, o = ThirdArg(op, s, base, jump_syms, t), Returned(o)
  PROVE  SetsImmediate(o, s, k)
  <1>1. op \notin r_inst
    BY DEF i_inst1, r_inst
  <1>2. CASE s \in DOMAIN jump_syms
    <2>1. o = Set("imm", Return(offset_to_address_br(4 * (k - 1), jump_syms[s])))
      BY <1>1, <1>2, Zenon DEF ThirdArg
    <2>2. o.field = "imm" /\ o.val = offset_to_address_br(4 * (k - 1), jump_syms[s])
      BY <2>1, SetOf, Results
    <2>3. Immediate(s, k) = (jump_syms[s] - 4 * k) \div 4
      BY <1>2, Zenon DEF Immediate
    <2>4. Immediate(s, k) \in Int
      <3>1. \A x \in Int : (x - 4 * k) \div 4 \in Int
        OBVIOUS
      <3> QED
        BY <1>2, <2>3, <3>1, Zenon
    <2> QED
      BY <1>2, <2>2, <2>3, <2>4, OffsetRead DEF SetsImmediate
  <1>3. CASE s \notin DOMAIN jump_syms
    <2>1. o = Set("imm", get_imm(s))
      BY <1>1, <1>3, Zenon DEF ThirdArg
    <2>2. Immediate(s, k) = get_imm(s).val
      BY <1>3, Zenon DEF Immediate
    <2> QED
      BY <2>1, <2>2, NumberOperand DEF SetTo, SetsImmediate
  <1> QED
    BY <1>2, <1>3

LEMMA I1Means ==
  ASSUME StringsAreSequences, NEW args \in Seq(STRING), args[1] \in i_inst1,
         \A l \in DOMAIN jump_syms : jump_syms[l] \in Int, NEW k \in Nat \ {0},
         NEW arg, NEW W, MadeOf(args, 4 * (k - 1), jump_syms, arg, W)
  PROVE  /\ opcodeOf(W) = args[1] /\ rtOf(W) = Low4(args[2])
         /\ rsOf(W) = Low4(IF args[1] \in mem_inst THEN Unparenthesized(args[3]) ELSE args[3])
         /\ Immediate(args[4], k) \in Int /\ Bits(W, 19, 0) = Immediate(args[4], k) % 2^19
  <1> DEFINE op == args[1]
             b == IF op \in mem_inst THEN Unparenthesized(args[3]) ELSE args[3]
             rt == Register(args[2], NoDigits).val
             rs == Register(b, NoDigits).val
             imm == arg[3].val
  <1>1. Len(args) = 4 /\ DOMAIN arg = {1, 2, 3}
    <2>1. ArgCount(op) = 4
      BY DEF ArgCount, r_inst, i_inst1, i_inst2, j_inst
    <2>2. Len(args) = 4 /\ DOMAIN arg = 1 .. Len(args) - 1
      BY <2>1 DEF MadeOf
    <2> QED
      BY <2>2
  <1>2. args[2] \in STRING /\ args[3] \in STRING /\ args[4] \in STRING
    <2>1. Len(args) = 4 /\ 2 \in 1 .. 4 /\ 3 \in 1 .. 4 /\ 4 \in 1 .. 4
      BY <1>1
    <2> QED
      BY <2>1, ArgumentTypes, Zenon
  <1>3. arg[1] = Set("rt", Register(args[2], NoDigits))
    <2>1. arg[1] = FirstArg(op, args[2], jump_syms, NoDigits)
      BY <1>1 DEF MadeOf
    <2> QED
      BY <2>1 DEF FirstArg, r_inst, i_inst1, i_inst2, j_inst
  <1>4. arg[2] = Set("rs", IF op \in mem_inst THEN BaseRegister(args[3], NoDigits)
                                             ELSE Register(args[3], NoDigits))
    <2>1. arg[2] = SecondArg(op, args[3], NoDigits)
      BY <1>1 DEF MadeOf
    <2> QED
      BY <2>1 DEF SecondArg, r_inst, i_inst1, i_inst2, mem_inst
  <1>5. arg[3] = ThirdArg(op, args[4], 4 * (k - 1), jump_syms, NoDigits)
    BY <1>1 DEF MadeOf
  <1>6. Returned(arg[1]) /\ Returned(arg[2]) /\ Returned(arg[3])
    BY <1>1 DEF MadeOf
  <1>7. SetTo(arg[1], "rt", rt)
    BY <1>2, <1>3, <1>6, RegisterOperand
  <1>8. SetTo(arg[2], "rs", rs)
    BY <1>2, <1>4, <1>6, RegisterOperand, BaseOperand
  <1>9. /\ arg[3].field = "imm" /\ imm \in Int
        /\ Immediate(args[4], k) \in Int /\ imm % 2^19 = Immediate(args[4], k) % 2^19
    <2> HIDE DEF rt, rs, b, imm
    <2>1. SetsImmediate(arg[3], args[4], k)
      BY <1>2, <1>5, <1>6, ImmediateOperand
    <2> QED
      BY <2>1, Zenon DEF SetsImmediate, imm
  <1> HIDE DEF rt, rs, b
  <1>15. arg[1].field = "rt" /\ arg[2].field = "rs" /\ arg[3].field = "imm"
    BY <1>7, <1>8, <1>9, Zenon DEF SetTo
  <1>10. FieldValue(arg, "rt") = rt /\ rt \in Int
    BY <1>1, <1>7, <1>8, <1>15, FieldSet
  <1>11. FieldValue(arg, "rs") = rs /\ rs \in Int
    BY <1>1, <1>7, <1>8, <1>15, FieldSet
  <1>12. FieldValue(arg, "imm") = imm
    BY <1>1, <1>15, OnlyField
  <1> HIDE DEF imm
  <1>13. PICK rd, filter, signum : Packs(W, op, rs, rt, rd, imm, filter, signum)
    BY <1>10, <1>11, <1>12, Zenon DEF MadeOf
  <1>14. opcodeOf(W) = op /\ rsOf(W) = rs % 16 /\ rtOf(W) = rt % 16 /\ Bits(W, 19, 0) = imm % 2^19
    BY <1>9, <1>10, <1>11, <1>13, I1OperandsRead
  <1> QED
    BY <1>9, <1>14, Low4Is DEF rt, rs, b

LEMMA I2Means ==
  ASSUME StringsAreSequences, NEW args \in Seq(STRING), args[1] \in i_inst2,
         NEW base, NEW syms, NEW arg, NEW W, MadeOf(args, base, syms, arg, W)
  PROVE  /\ opcodeOf(W) = args[1] /\ rsOf(W) = Low4(args[2]) /\ get_imm(args[3]).val \in Int
         /\ Bits(W, 23, 0) = get_imm(args[3]).val % 2^23 /\ Bits(W, 16, 0) = get_imm(args[3]).val % 2^16
  <1> DEFINE op == args[1]
             rs == Register(args[2], NoDigits).val
             imm == get_imm(args[3]).val
  <1>1. Len(args) = 3 /\ DOMAIN arg = {1, 2}
    <2>1. ArgCount(op) = 3
      BY DEF ArgCount, r_inst, i_inst1, i_inst2, j_inst
    <2>2. Len(args) = 3 /\ DOMAIN arg = 1 .. Len(args) - 1
      BY <2>1 DEF MadeOf
    <2> QED
      BY <2>2
  <1>2. args[2] \in STRING /\ args[3] \in STRING
    <2>1. Len(args) = 3 /\ 2 \in 1 .. 3 /\ 3 \in 1 .. 3
      BY <1>1
    <2> QED
      BY <2>1, ArgumentTypes, Zenon
  <1>3. arg[1] = Set("rs", Register(args[2], NoDigits))
    <2>1. arg[1] = FirstArg(op, args[2], syms, NoDigits)
      BY <1>1 DEF MadeOf
    <2> QED
      BY <2>1 DEF FirstArg, r_inst, i_inst1, i_inst2, j_inst
  <1>4. arg[2] = Set("imm", get_imm(args[3]))
    <2>1. arg[2] = SecondArg(op, args[3], NoDigits)
      BY <1>1 DEF MadeOf
    <2> QED
      BY <2>1 DEF SecondArg, r_inst, i_inst1, i_inst2, mem_inst
  <1>5. Returned(arg[1]) /\ Returned(arg[2])
    BY <1>1 DEF MadeOf
  <1>6. SetTo(arg[1], "rs", rs)
    BY <1>2, <1>3, <1>5, RegisterOperand
  <1>7. SetTo(arg[2], "imm", imm)
    BY <1>2, <1>4, <1>5, NumberOperand
  <1> HIDE DEF rs, imm
  <1>8. FieldValue(arg, "rs") = rs /\ rs \in Int
    BY <1>1, <1>6, <1>7, FieldSet DEF SetTo
  <1>9. FieldValue(arg, "imm") = imm /\ imm \in Int
    BY <1>1, <1>6, <1>7, FieldSet DEF SetTo
  <1>10. PICK rt, rd, filter, signum : Packs(W, op, rs, rt, rd, imm, filter, signum)
    BY <1>8, <1>9, Zenon DEF MadeOf
  <1>11. opcodeOf(W) = op /\ rsOf(W) = rs % 16 /\ Bits(W, 23, 0) = imm % 2^23 /\ Bits(W, 16, 0) = imm % 2^16
    BY <1>8, <1>9, <1>10, I2OperandsRead
  <1> QED
    BY <1>9, <1>11, Low4Is DEF rs, imm

LEMMA JMeans ==
  ASSUME StringsAreSequences, NEW args \in Seq(STRING), args[1] \in j_inst,
         NEW base, NEW syms, \A l \in DOMAIN syms : syms[l] \in Int,
         NEW arg, NEW W, MadeOf(args, base, syms, arg, W)
  PROVE  /\ opcodeOf(W) = args[1]
         /\ args[2] \notin DOMAIN syms =>
              get_imm(args[2]).val \in Int /\ Bits(W, 27, 0) = get_imm(args[2]).val % 2^27
  <1> DEFINE op == args[1]
             o == IF args[2] \in DOMAIN syms THEN Return(syms[args[2]] \div 4) ELSE get_imm(args[2])
             imm == arg[1].val
  <1>1. Len(args) = 2 /\ DOMAIN arg = {1}
    <2>1. ArgCount(op) = 2
      BY DEF ArgCount, r_inst, i_inst1, i_inst2, j_inst
    <2>2. Len(args) = 2 /\ DOMAIN arg = 1 .. Len(args) - 1
      BY <2>1 DEF MadeOf
    <2> QED
      BY <2>2
  <1>2. args[2] \in STRING
    <2>1. Len(args) = 2 /\ 2 \in 1 .. 2
      BY <1>1
    <2> QED
      BY <2>1, ArgumentTypes, Zenon
  <1>3. arg[1] = Set("imm", o)
    <2>1. arg[1] = FirstArg(op, args[2], syms, NoDigits)
      BY <1>1 DEF MadeOf
    <2>2. op \notin r_inst /\ op \notin i_inst1 /\ op \notin i_inst2
      BY DEF r_inst, i_inst1, i_inst2, j_inst
    <2> HIDE DEF o
    <2>3. FirstArg(op, args[2], syms, NoDigits) = Set("imm", o)
      BY <2>2 DEF FirstArg, o
    <2> QED
      BY <2>1, <2>3
  <1>4. Returned(arg[1])
    BY <1>1 DEF MadeOf
  <1>5. arg[1].field = "imm" /\ imm \in Int /\ (args[2] \notin DOMAIN syms => imm = get_imm(args[2]).val)
    <2>1. CASE args[2] \in DOMAIN syms
      <3>1. arg[1].field = "imm" /\ imm = syms[args[2]] \div 4
        BY <1>3, <2>1, SetOf, Results
      <3>2. syms[args[2]] \div 4 \in Int
        BY <2>1
      <3> QED
        BY <2>1, <3>1, <3>2
    <2>2. CASE args[2] \notin DOMAIN syms
      <3>1. arg[1] = Set("imm", get_imm(args[2]))
        BY <1>3, <2>2
      <3> QED
        <4>1. SetTo(arg[1], "imm", get_imm(args[2]).val)
          BY <1>2, <1>4, <3>1, NumberOperand
        <4> QED
          BY <2>2, <4>1 DEF SetTo
    <2> QED
      BY <2>1, <2>2
  <1> HIDE DEF o
  <1>6. FieldValue(arg, "imm") = imm
    BY <1>1, <1>5, OnlyField
  <1> HIDE DEF imm
  <1>7. PICK rs, rt, rd, filter, signum : Packs(W, op, rs, rt, rd, imm, filter, signum)
    BY <1>6, Zenon DEF MadeOf
  <1>8. opcodeOf(W) = op /\ Bits(W, 27, 0) = imm % 2^27
    BY <1>5, <1>7, JOperandsRead
  <1> QED
    BY <1>5, <1>8

LEMMA SignalMeans ==
  ASSUME StringsAreSequences, NEW args \in Seq(STRING), args[1] \in {"startf", "starti", "loadf"},
         NEW base, NEW syms, NEW arg, NEW W, MadeOf(args, base, syms, arg, W)
  PROVE  /\ opcodeOf(W) = args[1] /\ sigNumOf(W) = get_imm(args[2]).val % 2^18
         /\ args[1] = "startf" => (filterOf(W) <=> get_imm(args[3]).val # 0)
  <1> DEFINE op == args[1]
             signum == get_imm(args[2]).val
             filter == FieldValue(arg, "filter")
  <1>1. DOMAIN arg = IF op = "startf" THEN {1, 2} ELSE {1}
    <2>1. ArgCount(op) = IF op = "startf" THEN 3 ELSE 2
      BY DEF ArgCount, r_inst, i_inst1, i_inst2, j_inst
    <2>2. Len(args) = (IF op = "startf" THEN 3 ELSE 2) /\ DOMAIN arg = 1 .. Len(args) - 1
      BY <2>1 DEF MadeOf
    <2>3. CASE op = "startf"
      BY <2>2, <2>3
    <2>4. CASE op # "startf"
      BY <2>2, <2>4
    <2> QED
      BY <2>3, <2>4
  <1>2. Len(args) = IF op = "startf" THEN 3 ELSE 2
    <2>1. ArgCount(op) = IF op = "startf" THEN 3 ELSE 2
      BY DEF ArgCount, r_inst, i_inst1, i_inst2, j_inst
    <2> QED
      BY <2>1 DEF MadeOf
  <1>3. args[2] \in STRING /\ (op = "startf" => args[3] \in STRING)
    BY <1>2, ArgumentTypes
  <1>4. arg[1] = Set("signum", get_imm(args[2]))
    <2>1. arg[1] = FirstArg(op, args[2], syms, NoDigits)
      BY <1>2 DEF MadeOf
    <2>2. op \notin r_inst /\ op \notin i_inst1 /\ op \notin i_inst2 /\ op \notin j_inst
      BY DEF r_inst, i_inst1, i_inst2, j_inst
    <2> QED
      BY <2>1, <2>2 DEF FirstArg
  <1>5. op = "startf" => arg[2] = Set("filter", get_imm(args[3]))
    <2> SUFFICES ASSUME op = "startf" PROVE arg[2] = Set("filter", get_imm(args[3]))
      OBVIOUS
    <2>1. arg[2] = SecondArg(op, args[3], NoDigits)
      BY <1>2, SMTT(20) DEF MadeOf
    <2>2. op \notin r_inst /\ op \notin i_inst1 /\ op \notin i_inst2 /\ op \notin mem_inst
      BY DEF r_inst, i_inst1, i_inst2, mem_inst
    <2> QED
      BY <2>1, <2>2 DEF SecondArg
  <1>6. Returned(arg[1]) /\ (op = "startf" => Returned(arg[2]))
    BY <1>1 DEF MadeOf
  <1>7. SetTo(arg[1], "signum", signum)
    BY <1>3, <1>4, <1>6, NumberOperand
  <1>8. op = "startf" => SetTo(arg[2], "filter", get_imm(args[3]).val)
    BY <1>3, <1>5, <1>6, NumberOperand
  <1> HIDE DEF signum
  <1>9. FieldValue(arg, "signum") = signum /\ signum \in Int
    <2>1. \A m \in DOMAIN arg : m # 1 => arg[m].field # "signum"
      BY <1>1, <1>8 DEF SetTo
    <2>2. 1 \in DOMAIN arg
      BY <1>1
    <2> QED
      BY <1>7, <2>1, <2>2, FieldSet
  <1>10. op = "startf" => filter = get_imm(args[3]).val
    <2> SUFFICES ASSUME op = "startf" PROVE filter = get_imm(args[3]).val
      OBVIOUS
    <2>1. DOMAIN arg = {1, 2}
      BY <1>1
    <2> QED
      BY <1>7, <1>8, <2>1, FieldSet DEF SetTo
  <1> HIDE DEF filter
  <1>11. PICK rs, rt, rd, imm : Packs(W, op, rs, rt, rd, imm, filter, signum)
    BY <1>9, Zenon DEF MadeOf, filter
  <1>12. /\ opcodeOf(W) = op /\ sigNumOf(W) = signum % 2^18
         /\ op = "startf" => (filterOf(W) <=> filter # 0)
    BY <1>9, <1>11, SignalRead
  <1> QED
    BY <1>10, <1>12 DEF signum

LEMMA BareMeans ==
  ASSUME NEW args, args[1] \in {"halt", "nop"}, NEW base, NEW syms, NEW arg, NEW W,
         MadeOf(args, base, syms, arg, W)
  PROVE  opcodeOf(W) = args[1]
  <1>1. PICK rs, rt, rd, imm, filter, signum : Packs(W, args[1], rs, rt, rd, imm, filter, signum)
    BY Zenon DEF MadeOf
  <1> QED
    BY <1>1, BareRead

(* The mnemonics fall into these classes.                                  *)
LEMMA Classes ==
  /\ DOMAIN Opcode = r_inst \cup i_inst1 \cup i_inst2 \cup j_inst \cup {"startf", "starti", "loadf"}
                       \cup {"halt", "nop"}
  /\ \A op \in r_inst : op \notin i_inst1 \cup i_inst2 \cup j_inst \cup {"startf", "starti", "loadf"}
  /\ \A op \in i_inst1 : op \notin i_inst2 \cup j_inst \cup {"startf", "starti", "loadf"}
  /\ \A op \in i_inst2 : op \notin j_inst \cup {"startf", "starti", "loadf"}
  /\ \A op \in j_inst : op \notin {"startf", "starti", "loadf"}
  /\ \A op \in {"halt", "nop"} :
       op \notin r_inst \cup i_inst1 \cup i_inst2 \cup j_inst \cup {"startf", "starti", "loadf"}
  /\ {"xori", "andni"} \subseteq i_inst1 /\ "slbi" \in i_inst2
  BY DEF Opcode, r_inst, i_inst1, i_inst2, j_inst

(* An immediate that fits in its field is read back as it was written.     *)
LEMMA Immediate19 ==
  ASSUME NEW W, opcodeOf(W) \in i_inst1, NEW v \in Int, Bits(W, 19, 0) = v % 2^19, Fits(opcodeOf(W), v)
  PROVE  immediateOf(W) = v
  <1> DEFINE op == opcodeOf(W)
             b == Bits(W, 19, 0)
  <1> HIDE DEF op, b
  <1>1. op \in i_inst1
    BY DEF op
  <1>2. CASE op \in {"xori", "andni"}
    <2>1. v \in 0 .. 2^19 - 1
      <3>1. op # "slbi" /\ op \notin i_inst2
        BY <1>1, <1>2, Classes
      <3> QED
        BY <1>2, <3>1 DEF Fits, op
    <2>2. immediateOf(W) = b
      BY <1>2, Classes DEF immediateOf, op, b
    <2>3. v % 2^19 = v
      <3> DEFINE p == 2^19
      <3>1. p \in Nat \ {0} /\ v \in 0 .. p - 1
        BY <2>1, TwoPowers
      <3> HIDE DEF p
      <3>2. v % p = v
        BY <3>1
      <3> QED
        BY <3>2 DEF p
    <2> QED
      BY <2>2, <2>3 DEF b
  <1>3. CASE op \notin {"xori", "andni"}
    <2>1. v \in -(2^18) .. 2^18 - 1
      BY <1>1, <1>3, Classes DEF Fits, op
    <2>2. immediateOf(W) = SignExtend(b, 19)
      BY <1>1, <1>3, Classes DEF immediateOf, op, b
    <2>3. 18 \in Nat /\ 18 + 1 = 19
      OBVIOUS
    <2>4. SignExtend(v % 2^(18 + 1), 18 + 1) = v
      BY <2>1, <2>3, SignExtended
    <2> QED
      BY <2>2, <2>3, <2>4, Zenon DEF b
  <1> QED
    BY <1>2, <1>3

LEMMA Immediate23 ==
  ASSUME NEW W, opcodeOf(W) \in i_inst2, NEW v \in Int, Bits(W, 23, 0) = v % 2^23,
         Bits(W, 16, 0) = v % 2^16, Fits(opcodeOf(W), v)
  PROVE  immediateOf(W) = v
  <1> DEFINE op == opcodeOf(W)
             b == Bits(W, 23, 0)
             c == Bits(W, 16, 0)
  <1> HIDE DEF op, b, c
  <1>1. op \in i_inst2
    BY DEF op
  <1>2. CASE op = "slbi"
    <2>1. v \in 0 .. 2^16 - 1
      BY <1>2, Classes DEF Fits, op
    <2>2. immediateOf(W) = c
      BY <1>2, Classes DEF immediateOf, op, c
    <2>3. v % 2^16 = v
      <3> DEFINE p == 2^16
      <3>1. p \in Nat \ {0} /\ v \in 0 .. p - 1
        BY <2>1, TwoPowers
      <3> HIDE DEF p
      <3>2. v % p = v
        BY <3>1
      <3> QED
        BY <3>2 DEF p
    <2> QED
      BY <2>2, <2>3 DEF c
  <1>3. CASE op # "slbi"
    <2>1. v \in -(2^22) .. 2^22 - 1
      BY <1>1, <1>3, Classes DEF Fits, op
    <2>2. immediateOf(W) = SignExtend(b, 23)
      BY <1>1, <1>3, Classes DEF immediateOf, op, b
    <2>3. 22 \in Nat /\ 22 + 1 = 23
      OBVIOUS
    <2>4. SignExtend(v % 2^(22 + 1), 22 + 1) = v
      BY <2>1, <2>3, SignExtended
    <2> QED
      BY <2>2, <2>3, <2>4, Zenon DEF b
  <1> QED
    BY <1>2, <1>3

LEMMA Immediate27 ==
  ASSUME NEW W, opcodeOf(W) \in j_inst, NEW v \in Int, Bits(W, 27, 0) = v % 2^27, Fits(opcodeOf(W), v)
  PROVE  immediateOf(W) = v
  <1> DEFINE op == opcodeOf(W)
             b == Bits(W, 27, 0)
  <1> HIDE DEF op, b
  <1>1. v \in -(2^26) .. 2^26 - 1
    BY Classes DEF Fits
  <1>2. immediateOf(W) = SignExtend(b, 27)
    BY Classes DEF immediateOf, b
  <1>3. 26 \in Nat /\ 26 + 1 = 27
    OBVIOUS
  <1>4. SignExtend(v % 2^(26 + 1), 26 + 1) = v
    BY <1>1, <1>3, SignExtended
  <1> QED
    BY <1>2, <1>3, <1>4, Zenon DEF b

(* An assembled instruction means its line, whatever its format.           *)
LEMMA MeansHolds ==
  ASSUME StringsAreSequences, NEW args \in Seq(STRING), args # <<>>, NEW k \in Nat \ {0},
         \A l \in DOMAIN jump_syms : jump_syms[l] \in Int,
         NEW W, AssembledTo(args, 4 * (k - 1), jump_syms, W)
  PROVE  Means(args, W, k)
  <1> DEFINE op == args[1]
  <1>1. PICK arg : MadeOf(args, 4 * (k - 1), jump_syms, arg, W)
    BY Assembled
  <1>2. op \in DOMAIN Opcode
    BY <1>1, Zenon DEF MadeOf
  <1>3. CASE op \in r_inst
    <2>1. op \notin i_inst1 \cup i_inst2 \cup j_inst \cup {"startf", "starti", "loadf"}
      BY <1>3, Classes, Zenon
    <2>2. /\ opcodeOf(W) = op
          /\ rdOf(W) = Low4(args[2]) /\ rsOf(W) = Low4(args[3]) /\ rtOf(W) = Low4(args[4])
      BY <1>1, <1>3, RMeans
    <2> QED
      BY <2>1, <2>2 DEF Means
  <1>4. CASE op \in i_inst1
    <2>1. op \notin r_inst /\ op \notin i_inst2 \cup j_inst \cup {"startf", "starti", "loadf"}
      BY <1>4, Classes
    <2>2. /\ opcodeOf(W) = op /\ rtOf(W) = Low4(args[2])
          /\ rsOf(W) = Low4(IF op \in mem_inst THEN Unparenthesized(args[3]) ELSE args[3])
          /\ Immediate(args[4], k) \in Int /\ Bits(W, 19, 0) = Immediate(args[4], k) % 2^19
      BY <1>1, <1>4, I1Means
    <2>3. Fits(op, Immediate(args[4], k)) => immediateOf(W) = Immediate(args[4], k)
      BY <1>4, <2>2, Immediate19, Zenon
    <2> QED
      BY <2>1, <2>2, <2>3 DEF Means
  <1>5. CASE op \in i_inst2
    <2>1. op \notin r_inst \cup i_inst1 /\ op \notin j_inst \cup {"startf", "starti", "loadf"}
      BY <1>5, Classes
    <2>2. /\ opcodeOf(W) = op /\ rsOf(W) = Low4(args[2]) /\ get_imm(args[3]).val \in Int
          /\ Bits(W, 23, 0) = get_imm(args[3]).val % 2^23 /\ Bits(W, 16, 0) = get_imm(args[3]).val % 2^16
      BY <1>1, <1>5, I2Means
    <2>3. Fits(op, get_imm(args[3]).val) => immediateOf(W) = get_imm(args[3]).val
      BY <1>5, <2>2, Immediate23, Zenon
    <2> QED
      BY <2>1, <2>2, <2>3 DEF Means
  <1>6. CASE op \in j_inst
    <2>1. op \notin r_inst \cup i_inst1 \cup i_inst2 /\ op \notin {"startf", "starti", "loadf"}
      BY <1>6, Classes
    <2>2. /\ opcodeOf(W) = op
          /\ args[2] \notin DOMAIN jump_syms =>
               get_imm(args[2]).val \in Int /\ Bits(W, 27, 0) = get_imm(args[2]).val % 2^27
      BY <1>1, <1>6, JMeans
    <2>3. args[2] \notin DOMAIN jump_syms =>
            (Fits(op, get_imm(args[2]).val) => immediateOf(W) = get_imm(args[2]).val)
      BY <1>6, <2>2, Immediate27, Zenon
    <2> QED
      BY <2>1, <2>2, <2>3 DEF Means
  <1>7. CASE op \in {"startf", "starti", "loadf"}
    <2>1. op \notin r_inst \cup i_inst1 \cup i_inst2 \cup j_inst
      BY <1>7, Classes
    <2>2. /\ opcodeOf(W) = op /\ sigNumOf(W) = get_imm(args[2]).val % 2^18
          /\ op = "startf" => (filterOf(W) <=> get_imm(args[3]).val # 0)
      BY <1>1, <1>7, SignalMeans
    <2> QED
      BY <2>1, <2>2 DEF Means
  <1>8. CASE op \in {"halt", "nop"}
    <2>1. op \notin r_inst \cup i_inst1 \cup i_inst2 \cup j_inst \cup {"startf", "starti", "loadf"}
      BY <1>8, Classes
    <2>2. opcodeOf(W) = op
      BY <1>1, <1>8, BareMeans
    <2> QED
      BY <2>1, <2>2 DEF Means
  <1> QED
    BY <1>2, <1>3, <1>4, <1>5, <1>6, <1>7, <1>8, Classes, Zenon

-----------------------------------------------------------------------------
(* The assembled program *)

(* The text that was read and the words of a line are texts.               *)
LEMMA LineRead ==
  ASSUME StringsAreSequences, NEW s \in STRING
  PROVE  fgets(s) \in STRING /\ trim_label(s) \in STRING /\ pop_back(s) \in STRING
         /\ \A t \in STRING : SubSeq(s, Len(t) + 1, Len(s)) \in STRING
  <1>1. /\ Len(s) \in Nat /\ Len(s) \in Int /\ Len(s) <= Len(s)
        /\ Len(s) - 1 \in Int /\ Len(s) - 1 <= Len(s) /\ 1 \in Nat \ {0}
    <2>1. Len(s) \in Nat
      BY TextLaws
    <2>2. \A n \in Nat : n \in Int /\ n <= n /\ n - 1 \in Int /\ n - 1 <= n /\ 1 \in Nat \ {0}
      OBVIOUS
    <2> QED
      BY <2>1, <2>2, Zenon
  <1>2. fgets(s) \in STRING
    <2> DEFINE S == {Len(s), LineMax} \cup {i \in 1 .. Len(s) : SubSeq(s, i, i) = "\n"}
    <2>1. S \subseteq Nat /\ S # {}
      BY <1>1, LineMaxAssumption
    <2>2. fgets(s) = SubSeq(s, 1, Min(S))
      BY Zenon DEF fgets
    <2>0. Len(s) \in S
      OBVIOUS
    <2> HIDE DEF S
    <2>3. Min(S) \in Int /\ Min(S) <= Len(s)
      <3>1. Min(S) \in S /\ Min(S) <= Len(s)
        BY <2>0, <2>1, LeastIn
      <3>2. \A n \in Nat : n \in Int
        OBVIOUS
      <3> QED
        BY <2>1, <3>1, <3>2, Zenon
    <2> QED
      BY <1>1, <2>2, <2>3, TextLaws, Zenon
  <1>3. trim_label(s) \in STRING
    <2> DEFINE S == {i \in 1 .. Len(s) : SubSeq(s, i, i) = ":"}
    <2>1. CASE S = {}
      <3>1. trim_label(s) = NoDigits
        BY <2>1, Zenon DEF trim_label, NoDigits
      <3> QED
        BY <3>1, NoDigitsText
    <2>2. CASE S # {}
      <3>1. trim_label(s) = SubSeq(s, Min(S) + 1, Len(s))
        BY <2>2 DEF trim_label
      <3>2. S \subseteq Nat
        BY <1>1
      <3> HIDE DEF S
      <3>3. Min(S) + 1 \in Nat \ {0}
        <4>1. Min(S) \in S
          BY <2>2, <3>2, LeastIn
        <4>2. \A n \in Nat : n + 1 \in Nat \ {0}
          OBVIOUS
        <4> QED
          BY <3>2, <4>1, <4>2, Zenon
      <3> QED
        BY <1>1, <3>1, <3>3, TextLaws, Zenon
    <2> QED
      BY <2>1, <2>2
  <1>4. pop_back(s) \in STRING
    BY <1>1, TextLaws, Zenon DEF pop_back
  <1>5. ASSUME NEW t \in STRING PROVE SubSeq(s, Len(t) + 1, Len(s)) \in STRING
    <2>1. Len(t) + 1 \in Nat \ {0}
      <3>1. Len(t) \in Nat
        BY TextLaws
      <3>2. \A n \in Nat : n + 1 \in Nat \ {0}
        OBVIOUS
      <3> QED
        BY <3>1, <3>2, Zenon
    <2> QED
      BY <1>1, <2>1, TextLaws, Zenon
  <1> QED
    BY <1>2, <1>3, <1>4, <1>5

LEMMA SourceInit ==
  ASSUME StringsAreSequences, Init
  PROVE  SourceInv /\ EncodedInv
  <1>1. /\ run \in Cases /\ lines = <<>> /\ jump_syms = <<>> /\ inst_file = NoDigits
        /\ inst_lengths = <<>> /\ strayed = <<>>
    BY Zenon DEF Init, NoDigits
  <1>2. SourceInv
    BY <1>1, NoDigitsText DEF SourceInv
  <1>3. EncodedInv
    BY <1>1 DEF EncodedInv, Listed, itr
  <1> QED
    BY <1>2, <1>3

LEMMA InsertedSymbols ==
  ASSUME \A l \in DOMAIN jump_syms : jump_syms[l] \in Int, equiv_pc \in Int, NEW key, syms_insert(key)
  PROVE  \A l \in DOMAIN jump_syms' : jump_syms'[l] \in Int
  BY DEF syms_insert, Put

LEMMA SourceStep ==
  ASSUME StringsAreSequences, CountsInv, SourceInv, [Next]_vars
  PROVE  SourceInv'
  <1>0. equiv_pc \in Int
    BY LenProperties DEF CountsInv, Listed
  <1>1. CASE Start
    <2>1. inst_file' \in {inst_file, run.source} /\ pc' # "start" /\ run \in Cases
          /\ UNCHANGED <<lines, jump_syms>>
      <3>1. inst_file' \in {inst_file, run.source} /\ pc' \in {"ended", "pass 1"} /\ pc = "start"
            /\ UNCHANGED <<lines, jump_syms>>
        BY <1>1, Zenon DEF Start, Stop
      <3> QED
        BY <3>1 DEF SourceInv
    <2> QED
      BY <2>1, CasesAssumption DEF SourceInv
  <1>2. ASSUME NextLine PROVE current_line \in STRING /\ inst_file' \in STRING /\ pc = "pass 1"
    <2>1. inst_file' = SubSeq(inst_file, Len(current_line) + 1, Len(inst_file)) /\ pc = "pass 1"
      BY <1>2, Zenon DEF NextLine
    <2>2. current_line \in STRING
      BY LineRead DEF SourceInv, current_line
    <2> QED
      BY <2>1, <2>2, LineRead DEF SourceInv
  <1>3. ASSUME NEW text \in STRING, KeepLine(text) PROVE lines' \in Seq(STRING) /\ UNCHANGED pc
    <2>1. lines' = Append(lines, pop_back(text)) /\ UNCHANGED pc
      BY <1>3 DEF KeepLine
    <2>2. pop_back(text) \in STRING
      BY LineRead
    <2> QED
      BY <2>1, <2>2, AppendProperties DEF SourceInv
  <1>4. CASE SymbolsError
    <2>1. NextLine /\ pc' = "ended" /\ UNCHANGED <<lines, jump_syms>>
      BY <1>4, Zenon DEF SymbolsError, Stop
    <2> QED
      BY <1>2, <2>1 DEF SourceInv
  <1>5. CASE SkipLine
    <2>1. NextLine /\ UNCHANGED <<pc, lines>> /\ (UNCHANGED jump_syms \/ \E key : syms_insert(key))
      BY <1>5, Zenon DEF SkipLine
    <2> QED
      BY <1>0, <1>2, <2>1, InsertedSymbols DEF SourceInv
  <1>6. CASE TakeLine
    <2>1. PICK text : /\ NextLine /\ KeepLine(text)
                      /\ text \in {current_line, trim_label(current_line)}
                      /\ UNCHANGED jump_syms \/ \E key : syms_insert(key)
      BY <1>6, Zenon DEF TakeLine
    <2>2. text \in STRING
      BY <1>2, <2>1, LineRead
    <2> QED
      BY <1>0, <1>2, <1>3, <2>1, <2>2, InsertedSymbols DEF SourceInv
  <1>7. CASE EndPass1 \/ AsmFlash \/ EndPass2 \/ OpenOutput \/ WriteInst \/ FinishOutput \/ UNCHANGED vars
    <2>1. UNCHANGED <<run, inst_file, lines, jump_syms>>
      BY <1>7, Zenon DEF EndPass1, AsmFlash, EndPass2, OpenOutput, WriteInst, FinishOutput, vars, pass1Vars
    <2>2. pc' = "start" => pc = "start"
      BY <1>7 DEF EndPass1, AsmFlash, EndPass2, OpenOutput, WriteInst, FinishOutput, Stop, Terminate, vars
    <2> QED
      BY <2>1, <2>2 DEF SourceInv
  <1> QED
    BY <1>1, <1>4, <1>5, <1>6, <1>7 DEF Next

(* The bytes of an instruction that is appended to the program.            *)
LEMMA FourElements ==
  ASSUME NEW s, Listed(s), NEW w
  PROVE  /\ \A i \in 1 .. Len(s) : (s \o LittleEndian(w))[i] = s[i]
         /\ \A n \in 1 .. 4 : (s \o LittleEndian(w))[Len(s) + n] = get_nth_byte(w, n - 1)
  <1> DEFINE l == LittleEndian(w)
             S == {s[i] : i \in 1 .. Len(s)} \cup {l[i] : i \in 1 .. 4}
  <1>1. s \in Seq(S)
    BY ListedSeq
  <1>2. l \in [1 .. 4 -> S] /\ \A n \in 1 .. 4 : l[n] = get_nth_byte(w, n - 1)
    BY DEF LittleEndian
  <1> HIDE DEF l, S
  <1>3. l \in Seq(S) /\ Len(l) = 4
    <2>1. l \in Seq(S)
      BY <1>2, SeqDef
    <2>2. DOMAIN l = 1 .. 4 /\ DOMAIN l = 1 .. Len(l) /\ Len(l) \in Nat
      BY <1>2, <2>1, LenProperties
    <2> QED
      BY <2>1, <2>2
  <1>4. \A i \in 1 .. Len(s) + Len(l) : (s \o l)[i] = IF i <= Len(s) THEN s[i] ELSE l[i - Len(s)]
    BY <1>1, <1>3, ConcatProperties
  <1>5. Len(s) \in Nat
    BY <1>1, LenProperties
  <1>6. ASSUME NEW i \in 1 .. Len(s) PROVE (s \o l)[i] = s[i]
    BY <1>3, <1>4, <1>5
  <1>7. ASSUME NEW n \in 1 .. 4 PROVE (s \o l)[Len(s) + n] = get_nth_byte(w, n - 1)
    <2>1. Len(s) + n \in 1 .. Len(s) + Len(l) /\ ~(Len(s) + n <= Len(s)) /\ Len(s) + n - Len(s) = n
      BY <1>3, <1>5
    <2> QED
      BY <1>2, <1>4, <2>1
  <1> QED
    BY <1>6, <1>7 DEF l

(* What assembling a line does.                                            *)
LEMMA AsmFlashMoves ==
  ASSUME AsmFlash
  PROVE  /\ pc = "pass 2" /\ itr < Len(lines) /\ UNCHANGED <<lines, jump_syms>>
         /\ \/ UNCHANGED <<prog, inst_lengths, strayed>>
            \/ pc' = "terminated" /\ UNCHANGED <<inst_lengths, strayed>>
            \/ /\ Returned(chop_string(lines[itr + 1]))
               /\ inst_lengths' = Append(inst_lengths, 4) /\ UNCHANGED pc
               /\ \E inst :
                    /\ Returned(inst) /\ prog' = prog \o LittleEndian(inst.val)
                    /\ strayed' = Append(strayed, inst # assemble(chop_string(lines[itr + 1]).val, asm_pc,
                                                                  jump_syms, NoStrays))
  BY Zenon DEF AsmFlash, Terminate, pass1Vars, pass2Vars, Returned

(* What was in the program stays there when bytes are appended.            *)
LEMMA AppendElements ==
  ASSUME NEW s, Listed(s), NEW e
  PROVE  /\ \A i \in 1 .. Len(s) : Append(s, e)[i] = s[i]
         /\ Append(s, e)[Len(s) + 1] = e
  <1> DEFINE S == {s[i] : i \in 1 .. Len(s)} \cup {e}
  <1>1. s \in Seq(S) /\ e \in S
    BY ListedSeq
  <1> HIDE DEF S
  <1> QED
    BY <1>1, AppendProperties

(* An assembled line stays encoded, and AsmFlash encodes the next one.     *)
LEMMA EncodedStep ==
  ASSUME CountsInv, EncodedInv, AsmFlash
  PROVE  EncodedInv'
  <1>1. /\ pc = "pass 2" /\ itr < Len(lines) /\ UNCHANGED <<lines, jump_syms>>
    BY AsmFlashMoves
  <1>2. /\ inst_lengths \in Seq({4}) /\ itr \in Nat /\ asm_pc = 4 * itr /\ Listed(prog)
        /\ Len(prog) = 4 * itr /\ Listed(strayed) /\ Len(strayed) = itr
        /\ \A k \in 1 .. itr : Encoded(k)
    BY <1>1, LenProperties DEF CountsInv, EncodedInv, itr
  <1>3. pc' \notin {"start", "pass 1"}
    BY <1>1 DEF AsmFlash, Stop, Terminate
  <1>4. CASE UNCHANGED <<prog, inst_lengths, strayed>>
    BY <1>1, <1>2, <1>3, <1>4 DEF EncodedInv, Encoded, itr
  <1>5. CASE pc' = "terminated" /\ UNCHANGED <<inst_lengths, strayed>>
    BY <1>2, <1>3, <1>5 DEF EncodedInv, itr
  <1>6. CASE /\ Returned(chop_string(lines[itr + 1]))
             /\ inst_lengths' = Append(inst_lengths, 4) /\ UNCHANGED pc
             /\ \E inst :
                  /\ Returned(inst) /\ prog' = prog \o LittleEndian(inst.val)
                  /\ strayed' = Append(strayed, inst # assemble(chop_string(lines[itr + 1]).val, asm_pc,
                                                                jump_syms, NoStrays))
    <2> DEFINE clean == assemble(chop_string(lines[itr + 1]).val, asm_pc, jump_syms, NoStrays)
    <2>1. PICK inst : Returned(inst) /\ prog' = prog \o LittleEndian(inst.val)
                      /\ strayed' = Append(strayed, inst # clean)
      BY <1>6
    <2>2. itr' = itr + 1
      BY <1>2, <1>6, AppendProperties DEF itr
    <2>3. /\ Listed(strayed') /\ Len(strayed') = itr'
          /\ strayed'[itr + 1] = (inst # clean) /\ \A k \in 1 .. itr : strayed'[k] = strayed[k]
      <3> DEFINE e == (inst # clean)
      <3> HIDE DEF e
      <3>1. strayed' = Append(strayed, e)
        BY <2>1 DEF e
      <3>2. /\ Listed(strayed') /\ Len(strayed') = itr + 1
            /\ strayed'[itr + 1] = e /\ \A k \in 1 .. itr : strayed'[k] = strayed[k]
        BY <1>2, <3>1, AppendElements, AppendLength
      <3> QED
        BY <2>2, <3>2 DEF e
    <2>4. /\ \A i \in 1 .. 4 * itr : prog'[i] = prog[i]
          /\ \A n \in 1 .. 4 : prog'[4 * itr + n] = get_nth_byte(inst.val, n - 1)
      <3>1. Listed(prog) /\ Len(prog) = 4 * itr
        BY <1>2
      <3>2. /\ \A i \in 1 .. Len(prog) : prog'[i] = prog[i]
            /\ \A n \in 1 .. 4 : prog'[Len(prog) + n] = get_nth_byte(inst.val, n - 1)
        BY <2>1, <3>1, FourElements, Zenon
      <3> QED
        BY <3>1, <3>2, Zenon
    <2>5. ASSUME NEW k \in 1 .. itr PROVE Encoded(k)'
      <3>1. \A n \in 1 .. 4 : 4 * (k - 1) + n \in 1 .. 4 * itr
        BY <1>2
      <3>2. Encoded(k)
        BY <1>2
      <3> QED
        BY <1>1, <2>3, <2>4, <3>1, <3>2 DEF Encoded
    <2> PICK j \in Nat : j = itr + 1
      BY <1>2
    <2>6. Encoded(j)'
      <3>1. 4 * ((itr + 1) - 1) = asm_pc /\ 4 * itr = asm_pc
        BY <1>2
      <3>2. ASSUME ~strayed'[j]
            PROVE  Returned(clean) /\ \A n \in 1 .. 4 : prog'[4 * itr + n] = get_nth_byte(clean.val, n - 1)
        <4>1. inst = clean
          BY <2>3, <3>2, Zenon
        <4> QED
          BY <2>1, <2>4, <4>1, Zenon
      <3>3. 4 * (j - 1) = 4 * itr /\ 4 * (j - 1) = asm_pc
        BY <3>1
      <3>4. lines'[j] = lines[itr + 1] /\ jump_syms' = jump_syms /\ Returned(chop_string(lines'[j]))
        BY <1>1, <1>6, Zenon
      <3>5. ~strayed'[j] =>
              /\ Returned(assemble(chop_string(lines'[j]).val, 4 * (j - 1), jump_syms', NoStrays))
              /\ \A n \in 1 .. 4 : prog'[4 * (j - 1) + n] =
                   get_nth_byte(assemble(chop_string(lines'[j]).val, 4 * (j - 1), jump_syms', NoStrays).val, n - 1)
        BY <3>2, <3>3, <3>4, Zenon
      <3> QED
        BY <3>4, <3>5, Zenon DEF Encoded
    <2>7. \A k \in 1 .. itr' : Encoded(k)'
      <3>1. \A k \in 1 .. itr' : k \in 1 .. itr \/ k = j
        BY <1>2, <2>2
      <3> QED
        BY <2>5, <2>6, <3>1, Zenon
    <2> QED
      BY <1>3, <2>3, <2>7 DEF EncodedInv
  <1> QED
    BY <1>4, <1>5, <1>6, AsmFlashMoves

LEMMA EncodedKept ==
  ASSUME CountsInv, EncodedInv, [Next]_vars
  PROVE  EncodedInv'
  <1>1. CASE AsmFlash
    BY <1>1, EncodedStep
  <1>2. CASE Start \/ SymbolsError \/ SkipLine \/ TakeLine \/ EndPass1
    <2>1. pc \in {"start", "pass 1"} /\ UNCHANGED pass2Vars
      BY <1>2, Zenon DEF Start, SymbolsError, SkipLine, TakeLine, EndPass1, NextLine
    <2>2. itr = 0 /\ UNCHANGED <<inst_lengths, strayed>>
      BY <2>1 DEF EncodedInv, pass2Vars
    <2>3. \A k : k \notin 1 .. itr'
      BY <2>2 DEF itr
    <2> QED
      BY <2>2, <2>3 DEF EncodedInv, Listed, itr
  <1>3. CASE EndPass2 \/ OpenOutput \/ WriteInst \/ FinishOutput \/ UNCHANGED vars
    <2>1. UNCHANGED <<lines, jump_syms, pass2Vars>>
      BY <1>3, Zenon DEF EndPass2, OpenOutput, WriteInst, FinishOutput, vars, pass1Vars
    <2>2. /\ pc' \in {"start", "pass 1"} => pc' = pc
          /\ pc' # "terminated" => pc # "terminated"
      BY <1>3 DEF EndPass2, OpenOutput, WriteInst, FinishOutput, Stop, vars
    <2>3. UNCHANGED <<prog, inst_lengths, strayed>>
      BY <2>1 DEF pass2Vars
    <2> QED
      BY <2>1, <2>2, <2>3 DEF EncodedInv, Encoded, Listed, itr
  <1> QED
    BY <1>1, <1>2, <1>3 DEF Next

(* The bytes of the program put together are the instruction they were.    *)
LEMMA WordRead ==
  ASSUME NEW k \in Nat \ {0}, NEW w,
         \A n \in 1 .. 4 : prog[4 * (k - 1) + n] = get_nth_byte(w, n - 1), NEW x \in 0 .. 31
  PROVE  x \in Word(k) <=> x \in w
  <1>1. x \in Word(k) <=> \E n \in 1 .. 4 : x \in Field(get_nth_byte(w, n - 1), 8, 8 * (n - 1))
    BY Zenon DEF Word
  <1>2. ASSUME NEW n \in 1 .. 4
        PROVE  x \in Field(get_nth_byte(w, n - 1), 8, 8 * (n - 1))
                 <=> x \in 8 * (n - 1) .. 8 * (n - 1) + 7 /\ x \in w
    <2>1. n - 1 \in 0 .. 3 /\ x \in Int
      OBVIOUS
    <2> QED
      BY <2>1, ByteIsPart
  <1>3. \E n \in 1 .. 4 : x \in 8 * (n - 1) .. 8 * (n - 1) + 7
    <2>1. x \in 0 .. 7 \/ x \in 8 .. 15 \/ x \in 16 .. 23 \/ x \in 24 .. 31
      OBVIOUS
    <2>2. x \in 0 .. 7 => x \in 8 * (1 - 1) .. 8 * (1 - 1) + 7
      OBVIOUS
    <2>3. x \in 8 .. 15 => x \in 8 * (2 - 1) .. 8 * (2 - 1) + 7
      OBVIOUS
    <2>4. x \in 16 .. 23 => x \in 8 * (3 - 1) .. 8 * (3 - 1) + 7
      OBVIOUS
    <2>5. x \in 24 .. 31 => x \in 8 * (4 - 1) .. 8 * (4 - 1) + 7
      OBVIOUS
    <2>6. 1 \in 1 .. 4 /\ 2 \in 1 .. 4 /\ 3 \in 1 .. 4 /\ 4 \in 1 .. 4
      OBVIOUS
    <2> QED
      BY <2>1, <2>2, <2>3, <2>4, <2>5, <2>6, Zenon
  <1> QED
    BY <1>1, <1>2, <1>3, Zenon

(* A kept line without stray digits is read back.                          *)
LEMMA EncodedRead ==
  ASSUME StringsAreSequences, SourceInv, NEW k \in Nat \ {0}, k <= Len(lines), Encoded(k), ~strayed[k]
  PROVE  LET a == chop_string(lines[k]).val
         IN  IF a = <<>> THEN opcodeOf(Word(k)) = "halt" ELSE Means(a, Word(k), k)
  <1> DEFINE a == chop_string(lines[k]).val
             inst == assemble(a, 4 * (k - 1), jump_syms, NoStrays)
             W == Word(k)
  <1>1. a \in Seq(STRING)
    <2>1. lines[k] \in STRING
      <3>1. Len(lines) \in Nat /\ k \in 1 .. Len(lines)
        BY LenProperties DEF SourceInv
      <3> QED
        BY <3>1, ElementOfSeq DEF SourceInv
    <2> QED
      BY <2>1, ChopType DEF Encoded
  <1>2. Returned(inst) /\ \A n \in 1 .. 4 : prog[4 * (k - 1) + n] = get_nth_byte(inst.val, n - 1)
    BY Zenon DEF Encoded
  <1> HIDE DEF a
  <1>3. \A x \in 0 .. 31 : x \in W <=> x \in inst.val
    <2> DEFINE w == inst.val
    <2>1. \A n \in 1 .. 4 : prog[4 * (k - 1) + n] = get_nth_byte(w, n - 1)
      BY <1>2
    <2> HIDE DEF w, inst
    <2>2. \A x \in 0 .. 31 : x \in Word(k) <=> x \in w
      BY <2>1, WordRead
    <2> QED
      BY <2>2, Zenon DEF w
  <1>4. CASE a = <<>>
    <2>1. inst.val = {}
      BY <1>4, Results, Zenon DEF assemble
    <2> HIDE DEF inst, W
    <2>2. opcodeOf(W) = "halt"
      BY <1>3, <2>1, ZeroRead
    <2> QED
      BY <1>4, <2>2, Zenon DEF W, a
  <1>5. CASE a # <<>>
    <2>1. AssembledTo(a, 4 * (k - 1), jump_syms, W)
      BY <1>2, <1>3, Zenon DEF AssembledTo
    <2> HIDE DEF inst, W
    <2>2. \A l \in DOMAIN jump_syms : jump_syms[l] \in Int
      BY DEF SourceInv
    <2>3. Means(a, W, k)
      BY <1>1, <1>5, <2>1, <2>2, MeansHolds
    <2> QED
      BY <1>5, <2>3, Zenon DEF W, a
  <1> QED
    BY <1>4, <1>5

THEOREM InstructionsRoundTripHolds ==
  ASSUME StringsAreSequences
  PROVE  Spec => []InstructionsRoundTrip
  <1>1. Init => CountsInv /\ TablesInv /\ SourceInv /\ EncodedInv
    BY Initially, SourceInit
  <1>2. CountsInv /\ TablesInv /\ SourceInv /\ EncodedInv /\ [Next]_vars
          => (CountsInv /\ TablesInv /\ SourceInv /\ EncodedInv)'
    BY CountsStep, SourceStep, EncodedKept
  <1>3. ASSUME CountsInv, SourceInv, EncodedInv PROVE InstructionsRoundTrip
    <2> SUFFICES ASSUME pc = "open", NEW k \in 1 .. itr, ~strayed[k]
                 PROVE  LET a == chop_string(lines[k]).val
                        IN  IF a = <<>> THEN opcodeOf(Word(k)) = "halt" ELSE Means(a, Word(k), k)
      BY Zenon DEF InstructionsRoundTrip
    <2>1. k \in Nat \ {0} /\ k <= Len(lines)
      BY <1>3, LenProperties DEF CountsInv, Listed, itr
    <2>2. Encoded(k)
      BY <1>3 DEF EncodedInv
    <2> QED
      BY <1>3, <2>1, <2>2, EncodedRead, Zenon
  <1> QED
    BY <1>1, <1>2, <1>3, PTL DEF Spec

-----------------------------------------------------------------------------
(* Counting the places in a text *)

Under(S, n) == {x \in S : x < n}

LEMMA CountBelow ==
  ASSUME NEW S, S \subseteq Nat, IsFiniteSet(S), NEW n \in Nat
  PROVE  /\ Cardinality(Under(S, n)) \in Nat /\ Cardinality(Under(S, n)) <= Cardinality(S)
         /\ Cardinality(Under(S, n + 1)) = Cardinality(Under(S, n)) + (IF n \in S THEN 1 ELSE 0)
         /\ n \in S => Cardinality(Under(S, n)) < Cardinality(S)
  <1>1. Under(S, n) \subseteq S /\ Under(S, n + 1) \subseteq S
    BY DEF Under
  <1>2. /\ IsFiniteSet(Under(S, n)) /\ Cardinality(Under(S, n)) <= Cardinality(S)
        /\ IsFiniteSet(Under(S, n + 1)) /\ Cardinality(Under(S, n + 1)) <= Cardinality(S)
    BY <1>1, FS_Subset
  <1>3. Cardinality(Under(S, n)) \in Nat /\ Cardinality(S) \in Nat
    BY <1>2, FS_CardinalityType
  <1>4. CASE n \in S
    <2>0. \A x \in S : x < n + 1 <=> x < n \/ x = n
      OBVIOUS
    <2>1. Under(S, n + 1) = Under(S, n) \cup {n} /\ n \notin Under(S, n)
      <3>1. ~(n < n)
        OBVIOUS
      <3>2. n \notin Under(S, n)
        BY <3>1, Zenon DEF Under
      <3>3. \A x : x \in Under(S, n + 1) <=> x \in Under(S, n) \cup {n}
        BY <1>4, <2>0, Zenon DEF Under
      <3> HIDE DEF Under
      <3> QED
        BY <3>2, <3>3
    <2>2. Cardinality(Under(S, n) \cup {n}) = Cardinality(Under(S, n)) + 1
      BY <1>2, <2>1, FS_AddElement
    <2> DEFINE a == Cardinality(Under(S, n))
               b == Cardinality(Under(S, n + 1))
               c == Cardinality(S)
    <2>3. a \in Nat /\ c \in Nat /\ a <= c /\ b = a + 1 /\ b <= c
      BY <1>2, <1>3, <2>1, <2>2, Zenon
    <2> HIDE DEF a, b, c
    <2>4. a < c
      BY <2>3
    <2> QED
      BY <1>4, <2>3, <2>4, Zenon DEF a, b, c
  <1>5. CASE n \notin S
    <2>0. \A x \in S : x < n + 1 <=> x < n
      BY <1>5
    <2>1. Under(S, n + 1) = Under(S, n)
      BY <2>0, Zenon DEF Under
    <2>2. Cardinality(Under(S, n)) = Cardinality(Under(S, n)) + 0
      BY <1>3
    <2> QED
      BY <1>2, <1>3, <1>5, <2>1, <2>2, Zenon
  <1> QED
    BY <1>4, <1>5, Zenon

LEMMA CountMore ==
  ASSUME NEW S, S \subseteq Nat, IsFiniteSet(S), NEW m \in Nat, NEW n \in Nat, m <= n
  PROVE  /\ Cardinality(Under(S, m)) <= Cardinality(Under(S, n))
         /\ m \in S /\ m < n => Cardinality(Under(S, m)) < Cardinality(Under(S, n))
  <1>1. Under(S, n) \subseteq Nat /\ Under(S, n) \subseteq S
    BY DEF Under
  <1>2. IsFiniteSet(Under(S, n))
    BY <1>1, FS_Subset
  <1>3. Under(Under(S, n), m) = Under(S, m) /\ (m \in S /\ m < n => m \in Under(S, n))
    <2>1. \A x \in S : x < m => x < n
      OBVIOUS
    <2> QED
      BY <2>1, Zenon DEF Under
  <1> QED
    BY <1>1, <1>2, <1>3, CountBelow

IsNext(E, at, e, n) ==
  /\ n - 1 \in Nat /\ n \in 1 .. Cardinality(E)
  /\ Cardinality({d \in E : d <= e}) = n
  /\ (CHOOSE x \in E : Cardinality({d \in E : d < x}) = n - 1) = e
  /\ Max({0} \cup {d \in E : d < e}) = at

(* The place behind another, and the number of places before it.           *)
LEMMA NextPlace ==
  ASSUME NEW E, E \subseteq Nat \ {0}, IsFiniteSet(E), NEW at \in {0} \cup E,
         NEW e \in E, at < e, \A d \in E : at < d => e <= d,
         NEW n, n = Cardinality({d \in E : d <= at}) + 1
  PROVE  IsNext(E, at, e, n)
  <1> DEFINE c(x) == Cardinality(Under(E, x))
  <1>1. E \subseteq Nat /\ e \in Nat /\ at \in Nat
    OBVIOUS
  <1>2. \A x \in Nat : {d \in E : d <= x} = Under(E, x + 1)
    <2>1. \A x \in Nat : \A d \in E : d <= x <=> d < x + 1
      BY <1>1
    <2> QED
      BY <2>1, Zenon DEF Under
  <1>3. {d \in E : d < e} = {d \in E : d <= at}
    <2>1. ASSUME NEW d \in E PROVE d < e <=> d <= at
      BY <1>1
    <2> QED
      BY <2>1, Zenon
  <1>4. \A x : {d \in E : d < x} = Under(E, x)
    BY Zenon DEF Under
  <1>5. n = c(e) + 1 /\ Cardinality({d \in E : d <= e}) = c(e + 1)
    BY <1>1, <1>2, <1>3, <1>4, Zenon
  <1>6. c(e) \in Nat /\ c(e + 1) = c(e) + 1 /\ c(e) < Cardinality(E)
    BY <1>1, CountBelow
  <1>7. Cardinality(E) \in Nat
    BY FS_CardinalityType
  <1>8. ASSUME NEW x \in E, c(x) = c(e) PROVE x = e
    <2>1. x \in Nat
      BY <1>1
    <2>2. c(x) \in Nat /\ (x <= e => (x < e => c(x) < c(e))) /\ (e <= x => (e < x => c(e) < c(x)))
      BY <1>1, <2>1, CountBelow, CountMore
    <2> HIDE DEF c
    <2> QED
      BY <1>1, <1>6, <1>8, <2>1, <2>2
  <1> HIDE DEF c
  <1>9. n - 1 = c(e) /\ n \in 1 .. Cardinality(E) /\ n - 1 \in Nat /\ c(e + 1) = n
    BY <1>5, <1>6, <1>7
  <1>10. (CHOOSE x \in E : Cardinality({d \in E : d < x}) = n - 1) = e
    <2> DEFINE P(x) == Cardinality({d \in E : d < x}) = n - 1
    <2>1. \A x : P(x) <=> c(x) = n - 1
      BY <1>4, Zenon DEF c
    <2>2. P(e)
      BY <1>9, <2>1, Zenon
    <2> HIDE DEF P
    <2>3. P(CHOOSE x \in E : P(x)) /\ (CHOOSE x \in E : P(x)) \in E
      BY <2>2, Zenon
    <2>4. (CHOOSE x \in E : P(x)) = e
      BY <1>8, <1>9, <2>1, <2>3, Zenon
    <2> QED
      BY <2>4, Zenon DEF P
  <1>11. Max({0} \cup {d \in E : d < e}) = at
    <2> DEFINE S == {0} \cup {d \in E : d <= at}
    <2>1. at \in S /\ \A y \in S : at >= y
      BY <1>1
    <2>2. S \subseteq Nat
      <3>1. 0 \in Nat
        OBVIOUS
      <3> QED
        BY <1>1, <3>1, Zenon
    <2>3. Max({0} \cup {d \in E : d < e}) = CHOOSE x \in S : \A y \in S : x >= y
      BY <1>3, Zenon DEF Max
    <2> HIDE DEF S
    <2> DEFINE P(x) == \A y \in S : x >= y
               q == CHOOSE x \in S : P(x)
    <2>4. P(at)
      BY <2>1, Zenon
    <2> HIDE DEF P
    <2>5. q \in S /\ P(q)
      BY <2>1, <2>4, Zenon
    <2> HIDE DEF q
    <2>6. q >= at /\ at >= q
      BY <2>1, <2>5, Zenon DEF P
    <2>7. q = at
      BY <1>1, <2>1, <2>2, <2>5, <2>6
    <2> QED
      BY <2>3, <2>7, Zenon DEF q, P
  <1> QED
    BY <1>5, <1>9, <1>10, <1>11, Zenon DEF IsNext

LEMMA LeastIs ==
  ASSUME NEW S, S \subseteq Nat, NEW x \in S, \A y \in S : x <= y
  PROVE  Min(S) = x
  <1> DEFINE q == Min(S)
  <1>1. q \in S /\ \A y \in S : q <= y
    BY LeastIn, Zenon
  <1> HIDE DEF q
  <1>2. q = x
    BY <1>1
  <1> QED
    BY <1>2, Zenon DEF q

(* A part of a part of a text, by the places where they end.               *)
CutsAt(s, at, to) ==
  /\ SubSeq(s, at + 1, to) \in STRING /\ Len(SubSeq(s, at + 1, to)) = to - at
  /\ \A k, l \in Nat : k <= l /\ at + l <= to =>
       SubSeq(SubSeq(s, at + 1, to), k + 1, l) = SubSeq(s, at + k + 1, at + l)

LEMMA PartFrom ==
  ASSUME StringsAreSequences, NEW s \in STRING, NEW at \in Nat, NEW to \in Nat, at <= to, to <= Len(s)
  PROVE  CutsAt(s, at, to)
  <1> DEFINE i == at + 1
  <1>1. i \in Nat \ {0} /\ to \in Int /\ i <= to + 1 /\ to - i + 1 = to - at
    OBVIOUS
  <1>2. ASSUME NEW k \in Nat, NEW l \in Nat, k <= l, at + l <= to
        PROVE  k + 1 \in Nat \ {0} /\ l \in Int /\ l <= to - i + 1 /\ k + 1 <= l + 1
               /\ i + (k + 1) - 1 = at + k + 1 /\ i + l - 1 = at + l
    BY <1>2
  <1> HIDE DEF i
  <1>3. /\ SubSeq(s, i, to) \in STRING /\ Len(SubSeq(s, i, to)) = to - i + 1
        /\ \A a \in Nat \ {0} : \A b \in Int : b <= to - i + 1 /\ a <= b + 1 =>
             SubSeq(SubSeq(s, i, to), a, b) = SubSeq(s, i + a - 1, i + b - 1)
    BY <1>1, TextParts, Zenon
  <1>4. ASSUME NEW k \in Nat, NEW l \in Nat, k <= l, at + l <= to
        PROVE  SubSeq(SubSeq(s, i, to), k + 1, l) = SubSeq(s, at + k + 1, at + l)
    <2> DEFINE m == k + 1
    <2>1. m \in Nat \ {0} /\ l \in Int /\ l <= to - i + 1 /\ m <= l + 1
          /\ i + m - 1 = at + k + 1 /\ i + l - 1 = at + l
      BY <1>2, <1>4, Zenon
    <2> HIDE DEF m
    <2>2. SubSeq(SubSeq(s, i, to), m, l) = SubSeq(s, i + m - 1, i + l - 1)
      BY <1>3, <2>1, Zenon
    <2>3. SubSeq(SubSeq(s, i, to), m, l) = SubSeq(s, at + k + 1, at + l)
      BY <2>1, <2>2, Zenon
    <2> QED
      BY <2>3, Zenon DEF m
  <1> QED
    BY <1>1, <1>3, <1>4, Zenon DEF i, CutsAt

EndsLine(s) == Len(s) \in Newlines(s)
LinesFit(s) == \A m \in 1 .. Cardinality(LineEnds(s)) : Len(LineOf(s, m)) <= LineMax
Behind(s, at) == SubSeq(s, at + 1, Len(s))
Place(s, at) == at \in {0} \cup LineEnds(s)
EndsUpTo(s, at) == Cardinality({d \in LineEnds(s) : d <= at})

ReadsAs(s, rest, n) ==
  /\ n - 1 \in Nat /\ n \in 1 .. Cardinality(LineEnds(s))
  /\ fgets(rest) = LineOf(s, n)
  /\ LineOf(s, n) \in STRING /\ Len(LineOf(s, n)) > 0 /\ LastOf(LineOf(s, n)) = Newline
  /\ \E e \in LineEnds(s) :
       /\ SubSeq(rest, Len(fgets(rest)) + 1, Len(rest)) = Behind(s, e)
       /\ EndsUpTo(s, e) = n

(* What fgets reads at the end of a line, if its buffer holds the next.    *)
LEMMA LineAhead ==
  ASSUME StringsAreSequences, NEW s \in STRING, EndsLine(s), LinesFit(s),
         NEW at, Place(s, at), NEW rest, rest = Behind(s, at), rest # NoText,
         NEW n, n = EndsUpTo(s, at) + 1
  PROVE  ReadsAs(s, rest, n)
  <1> DEFINE L == Len(s)
             E == LineEnds(s)
             A == {d \in E : at < d}
             e == Min(A)
             w == e - at
             S == {Len(rest), LineMax} \cup {i \in 1 .. Len(rest) : SubSeq(rest, i, i) = Newline}
  <1>1. L \in Nat
    BY TextLaws, Zenon
  <1>2. E = Newlines(s)
    <2>1. \A x, y : x \in y => y \cup {x} = y
      OBVIOUS
    <2> QED
      BY <2>1, Zenon DEF LineEnds, EndsLine
  <1>3. Newlines(s) = {i \in 1 .. L : SubSeq(s, i, i) = Newline}
    BY Zenon DEF Newlines, Newline
  <1> HIDE DEF L, E, A, e, w, S
  <1>4. E \subseteq 1 .. L /\ L \in E /\ at \in {0} \cup E /\ \A i \in 1 .. L : i \in E <=> SubSeq(s, i, i) = Newline
    BY <1>2, <1>3, Zenon DEF L, E, EndsLine, Place
  <1>5. E \subseteq Nat \ {0} /\ at \in 0 .. L /\ at \in Nat
    BY <1>1, <1>4
  <1>6. IsFiniteSet(E)
    <2>1. IsFiniteSet(1 .. L)
      BY <1>1, FS_Interval
    <2> QED
      BY <1>4, <2>1, FS_Subset
  <1>7. rest = SubSeq(s, at + 1, L)
    BY Zenon DEF L, Behind
  <1>8. L <= Len(s) /\ at <= L /\ 0 \in Nat
    <2>1. L <= L /\ at <= L /\ 0 \in Nat
      BY <1>1, <1>5
    <2> QED
      BY <2>1, Zenon DEF L
  <1>9. rest \in STRING /\ Len(rest) = L - at
    <2>1. CutsAt(s, at, L)
      <3>1. at \in Nat
        BY <1>5
      <3> QED
        BY <1>1, <1>8, <3>1, PartFrom, Zenon
    <2> QED
      BY <1>7, <2>1, Zenon DEF CutsAt
  <1>10. at < L
    <2>1. ASSUME at = L PROVE Len(rest) = 0
      <3>1. L - L = 0
        BY <1>1
      <3> QED
        BY <1>9, <2>1, <3>1, Zenon
    <2>2. at # L
      BY <1>9, <2>1, EmptyIs, Zenon DEF NoText
    <2> QED
      BY <1>1, <1>5, <2>2
  <1>11. e \in A /\ \A y \in A : e <= y
    <2>1. A \subseteq Nat /\ A # {}
      BY <1>4, <1>5, <1>10, Zenon DEF A
    <2> QED
      BY <2>1, LeastIn, Zenon DEF e
  <1>12. e \in E /\ at < e /\ \A d \in E : at < d => e <= d
    BY <1>11, Zenon DEF A
  <1>a. w = e - at
    BY Zenon DEF w
  <1>13. e \in 1 .. L /\ e \in Nat /\ e <= L /\ w \in Nat /\ w <= L - at /\ at + w = e /\ w \in 1 .. L - at
         /\ at + (L - at) = L /\ w > 0
    BY <1>1, <1>4, <1>5, <1>a, <1>12
  <1>14. /\ n - 1 \in Nat /\ n \in 1 .. Cardinality(E)
         /\ Cardinality({d \in E : d <= e}) = n
         /\ (CHOOSE x \in E : Cardinality({d \in E : d < x}) = n - 1) = e
         /\ Max({0} \cup {d \in E : d < e}) = at
    <2>1. n = Cardinality({d \in E : d <= at}) + 1
      BY Zenon DEF E, EndsUpTo
    <2> QED
      <3>1. E \subseteq Nat \ {0} /\ at \in {0} \cup E
        BY <1>4, <1>5, Zenon
      <3>2. e \in E /\ at < e
        BY <1>12, Zenon
      <3>3. \A d \in E : at < d => e <= d
        BY <1>12, Zenon
      <3>4. IsNext(E, at, e, n)
        BY <1>6, <2>1, <3>1, <3>2, <3>3, NextPlace, Zenon
      <3> QED
        BY <3>4, Zenon DEF IsNext
  <1>15. LineOf(s, n) = SubSeq(s, at + 1, e)
    BY <1>14, Zenon DEF LineOf, E
  <1>16. LineOf(s, n) \in STRING /\ Len(LineOf(s, n)) = w
    <2>1. at <= e
      BY <1>5, <1>12, <1>13
    <2>2. e <= Len(s)
      BY <1>13, Zenon DEF L
    <2> QED
      BY <1>5, <1>13, <1>15, <2>1, <2>2, PartFrom, Zenon DEF w, CutsAt
  <1>17. w <= LineMax
    BY <1>14, <1>16, Zenon DEF E, LinesFit
  (* The characters of the rest, seen from the whole text.                 *)
  <1>18. ASSUME NEW k \in Nat, NEW l \in Nat, k <= l, l <= L - at
         PROVE  SubSeq(rest, k + 1, l) = SubSeq(s, at + k + 1, at + l)
    <2>1. at + l <= L
      BY <1>1, <1>5, <1>18
    <2>2. \A a, b \in Nat : a <= b /\ at + b <= L =>
            SubSeq(SubSeq(s, at + 1, L), a + 1, b) = SubSeq(s, at + a + 1, at + b)
      <3>1. at \in Nat /\ L \in Nat
        BY <1>1, <1>5
      <3>2. at <= L /\ L <= Len(s)
        BY <1>8, Zenon
      <3>3. CutsAt(s, at, L)
        BY <3>1, <3>2, PartFrom, Zenon
      <3> QED
        BY <3>3, Zenon DEF CutsAt
    <2> QED
      BY <1>7, <1>18, <2>1, <2>2, Zenon
  <1>19. \A i \in 1 .. L - at : SubSeq(rest, i, i) = SubSeq(s, at + i, at + i)
    <2> SUFFICES ASSUME NEW i \in 1 .. L - at PROVE SubSeq(rest, i, i) = SubSeq(s, at + i, at + i)
      BY Zenon
    <2> DEFINE k == i - 1
    <2>1. k \in Nat /\ i \in Nat /\ k <= i /\ i <= L - at /\ k + 1 = i /\ at + k + 1 = at + i
      BY <1>1, <1>5
    <2> HIDE DEF k
    <2> QED
      BY <1>18, <2>1, Zenon
  <1>20. Min(S) = w
    <2> USE DEF S
    <2>1. S \subseteq Nat
      <3>1. L - at \in Nat /\ \A i \in 1 .. L - at : i \in Nat
        BY <1>1, <1>5
      <3>2. LineMax \in Nat
        BY LineMaxAssumption
      <3> QED
        BY <1>9, <3>1, <3>2, Zenon
    <2>2. w \in S
      <3>1. SubSeq(rest, w, w) = Newline
        BY <1>4, <1>12, <1>13, <1>19, Zenon
      <3> QED
        BY <1>9, <1>13, <3>1, Zenon
    <2>3. ASSUME NEW y \in S PROVE w <= y
      <3>1. CASE y = Len(rest)
        BY <1>9, <1>13, <3>1, Zenon
      <3>2. CASE y = LineMax
        BY <1>17, <3>2, Zenon
      <3>3. CASE y \in 1 .. Len(rest) /\ SubSeq(rest, y, y) = Newline
        <4>1. y \in 1 .. L - at /\ y \in Nat
          <5>1. y \in 1 .. L - at
            BY <1>9, <3>3, Zenon
          <5> QED
            BY <5>1
        <4>2. at + y \in 1 .. L /\ at < at + y
          BY <1>1, <1>5, <4>1
        <4>3. e <= at + y
          BY <1>4, <1>12, <1>19, <3>3, <4>1, <4>2, Zenon
        <4> QED
          BY <1>5, <1>13, <4>1, <4>3
      <3> QED
        BY <3>1, <3>2, <3>3, Zenon
    <2> HIDE DEF S
    <2> QED
      BY <2>1, <2>2, <2>3, LeastIs, Zenon
  <1>21. fgets(rest) = SubSeq(rest, 1, w)
    BY <1>20, Zenon DEF fgets, Newline, S
  <1>22. fgets(rest) = LineOf(s, n)
    <2>1. SubSeq(rest, 0 + 1, w) = SubSeq(s, at + 0 + 1, at + w)
      <3>1. 0 <= w
        BY <1>13
      <3> QED
        BY <1>8, <1>13, <1>18, <3>1, Zenon
    <2>2. 0 + 1 = 1 /\ at + 0 + 1 = at + 1
      BY <1>5
    <2> QED
      BY <1>13, <1>15, <1>21, <2>1, <2>2, Zenon
  <1>23. SubSeq(rest, w + 1, Len(rest)) = SubSeq(s, e + 1, L)
    <2>1. SubSeq(rest, w + 1, L - at) = SubSeq(s, at + w + 1, at + (L - at))
      <3>1. L - at \in Nat /\ L - at <= L - at
        BY <1>1, <1>5, <1>8
      <3> QED
        BY <1>13, <1>18, <3>1, Zenon
    <2>2. SubSeq(rest, w + 1, Len(rest)) = SubSeq(s, (at + w) + 1, L)
      BY <1>9, <1>13, <2>1, Zenon
    <2> QED
      BY <1>13, <2>2, Zenon
  <1>24. LastOf(LineOf(s, n)) = Newline
    <2>1. LastOf(LineOf(s, n)) = SubSeq(LineOf(s, n), w, w)
      BY <1>16, Zenon DEF LastOf
    <2> DEFINE k == w - 1
    <2>2. k \in Nat /\ k <= w /\ k + 1 = w /\ at + k + 1 = e /\ at <= e /\ at + w <= e
      BY <1>5, <1>12, <1>13
    <2>a. e <= Len(s)
      BY <1>13, Zenon DEF L
    <2> HIDE DEF k
    <2>b. \A a, b \in Nat : a <= b /\ at + b <= e =>
            SubSeq(SubSeq(s, at + 1, e), a + 1, b) = SubSeq(s, at + a + 1, at + b)
      <3>1. at \in Nat /\ e \in Nat /\ at <= e
        BY <1>5, <1>13, <2>2
      <3>2. CutsAt(s, at, e)
        BY <2>a, <3>1, PartFrom, Zenon
      <3> QED
        BY <3>2, Zenon DEF CutsAt
    <2>3. SubSeq(SubSeq(s, at + 1, e), k + 1, w) = SubSeq(s, at + k + 1, at + w)
      BY <1>13, <2>2, <2>b, Zenon
    <2>4. SubSeq(LineOf(s, n), w, w) = SubSeq(s, e, e)
      BY <1>13, <1>15, <2>2, <2>3, Zenon
    <2> QED
      BY <1>4, <1>12, <1>13, <2>1, <2>4, Zenon
  <1> QED
    BY <1>12, <1>13, <1>14, <1>16, <1>22, <1>23, <1>24, Zenon DEF L, E, Behind, EndsUpTo, ReadsAs

-----------------------------------------------------------------------------
(* What a line says does not change                                        *)

LEMMA RunSame ==
  ASSUME run' = run
  PROVE  /\ LineCount' = LineCount /\ CodeLines' = CodeLines /\ (PlainSource' <=> PlainSource)
         /\ \A n : /\ Words(n)' = Words(n) /\ (IsLabelled(n)' <=> IsLabelled(n))
                   /\ Instruction(n)' = Instruction(n) /\ (PlainLabel(n)' <=> PlainLabel(n))
                   /\ CodeBefore(n)' = CodeBefore(n)
  <1>1. LineCount' = LineCount
    BY Zenon DEF LineCount
  <1>2. \A n : SourceLine(n)' = SourceLine(n)
    BY Zenon DEF SourceLine
  <1>3. \A n : Words(n)' = Words(n)
    BY <1>2, Zenon DEF Words
  <1>4. \A n : IsLabelled(n)' <=> IsLabelled(n)
    BY <1>3, Zenon DEF IsLabelled
  <1>5. \A n : Instruction(n)' = Instruction(n)
    BY <1>3, <1>4, Zenon DEF Instruction
  <1>6. \A n : PlainLabel(n)' <=> PlainLabel(n)
    BY <1>3, <1>4, Zenon DEF PlainLabel
  <1>7. CodeLines' = CodeLines
    BY <1>1, <1>5, Zenon DEF CodeLines
  <1>8. \A n : CodeBefore(n)' = CodeBefore(n)
    BY <1>7, Zenon DEF CodeBefore
  <1>9. PlainSource' <=> PlainSource
    BY <1>1, <1>2, Zenon DEF PlainSource
  <1> QED
    BY <1>1, <1>3, <1>4, <1>5, <1>6, <1>7, <1>8, <1>9, Zenon

LEMMA CodeCounts ==
  ASSUME run.source \in STRING, StringsAreSequences
  PROVE  /\ LineCount \in Nat /\ CodeLines \subseteq 1 .. LineCount
         /\ CodeBefore(1) = 0 /\ CodeBefore(LineCount + 1) = Cardinality(CodeLines)
         /\ \A n \in Nat : /\ CodeBefore(n) \in Nat
                           /\ CodeBefore(n + 1) = CodeBefore(n) + (IF n \in CodeLines THEN 1 ELSE 0)
         /\ \A m \in CodeLines : \A n \in Nat : m < n => CodeBefore(m) < CodeBefore(n)
  <1>1. IsFiniteSet(LineEnds(run.source))
    <2>1. Len(run.source) \in Nat
      BY TextLaws
    <2>2. IsFiniteSet(1 .. Len(run.source))
      BY <2>1, FS_Interval
    <2>3. Newlines(run.source) \subseteq 1 .. Len(run.source)
      BY Zenon DEF Newlines
    <2>4. IsFiniteSet(Newlines(run.source))
      BY <2>2, <2>3, FS_Subset
    <2> QED
      BY <2>4, FS_AddElement, Zenon DEF LineEnds
  <1>2. LineCount \in Nat
    BY <1>1, FS_CardinalityType DEF LineCount
  <1>3. CodeLines \subseteq 1 .. LineCount
    BY Zenon DEF CodeLines
  <1>4. CodeLines \subseteq Nat /\ IsFiniteSet(CodeLines)
    <2>1. IsFiniteSet(1 .. LineCount)
      BY <1>2, FS_Interval
    <2>2. \A x \in 1 .. LineCount : x \in Nat
      BY <1>2
    <2> QED
      BY <1>3, <2>1, <2>2, FS_Subset
  <1>5. \A n : CodeBefore(n) = Cardinality(Under(CodeLines, n))
    BY Zenon DEF CodeBefore, Under
  <1>6. Under(CodeLines, 1) = {} /\ Under(CodeLines, LineCount + 1) = CodeLines
    <2>1. \A x \in 1 .. LineCount : ~(x < 1) /\ x < LineCount + 1
      BY <1>2
    <2> QED
      BY <1>3, <2>1, Zenon DEF Under
  <1>7. CodeBefore(1) = 0 /\ CodeBefore(LineCount + 1) = Cardinality(CodeLines)
    BY <1>5, <1>6, FS_EmptySet, Zenon
  <1>8. ASSUME NEW n \in Nat
        PROVE  /\ CodeBefore(n) \in Nat
               /\ CodeBefore(n + 1) = CodeBefore(n) + (IF n \in CodeLines THEN 1 ELSE 0)
    BY <1>4, <1>5, CountBelow
  <1>9. ASSUME NEW m \in CodeLines, NEW n \in Nat, m < n PROVE CodeBefore(m) < CodeBefore(n)
    <2>1. m \in Nat /\ m <= n
      BY <1>4, <1>9
    <2> QED
      BY <1>4, <1>5, <1>9, <2>1, CountMore
  <1> QED
    BY <1>2, <1>3, <1>7, <1>8, <1>9, Zenon

-----------------------------------------------------------------------------
(* What a label adds to the tables                                         *)

Holds(seq, l) == \E i \in DOMAIN seq : seq[i] = l

LEMMA HoldsMore ==
  ASSUME NEW C, NEW q \in Seq(C), NEW key \in C
  PROVE  /\ Append(q, key) \in Seq(C) /\ Holds(Append(q, key), key)
         /\ \A l : Holds(q, l) => Holds(Append(q, key), l)
  <1> DEFINE n == Len(q)
             r == Append(q, key)
  <1>1. n \in Nat /\ DOMAIN q = 1 .. n
    BY LenProperties, Zenon
  <1>2. r \in Seq(C) /\ Len(r) = n + 1 /\ (\A i \in 1 .. n : r[i] = q[i]) /\ r[n + 1] = key
    BY AppendProperties
  <1> HIDE DEF n, r
  <1>3. DOMAIN r = 1 .. n + 1
    BY <1>2, LenProperties, Zenon
  <1>4. n + 1 \in 1 .. n + 1 /\ \A i \in 1 .. n : i \in 1 .. n + 1
    BY <1>1
  <1>5. \A l : Holds(q, l) => Holds(r, l)
    BY <1>1, <1>2, <1>3, <1>4, Zenon DEF Holds
  <1>6. Holds(r, key)
    BY <1>2, <1>3, <1>4, Zenon DEF Holds
  <1> QED
    BY <1>2, <1>5, <1>6, Zenon DEF r

LEMMA OneHeld ==
  ASSUME NEW C, NEW key \in C
  PROVE  <<key>> \in Seq(C) /\ Holds(<<key>>, key)
  <1>1. <<key>> \in Seq(C) /\ 1 \in DOMAIN <<key>> /\ <<key>>[1] = key
    OBVIOUS
  <1> QED
    BY <1>1, Zenon DEF Holds

(* A label's entries in the two tables.                                    *)
Entered(syms, at, l, a) ==
  /\ l \in DOMAIN syms /\ syms[l] = a
  /\ a \in DOMAIN at /\ Holds(at[a], l)

LEMMA LabelEntered ==
  ASSUME NEW key \in STRING, key \notin DOMAIN jump_syms, syms_insert(key),
         \A a \in DOMAIN PC_to_syms : PC_to_syms[a] \in Seq(STRING)
  PROVE  /\ \A l, a : Entered(jump_syms, PC_to_syms, l, a) => Entered(jump_syms', PC_to_syms', l, a)
         /\ Entered(jump_syms', PC_to_syms', key, equiv_pc)
         /\ \A a \in DOMAIN PC_to_syms' : PC_to_syms'[a] \in Seq(STRING)
  <1> DEFINE b == equiv_pc
             f == jump_syms
             g == PC_to_syms
             h == jump_syms'
             k == PC_to_syms'
  <1>1. DOMAIN h = DOMAIN f \cup {key} /\ h[key] = b /\ \A l \in DOMAIN f : h[l] = f[l]
    <2>1. h = [x \in DOMAIN f \cup {key} |-> IF x = key THEN b ELSE f[x]]
      BY Zenon DEF syms_insert, Put
    <2>2. \A l \in DOMAIN f : l # key
      BY Zenon
    <2> HIDE DEF h
    <2> QED
      BY <2>1, <2>2, Zenon
  <1>2. /\ DOMAIN k = DOMAIN g \cup {b} /\ Holds(k[b], key)
        /\ \A a \in DOMAIN g : \A l : Holds(g[a], l) => Holds(k[a], l)
        /\ \A a \in DOMAIN k : k[a] \in Seq(STRING)
    <2>1. CASE b \in DOMAIN g
      <3>1. k = [x \in DOMAIN g |-> IF x = b THEN Append(g[b], key) ELSE g[x]]
        <4>1. k = [g EXCEPT ![b] = Append(@, key)]
          BY <2>1, Zenon DEF syms_insert
        <4> HIDE DEF k, g, b
        <4> QED
          BY <4>1
      <3>2. DOMAIN g \cup {b} = DOMAIN g
        BY <2>1, Zenon
      <3>3. /\ Append(g[b], key) \in Seq(STRING) /\ Holds(Append(g[b], key), key)
            /\ \A l : Holds(g[b], l) => Holds(Append(g[b], key), l)
        BY <2>1, HoldsMore, Zenon
      <3>4. \A x \in DOMAIN g : g[x] \in Seq(STRING)
        BY Zenon
      <3> HIDE DEF k, g, b
      <3> QED
        BY <2>1, <3>1, <3>2, <3>3, <3>4, Zenon
    <2>2. CASE b \notin DOMAIN g
      <3>1. k = [x \in DOMAIN g \cup {b} |-> IF x = b THEN <<key>> ELSE g[x]]
        BY <2>2, Zenon DEF syms_insert, Put
      <3>2. <<key>> \in Seq(STRING) /\ Holds(<<key>>, key)
        BY OneHeld, Zenon
      <3>3. \A x \in DOMAIN g : g[x] \in Seq(STRING) /\ x # b
        BY <2>2, Zenon
      <3> HIDE DEF k, g, b
      <3> QED
        BY <3>1, <3>2, <3>3, Zenon
    <2> QED
      BY <2>1, <2>2, Zenon
  <1>3. ASSUME NEW l, NEW a, Entered(f, g, l, a) PROVE Entered(h, k, l, a)
    <2>1. l \in DOMAIN f /\ f[l] = a /\ a \in DOMAIN g /\ Holds(g[a], l)
      BY <1>3, Zenon DEF Entered
    <2>2. l \in DOMAIN h /\ h[l] = a /\ a \in DOMAIN k /\ Holds(k[a], l)
      <3> HIDE DEF f, g, h, k, b
      <3> QED
        BY <1>1, <1>2, <2>1, Zenon
    <2> QED
      BY <2>2, Zenon DEF Entered
  <1>4. key \in DOMAIN h /\ b \in DOMAIN k
    BY <1>1, <1>2, Zenon
  <1> QED
    BY <1>1, <1>2, <1>3, <1>4, Zenon DEF Entered

LabelKept(n) ==
  /\ LabelOf(Words(n)) \in DOMAIN jump_syms
  /\ jump_syms[LabelOf(Words(n))] \in DOMAIN PC_to_syms /\ IsResolved(n)

LEMMA LabelKeptIs ==
  ASSUME NEW n
  PROVE  LabelKept(n) <=> Entered(jump_syms, PC_to_syms, LabelOf(Words(n)), 4 * CodeBefore(n))
  <1> DEFINE l == LabelOf(Words(n))
             a == 4 * CodeBefore(n)
  <1>1. IsResolved(n) <=> jump_syms[l] = a /\ Holds(PC_to_syms[jump_syms[l]], l)
    BY Zenon DEF IsResolved, Holds
  <1> HIDE DEF a
  <1> QED
    BY <1>1, Zenon DEF LabelKept, Entered, a

-----------------------------------------------------------------------------
(* One line more                                                           *)

(* A kept line is behind the others, and the others stay.                  *)
LEMMA LineKept ==
  ASSUME StringsAreSequences, run.source \in STRING, CountsInv, TablesInv,
         Len(lines) = CodeBefore(line_number + 1),
         \A n \in CodeLines : n <= line_number => CodeBefore(n) < Len(lines) /\ IsKept(n),
         line_number + 1 \in CodeLines, run' = run, line_number' = line_number + 1,
         NEW text, KeepLine(text), lines \in Seq(STRING), pop_back(text) \in STRING,
         PlainLabel(line_number + 1) => chop_string(pop_back(text)) = Return(Instruction(line_number + 1))
  PROVE  /\ Len(lines') = CodeBefore(line_number' + 1)
         /\ \A n \in CodeLines : n <= line_number' => CodeBefore(n) < Len(lines') /\ IsKept(n)'
  <1> DEFINE k == line_number + 1
             m == Len(lines)
             q == lines'
             t == PC_to_line_number
             u == PC_to_line_number'
  <1>1. line_number \in Nat /\ k \in Nat /\ CodeLines \subseteq Nat /\ m \in Nat /\ equiv_pc = 4 * m
    <2>1. CodeLines \subseteq 1 .. LineCount
      BY CodeCounts, Zenon
    <2> QED
      BY <2>1 DEF CountsInv, Listed, TablesInv
  <1>2. CodeBefore(k) = m /\ CodeBefore(k + 1) = m + 1
    <2>1. CodeBefore(k + 1) = CodeBefore(k) + (IF k \in CodeLines THEN 1 ELSE 0)
      BY <1>1, CodeCounts, Zenon
    <2>2. CodeBefore(k) = m
      BY Zenon
    <2> HIDE DEF k, m
    <2> QED
      BY <2>1, <2>2, Zenon DEF k
  <1>3. Len(q) = m + 1 /\ (\A i \in 1 .. m : q[i] = lines[i]) /\ q[m + 1] = pop_back(text)
    <2>1. \A C : \A z \in Seq(C) : \A e \in C :
            Len(Append(z, e)) = Len(z) + 1 /\ (\A i \in 1 .. Len(z) : Append(z, e)[i] = z[i])
            /\ Append(z, e)[Len(z) + 1] = e
      BY AppendProperties
    <2> QED
      BY <2>1, Zenon DEF KeepLine
  <1>4. u[4 * m] = k /\ \A a \in DOMAIN t : a # 4 * m => u[a] = t[a]
    <2>1. u = [a \in DOMAIN t \cup {4 * m} |-> IF a = 4 * m THEN k ELSE t[a]]
      BY <1>1, Zenon DEF KeepLine, Put
    <2> HIDE DEF u, t, k, m
    <2> QED
      BY <2>1, Zenon
  <1>5. \A n : IsKept(n)' <=> /\ PlainLabel(n) => chop_string(q[CodeBefore(n) + 1]) = Return(Instruction(n))
                              /\ u[4 * CodeBefore(n)] = n
    BY RunSame, Zenon DEF IsKept
  <1>6. ASSUME NEW n \in CodeLines, n <= k PROVE CodeBefore(n) < m + 1 /\ IsKept(n)'
    <2>1. CASE n = k
      <3>1. m < m + 1
        BY <1>1
      <3> QED
        BY <1>2, <1>3, <1>4, <1>5, <2>1, <3>1, Zenon
    <2>2. CASE n # k
      <3>1. n <= line_number
        BY <1>1, <1>6, <2>2
      <3>2. CodeBefore(n) < m /\ IsKept(n) /\ CodeBefore(n) \in Nat
        BY <1>1, <3>1, CodeCounts, Zenon
      <3> DEFINE c == CodeBefore(n)
      <3> HIDE DEF c, m
      <3>3. c < m /\ c \in Nat
        BY <3>2, Zenon DEF c
      <3>4. c < m + 1 /\ c + 1 \in 1 .. m /\ 4 * c # 4 * m /\ c \in 0 .. m - 1
        BY <1>1, <3>3
      <3>5. 4 * c \in DOMAIN t
        BY <3>4, Zenon DEF TablesInv, m
      <3> QED
        BY <1>3, <1>4, <1>5, <3>2, <3>4, <3>5, Zenon DEF c, IsKept
    <2> QED
      BY <2>1, <2>2, Zenon
  <1> QED
    BY <1>2, <1>3, <1>6, Zenon

LabelsKept == \A n \in 1 .. line_number : IsLabelled(n) => LabelKept(n)
SymsTyped == \A a \in DOMAIN PC_to_syms : PC_to_syms[a] \in Seq(STRING)

LEMMA LinesReadIs ==
  LinesRead <=>
    /\ Len(lines) = CodeBefore(line_number + 1)
    /\ \A n \in CodeLines : n <= line_number => CodeBefore(n) < Len(lines) /\ IsKept(n)
    /\ LabelsKept /\ SymsTyped
  BY Zenon DEF LinesRead, LabelsKept, LabelKept, SymsTyped

(* The labels before this line keep their addresses, and this line's gets  *)
(* that of the next line kept.                                             *)
LEMMA LabelsStay ==
  ASSUME StringsAreSequences, run.source \in STRING, CountsInv, TablesInv,
         Len(lines) = CodeBefore(line_number + 1), LabelsKept, SymsTyped,
         run' = run, line_number' = line_number + 1,
         \/ ~IsLabelled(line_number + 1) /\ UNCHANGED <<jump_syms, PC_to_syms>>
         \/ /\ LabelOf(Words(line_number + 1)) \in STRING
            /\ LabelOf(Words(line_number + 1)) \notin DOMAIN jump_syms
            /\ syms_insert(LabelOf(Words(line_number + 1)))
  PROVE  LabelsKept' /\ SymsTyped'
  <1> DEFINE k == line_number + 1
             key == LabelOf(Words(k))
  <1>1. line_number \in Nat /\ k \in Nat /\ equiv_pc = 4 * CodeBefore(k) /\ \A n \in 1 .. k : n \in 1 .. line_number \/ n = k
    <2>1. equiv_pc = 4 * CodeBefore(k)
      BY Zenon DEF CountsInv
    <2>2. line_number \in Nat
      BY DEF TablesInv
    <2> QED
      BY <2>1, <2>2
  <1>2. \A n : LabelKept(n)' <=> Entered(jump_syms', PC_to_syms', LabelOf(Words(n)), 4 * CodeBefore(n))
    <2>1. \A n : Words(n)' = Words(n) /\ CodeBefore(n)' = CodeBefore(n)
      BY RunSame, Zenon
    <2> SUFFICES ASSUME NEW n
                 PROVE  LabelKept(n)' <=> Entered(jump_syms', PC_to_syms', LabelOf(Words(n)), 4 * CodeBefore(n))
      BY Zenon
    <2> DEFINE l == LabelOf(Words(n))
               a == 4 * CodeBefore(n)
    <2>2. IsResolved(n)' <=> jump_syms'[l] = a /\ Holds(PC_to_syms'[jump_syms'[l]], l)
      BY <2>1, Zenon DEF IsResolved, Holds
    <2>3. LabelKept(n)' <=> /\ l \in DOMAIN jump_syms' /\ jump_syms'[l] \in DOMAIN PC_to_syms'
                            /\ IsResolved(n)'
      BY <2>1, Zenon DEF LabelKept
    <2> HIDE DEF l, a
    <2>4. LabelKept(n)' <=> Entered(jump_syms', PC_to_syms', l, a)
      BY <2>2, <2>3, Zenon DEF Entered
    <2> QED
      BY <2>4, Zenon DEF l, a
  <1>3. ASSUME \A l, a : Entered(jump_syms, PC_to_syms, l, a) => Entered(jump_syms', PC_to_syms', l, a),
               IsLabelled(k) => Entered(jump_syms', PC_to_syms', key, 4 * CodeBefore(k))
        PROVE  LabelsKept'
    <2>1. \A n : IsLabelled(n)' <=> IsLabelled(n)
      BY RunSame, Zenon
    <2>2. ASSUME NEW n \in 1 .. k, IsLabelled(n) PROVE LabelKept(n)'
      <3>1. CASE n \in 1 .. line_number
        BY <1>2, <1>3, <2>2, <3>1, LabelKeptIs, Zenon DEF LabelsKept
      <3>2. CASE n = k
        BY <1>2, <1>3, <2>2, <3>2, Zenon
      <3> QED
        BY <1>1, <3>1, <3>2, Zenon
    <2> QED
      BY <2>1, <2>2, Zenon DEF LabelsKept
  <1>4. CASE ~IsLabelled(k) /\ UNCHANGED <<jump_syms, PC_to_syms>>
    <2>1. jump_syms' = jump_syms /\ PC_to_syms' = PC_to_syms
      BY <1>4
    <2>2. SymsTyped'
      BY <2>1, Zenon DEF SymsTyped
    <2> QED
      BY <1>3, <1>4, <2>1, <2>2, Zenon
  <1>5. CASE key \in STRING /\ key \notin DOMAIN jump_syms /\ syms_insert(key)
    <2>1. /\ \A l, a : Entered(jump_syms, PC_to_syms, l, a) => Entered(jump_syms', PC_to_syms', l, a)
          /\ Entered(jump_syms', PC_to_syms', key, equiv_pc)
          /\ \A a \in DOMAIN PC_to_syms' : PC_to_syms'[a] \in Seq(STRING)
      <3> HIDE DEF key
      <3> QED
        BY <1>5, LabelEntered, Zenon DEF SymsTyped
    <2>2. SymsTyped'
      BY <2>1, Zenon DEF SymsTyped
    <2> QED
      BY <1>1, <1>3, <2>1, <2>2, Zenon
  <1> QED
    BY <1>4, <1>5, Zenon

-----------------------------------------------------------------------------
(* Pass 1 reads the source line by line                                    *)

StandsAt == \E at \in {0} \cup LineEnds(run.source) : AtLine(at)

LEMMA PlainMeans ==
  ASSUME PlainSource
  PROVE  /\ EndsLine(run.source) /\ LinesFit(run.source)
         /\ \A n \in 1 .. LineCount : PlainText(SourceLine(n))
  BY Zenon DEF PlainSource, EndsLine, LinesFit, LineCount, SourceLine, PlainText, PlainCharacter

LEMMA ReadsLine ==
  ASSUME StringsAreSequences, run.source \in STRING, PlainSource, StandsAt, NextLine,
         line_number \in Nat
  PROVE  /\ line_number + 1 \in 1 .. LineCount
         /\ current_line = SourceLine(line_number + 1)
         /\ current_line \in STRING /\ PlainText(current_line)
         /\ Len(current_line) > 0 /\ LastOf(current_line) = Newline
         /\ run' = run /\ line_number' = line_number + 1 /\ StandsAt'
  <1> DEFINE s == run.source
             n == line_number + 1
             w == current_line
  <1>1. PICK at : at \in {0} \cup LineEnds(s) /\ AtLine(at)
    BY Zenon DEF StandsAt
  <1>2. /\ inst_file' = SubSeq(inst_file, Len(w) + 1, Len(inst_file)) /\ line_number' = n
        /\ run' = run /\ inst_file # NoText
    BY DEF NextLine, NoText
  <1>3. w = fgets(inst_file)
    BY Zenon DEF current_line
  <1> HIDE DEF w
  <1>4. inst_file = Behind(s, at) /\ Place(s, at) /\ n = EndsUpTo(s, at) + 1
    BY <1>1, Zenon DEF AtLine, Behind, Place, EndsUpTo
  <1>5. EndsLine(s) /\ LinesFit(s)
    BY PlainMeans, Zenon
  <1> HIDE DEF s, n
  <1>a. s \in STRING
    BY Zenon DEF s
  <1>6. ReadsAs(s, inst_file, n)
    BY <1>a, <1>2, <1>4, <1>5, LineAhead, Zenon
  <1>7. PICK e \in LineEnds(s) : inst_file' = Behind(s, e) /\ EndsUpTo(s, e) = n
    BY <1>2, <1>3, <1>6, Zenon DEF ReadsAs
  <1>8. StandsAt'
    <2>1. AtLine(e)'
      BY <1>2, <1>7, Zenon DEF AtLine, Behind, EndsUpTo, s
    <2> QED
      BY <1>2, <1>7, <2>1, Zenon DEF StandsAt, s
  <1>9. n \in 1 .. LineCount /\ w = SourceLine(n) /\ PlainText(w)
    BY <1>3, <1>6, PlainMeans, Zenon DEF LineCount, SourceLine, ReadsAs, s
  <1> QED
    BY <1>2, <1>3, <1>6, <1>8, <1>9, Zenon DEF n, w, ReadsAs

LEMMA Shapes ==
  ASSUME NEW C, NEW q \in Seq(C)
  PROVE  /\ q = <<>> <=> Len(q) = 0
         /\ q # <<>> => q[1] \in C
         /\ Len(q) = 1 => q # <<>> /\ Tail(q) = <<>>
         /\ Len(q) > 1 => q # <<>> /\ Tail(q) # <<>>
  <1>1. Len(q) \in Nat /\ (q = <<>> <=> Len(q) = 0)
    BY EmptySeq, LenProperties
  <1>2. q # <<>> => q[1] \in C
    <2>1. q # <<>> => 1 \in 1 .. Len(q)
      BY <1>1
    <2> QED
      BY <2>1, ElementOfSeq
  <1>3. q # <<>> => Tail(q) \in Seq(C) /\ Len(Tail(q)) = Len(q) - 1
    BY HeadTailProperties
  <1>4. \A z \in Seq(C) : Len(z) \in Nat /\ (z = <<>> <=> Len(z) = 0)
    BY EmptySeq, LenProperties
  <1> DEFINE m == Len(q)
             k == Len(Tail(q))
  <1>5. m \in Nat /\ (q = <<>> <=> m = 0) /\ (q # <<>> => k = m - 1 /\ (Tail(q) = <<>> <=> k = 0))
    BY <1>1, <1>3, <1>4, Zenon
  <1> HIDE DEF m, k
  <1>6. (m = 1 => q # <<>> /\ k = 0) /\ (m > 1 => q # <<>> /\ k # 0)
    BY <1>5
  <1>7. (m = 1 => q # <<>> /\ Tail(q) = <<>>) /\ (m > 1 => q # <<>> /\ Tail(q) # <<>>)
    BY <1>5, <1>6, Zenon
  <1> QED
    BY <1>1, <1>2, <1>7, Zenon DEF m

(* What the words of a line are to the operators of AsmProps.              *)
LEMMA LineWords ==
  ASSUME StringsAreSequences, NEW n, SourceLine(n) \in STRING,
         current_line = SourceLine(n), parts.err = ""
  PROVE  /\ parts.val = Words(n) /\ Words(n) \in Seq(STRING)
         /\ chop_string(SourceLine(n)) = Return(Words(n))
         /\ Words(n) = <<>> => ~IsLabelled(n) /\ Instruction(n) = <<>>
         /\ Words(n) # <<>> /\ ~Labelled(Words(n)) => ~IsLabelled(n) /\ Instruction(n) = Words(n)
         /\ Words(n) # <<>> /\ Labelled(Words(n)) =>
              /\ IsLabelled(n) /\ Instruction(n) = Tail(Words(n))
              /\ LastOf(Words(n)[1]) = Colon
              /\ LabelOf(Words(n)) = pop_back(Words(n)[1]) /\ LabelOf(Words(n)) \in STRING
  <1>1. parts = chop_string(SourceLine(n)) /\ parts.val = Words(n)
    BY Zenon DEF parts, Words
  <1>2. Returned(chop_string(SourceLine(n)))
    BY <1>1, Zenon DEF Returned
  <1>3. Words(n) \in Seq(STRING)
    BY <1>2, ChopType, Zenon DEF Words
  <1>4. chop_string(SourceLine(n)) = Return(Words(n))
    <2>1. \/ chop_string(SourceLine(n)) = Throw("bad_escape")
          \/ chop_string(SourceLine(n)) = Return(PushWord(ScanEnd(SourceLine(n))).words)
      BY ChopIs, Zenon
    <2>2. chop_string(SourceLine(n)) # Throw("bad_escape")
      <3>1. Throw("bad_escape").err = "bad_escape"
        BY DEF Throw
      <3>2. "bad_escape" # ""
        OBVIOUS
      <3> QED
        BY <1>2, <3>1, <3>2, Zenon DEF Returned
    <2> QED
      BY <2>1, <2>2, Results, Zenon DEF Words
  <1>5. Words(n) # <<>> => Words(n)[1] \in STRING
    BY <1>3, Shapes, Zenon
  <1>6. ASSUME NEW x \in STRING PROVE pop_back(x) \in STRING
    BY LineRead, Zenon
  <1> QED
    BY <1>1, <1>3, <1>4, <1>5, <1>6, Zenon DEF IsLabelled, Instruction, Labelled, LabelOf, LastOf, Colon

(* What holds when pass 1 stands behind a line.                            *)
AtWork ==
  /\ StringsAreSequences /\ run.source \in STRING /\ PlainSource
  /\ CountsInv /\ TablesInv /\ SourceInv
  /\ StandsAt /\ LinesRead

LEMMA AtWorkMeans ==
  ASSUME AtWork
  PROVE  /\ StringsAreSequences /\ run.source \in STRING /\ PlainSource
         /\ CountsInv /\ TablesInv /\ SourceInv /\ StandsAt
         /\ Len(lines) = CodeBefore(line_number + 1)
         /\ \A n \in CodeLines : n <= line_number => CodeBefore(n) < Len(lines) /\ IsKept(n)
         /\ LabelsKept /\ SymsTyped
         /\ line_number \in Nat /\ lines \in Seq(STRING)
         /\ CodeLines \subseteq 1 .. LineCount
  <1>1. line_number \in Nat
    BY DEF AtWork, TablesInv
  <1>2. lines \in Seq(STRING)
    BY DEF AtWork, SourceInv
  <1>3. CodeLines \subseteq 1 .. LineCount
    BY CodeCounts, Zenon DEF AtWork
  <1> QED
    BY <1>1, <1>2, <1>3, LinesReadIs, Zenon DEF AtWork

LEMMA LinesReadAgain ==
  ASSUME run' = run, Len(lines') = CodeBefore(line_number' + 1),
         \A n \in CodeLines : n <= line_number' => CodeBefore(n) < Len(lines') /\ IsKept(n)',
         LabelsKept', SymsTyped'
  PROVE  LinesRead'
  <1>1. CodeLines' = CodeLines /\ \A n : CodeBefore(n)' = CodeBefore(n)
    BY RunSame, Zenon
  <1>2. CodeBefore(line_number + 1)' = CodeBefore(line_number' + 1)
    BY <1>1, Zenon DEF CodeBefore
  <1> QED
    BY <1>1, <1>2, Zenon DEF LinesRead, LabelsKept, LabelKept, SymsTyped

LEMMA SkipSplits ==
  ASSUME AtWork, SkipLine
  PROVE  StandsAt' /\ LinesRead'
  <1> DEFINE k == line_number + 1
  <1>1. NextLine /\ parts.err = "" /\ lines' = lines /\ PC_to_line_number' = PC_to_line_number
    BY DEF SkipLine
  <1>2. /\ k \in 1 .. LineCount /\ current_line = SourceLine(k) /\ current_line \in STRING
        /\ run' = run /\ line_number' = k /\ StandsAt'
    BY <1>1, AtWorkMeans, ReadsLine, Zenon
  <1> HIDE DEF k
  <1>3. \/ /\ Words(k) = <<>> /\ UNCHANGED <<jump_syms, PC_to_syms>>
        \/ /\ Len(Words(k)) = 1 /\ Labelled(Words(k))
           /\ LabelOf(Words(k)) \notin DOMAIN jump_syms /\ syms_insert(LabelOf(Words(k)))
    <2>1. parts.val = Words(k)
      BY <1>1, <1>2, AtWorkMeans, LineWords, Zenon
    <2> QED
      BY <2>1, Zenon DEF SkipLine
  <1>4. /\ Instruction(k) = <<>>
        /\ \/ ~IsLabelled(k) /\ UNCHANGED <<jump_syms, PC_to_syms>>
           \/ /\ LabelOf(Words(k)) \in STRING
              /\ LabelOf(Words(k)) \notin DOMAIN jump_syms /\ syms_insert(LabelOf(Words(k)))
    <2>1. Words(k) \in Seq(STRING)
      BY <1>1, <1>2, AtWorkMeans, LineWords, Zenon
    <2>2. Len(Words(k)) = 1 => Words(k) # <<>> /\ Tail(Words(k)) = <<>>
      BY <2>1, Shapes, Zenon
    <2> QED
      BY <1>1, <1>2, <1>3, <2>2, AtWorkMeans, LineWords, Zenon
  <1>5. k \notin CodeLines /\ k \in Nat /\ \A n \in CodeLines : n <= k => n <= line_number
    <2>1. k \notin CodeLines
      BY <1>4, Zenon DEF CodeLines
    <2> QED
      BY <1>2, <2>1, AtWorkMeans DEF k
  <1>6. LabelsKept' /\ SymsTyped'
    BY <1>2, <1>4, AtWorkMeans, LabelsStay, Zenon DEF k
  <1>7. Len(lines') = CodeBefore(line_number' + 1)
    <2>1. CodeBefore(k + 1) = CodeBefore(k) + (IF k \in CodeLines THEN 1 ELSE 0) /\ CodeBefore(k) \in Nat
      BY <1>5, AtWorkMeans, CodeCounts, Zenon
    <2>2. \A x \in Nat : x + 0 = x
      OBVIOUS
    <2>3. CodeBefore(k + 1) = CodeBefore(k)
      BY <1>5, <2>1, <2>2, Zenon
    <2> QED
      BY <1>1, <1>2, <2>3, AtWorkMeans, Zenon DEF k
  <1>8. \A n : IsKept(n)' <=> IsKept(n)
    BY <1>1, <1>2, RunSame, Zenon DEF IsKept
  <1> QED
    BY <1>1, <1>2, <1>5, <1>6, <1>7, <1>8, AtWorkMeans, LinesReadAgain, Zenon

LEMMA LastOfEnd ==
  ASSUME StringsAreSequences, NEW s \in STRING, NEW p \in 1 .. Len(s) - 1, NEW t,
         t = SubSeq(s, p + 1, Len(s))
  PROVE  Len(t) > 0 /\ LastOf(t) = LastOf(s)
  <1> DEFINE n == Len(s)
             k == n - p
  <1>0. n \in Nat
    BY TextLaws, Zenon
  <1> HIDE DEF n
  <1>1. /\ p \in Nat /\ n \in Nat /\ p <= n /\ k \in Nat /\ k > 0 /\ p + k = n /\ k - 1 \in Nat
        /\ k - 1 <= k /\ p + k <= n /\ (k - 1) + 1 = k /\ p + (k - 1) + 1 = n /\ n <= n
    <2>1. p \in 1 .. n - 1
      BY Zenon DEF n
    <2> QED
      BY <1>0, <2>1
  <1>a. n <= Len(s)
    BY <1>1, Zenon DEF n
  <1>2. CutsAt(s, p, n)
    BY <1>1, <1>a, PartFrom, Zenon
  <1>3. t = SubSeq(s, p + 1, n)
    BY Zenon DEF n
  <1>4. Len(t) = k
    BY <1>2, <1>3, Zenon DEF CutsAt
  <1> DEFINE j == k - 1
  <1> HIDE DEF k, j
  <1>5. j \in Nat /\ k \in Nat /\ j <= k /\ p + k <= n /\ j + 1 = k /\ p + j + 1 = n /\ p + k = n
    BY <1>1, Zenon DEF j
  <1>6. SubSeq(t, j + 1, k) = SubSeq(s, p + j + 1, p + k)
    BY <1>2, <1>3, <1>5, Zenon DEF CutsAt
  <1>7. SubSeq(t, k, k) = SubSeq(s, n, n)
    BY <1>5, <1>6, Zenon
  <1> QED
    BY <1>1, <1>4, <1>7, Zenon DEF LastOf, n

LEMMA TakeSplits ==
  ASSUME AtWork, TakeLine
  PROVE  StandsAt' /\ LinesRead'
  <1> DEFINE k == line_number + 1
             w == Words(k)
  <1>1. NextLine /\ parts.err = "" /\ parts.val # <<>>
    BY DEF TakeLine
  <1>2. /\ k \in 1 .. LineCount /\ current_line = SourceLine(k) /\ current_line \in STRING
        /\ PlainText(current_line) /\ Len(current_line) > 0 /\ LastOf(current_line) = Newline
        /\ run' = run /\ line_number' = k /\ StandsAt'
    BY <1>1, AtWorkMeans, ReadsLine, Zenon
  <1> HIDE DEF k
  <1>3. /\ parts.val = w /\ w \in Seq(STRING) /\ w # <<>> /\ chop_string(SourceLine(k)) = Return(w)
        /\ ~Labelled(w) => ~IsLabelled(k) /\ Instruction(k) = w
        /\ Labelled(w) =>
             /\ IsLabelled(k) /\ Instruction(k) = Tail(w) /\ LastOf(w[1]) = Colon
             /\ LabelOf(w) = pop_back(w[1]) /\ LabelOf(w) \in STRING
    BY <1>1, <1>2, AtWorkMeans, LineWords, Zenon
  <1>4. PICK text :
          /\ KeepLine(text)
          /\ \/ ~Labelled(w) /\ text = current_line /\ UNCHANGED <<jump_syms, PC_to_syms>>
             \/ /\ Labelled(w) /\ Len(w) > 1 /\ text = trim_label(current_line)
                /\ LabelOf(w) \notin DOMAIN jump_syms /\ syms_insert(LabelOf(w))
    BY <1>3, Zenon DEF TakeLine
  <1>5. LabelsKept' /\ SymsTyped'
    <2>1. \/ ~IsLabelled(k) /\ UNCHANGED <<jump_syms, PC_to_syms>>
          \/ /\ LabelOf(w) \in STRING
             /\ LabelOf(w) \notin DOMAIN jump_syms /\ syms_insert(LabelOf(w))
      BY <1>3, <1>4, Zenon
    <2> QED
      BY <1>2, <2>1, AtWorkMeans, LabelsStay, Zenon DEF k
  <1>6. /\ Instruction(k) # <<>> /\ pop_back(text) \in STRING
        /\ PlainLabel(k) => chop_string(pop_back(text)) = Return(Instruction(k))
    <2>1. CASE ~Labelled(w) /\ text = current_line
      <3>1. pop_back(text) \in STRING /\ chop_string(pop_back(text)) = chop_string(text)
        BY <1>2, <2>1, AtWorkMeans, ChopPopped, Zenon DEF LastOf
      <3> QED
        BY <1>2, <1>3, <2>1, <3>1, Zenon
    <2>2. CASE Labelled(w) /\ Len(w) > 1 /\ text = trim_label(current_line)
      <3>1. Instruction(k) # <<>>
        BY <1>3, <2>2, Shapes, Zenon
      <3>2. pop_back(text) \in STRING
        <4>1. text \in STRING
          BY <1>2, <2>2, AtWorkMeans, LineRead, Zenon
        <4> QED
          BY <4>1, AtWorkMeans, LineRead, Zenon
      <3>3. ASSUME PlainLabel(k) PROVE chop_string(pop_back(text)) = Return(Instruction(k))
        <4>1. ColonFree(pop_back(w[1]))
          BY <1>3, <2>2, <3>3, Zenon DEF PlainLabel, ColonFree, Colon
        <4>2. w = chop_string(current_line).val
          BY <1>2, Zenon DEF Words
        <4>3. /\ chop_string(text) = Return(Tail(w)) /\ text \in STRING /\ PlainText(text)
              /\ \E p \in 1 .. Len(current_line) - 1 :
                   text = SubSeq(current_line, p + 1, Len(current_line))
          BY <1>2, <1>3, <2>2, <4>1, <4>2, AtWorkMeans, ChopTrimmed, Zenon
        <4>4. Len(text) > 0 /\ LastOf(text) = Newline
          BY <1>2, <4>3, AtWorkMeans, LastOfEnd, Zenon
        <4>5. chop_string(pop_back(text)) = chop_string(text)
          BY <4>3, <4>4, AtWorkMeans, ChopPopped, Zenon DEF LastOf
        <4> QED
          BY <1>3, <2>2, <4>3, <4>5, Zenon
      <3> QED
        BY <3>1, <3>2, <3>3, Zenon
    <2> QED
      BY <1>4, <2>1, <2>2, Zenon
  <1>7. k \in CodeLines
    BY <1>2, <1>6, Zenon DEF CodeLines
  <1>8. /\ Len(lines') = CodeBefore(line_number' + 1)
        /\ \A n \in CodeLines : n <= line_number' => CodeBefore(n) < Len(lines') /\ IsKept(n)'
    BY <1>2, <1>4, <1>6, <1>7, AtWorkMeans, LineKept, Zenon DEF k
  <1> QED
    BY <1>2, <1>5, <1>8, LinesReadAgain, Zenon

Tables == <<line_number, lines, jump_syms, PC_to_syms, PC_to_line_number>>

LEMMA LinesReadStays ==
  ASSUME LinesRead, run' = run, UNCHANGED Tables
  PROVE  LinesRead'
  <1>1. /\ line_number' = line_number /\ lines' = lines /\ jump_syms' = jump_syms
        /\ PC_to_syms' = PC_to_syms /\ PC_to_line_number' = PC_to_line_number
    BY DEF Tables
  <1>2. \A n : /\ Words(n)' = Words(n) /\ (IsLabelled(n)' <=> IsLabelled(n))
               /\ Instruction(n)' = Instruction(n) /\ (PlainLabel(n)' <=> PlainLabel(n))
               /\ CodeBefore(n)' = CodeBefore(n)
    BY RunSame, Zenon
  <1>3. CodeLines' = CodeLines /\ CodeBefore(line_number + 1)' = CodeBefore(line_number + 1)
    <2>1. CodeLines' = CodeLines
      BY RunSame, Zenon
    <2> QED
      BY <1>1, <2>1, Zenon DEF CodeBefore
  <1>4. \A n : (IsKept(n)' <=> IsKept(n)) /\ (IsResolved(n)' <=> IsResolved(n))
    BY <1>1, <1>2, Zenon DEF IsKept, IsResolved
  <1> QED
    BY <1>1, <1>2, <1>3, <1>4, Zenon DEF LinesRead

LEMMA SplitInitially ==
  ASSUME StringsAreSequences, Init
  PROVE  SplitInv
  <1>1. /\ run \in Cases /\ pc = "start" /\ line_number = 0 /\ lines = <<>>
        /\ jump_syms = <<>> /\ PC_to_syms = <<>>
    BY DEF Init
  <1>2. run.source \in STRING
    BY <1>1, CasesAssumption
  <1>3. LinesRead
    <2>1. Len(lines) = 0 /\ DOMAIN PC_to_syms = {} /\ 0 + 1 = 1 /\ 1 .. 0 = {}
      BY <1>1
    <2>2. CodeBefore(1) = 0 /\ CodeLines \subseteq 1 .. LineCount
      BY <1>2, CodeCounts, Zenon
    <2>3. \A n \in CodeLines : ~(n <= 0)
      BY <2>2
    <2> QED
      BY <1>1, <2>1, <2>2, <2>3, Zenon DEF LinesRead
  <1> QED
    BY <1>1, <1>3 DEF SplitInv

LEMMA EndOfText ==
  ASSUME StringsAreSequences, NEW s \in STRING, NEW at \in Nat, at <= Len(s),
         SubSeq(s, at + 1, Len(s)) = ""
  PROVE  at = Len(s)
  <1> DEFINE n == Len(s)
  <1>0. n \in Nat
    BY TextLaws, Zenon
  <1>1. n <= n
    BY <1>0, SmallNumbers, Zenon
  <1>2. n <= Len(s) /\ at <= n
    BY <1>1, Zenon DEF n
  <1> HIDE DEF n
  <1>3. Len(SubSeq(s, at + 1, n)) = n - at
    BY <1>0, <1>2, PartFrom, Zenon DEF CutsAt
  <1>4. Len("") = 0
    BY LiteralsAssumption, Zenon
  <1>5. n - at = 0
    BY <1>3, <1>4, Zenon DEF n
  <1>6. at = n
    BY <1>0, <1>5, SmallNumbers, Zenon
  <1> QED
    BY <1>6, Zenon DEF n

LEMMA SplitStep ==
  ASSUME StringsAreSequences, CountsInv, TablesInv, SourceInv, SplitInv, [Next]_vars
  PROVE  SplitInv'
  <1>1. run' = run /\ run' \in Cases /\ run.source \in STRING
    <2>1. run' = run
      BY Zenon DEF Next, vars, Start, SymbolsError, SkipLine, TakeLine, NextLine, EndPass1, AsmFlash, EndPass2,
                   OpenOutput, WriteInst, FinishOutput
    <2> QED
      BY <2>1, CasesAssumption DEF SplitInv
  <1>2. PlainSource' <=> PlainSource
    BY <1>1, RunSame, Zenon
  <1>3. ASSUME pc' \notin {"start", "pass 1", "pass 2"} PROVE SplitInv'
    BY <1>1, <1>3, Zenon DEF SplitInv
  <1> SUFFICES ASSUME PlainSource, pc' \in {"start", "pass 1", "pass 2"} PROVE SplitInv'
    BY <1>1, <1>2, <1>3, Zenon DEF SplitInv
  <1>4. ASSUME pc = "pass 1" PROVE AtWork
    <2>1. StandsAt /\ LinesRead
      BY <1>4 DEF SplitInv, StandsAt
    <2> QED
      BY <1>1, <2>1, Zenon DEF AtWork
  <1>5. CASE Start
    <2>1. pc = "start" /\ pc' = "pass 1" /\ inst_file' = run.source /\ UNCHANGED Tables
      BY <1>5 DEF Start, Stop, Tables
    <2>2. LinesRead /\ line_number = 0
      BY <2>1 DEF SplitInv
    <2>3. LinesRead'
      BY <1>1, <2>1, <2>2, LinesReadStays, Zenon
    <2>4. StandsAt'
      <3>1. SubSeq(run.source, 0 + 1, Len(run.source)) = run.source
        <4>1. Len(run.source) \in Nat
          BY <1>1, TextLaws, Zenon
        <4> DEFINE n == Len(run.source)
        <4> HIDE DEF n
        <4>2. 1 \in Nat \ {0} /\ 0 + 1 = 1 /\ (n \in Nat => n \in Int /\ n <= n /\ 1 <= n + 1)
          BY SmallNumbers, Zenon
        <4> QED
          BY <1>1, <4>1, <4>2, TextParts, Zenon DEF n
      <3>2. Cardinality({d \in LineEnds(run.source) : d <= 0}) = 0
        <4>1. LineEnds(run.source) \subseteq 1 .. Len(run.source)
          <5>1. Len(run.source) \in Newlines(run.source)
            BY DEF PlainSource
          <5>2. \A x \in Newlines(run.source) : x \in 1 .. Len(run.source)
            BY Zenon DEF Newlines
          <5> QED
            BY <5>1, <5>2, Zenon DEF LineEnds
        <4>2. \A d \in 1 .. Len(run.source) : ~(d <= 0)
          BY <1>1, TextLaws, SmallNumbers, Zenon
        <4>3. {d \in LineEnds(run.source) : d <= 0} = {}
          BY <4>1, <4>2, Zenon
        <4> QED
          BY <4>3, FS_EmptySet, Zenon
      <3>3. AtLine(0)'
        BY <1>1, <2>1, <2>2, <3>1, <3>2 DEF AtLine, Tables
      <3> QED
        BY <3>3, Zenon DEF StandsAt
    <2> QED
      BY <1>1, <2>1, <2>3, <2>4 DEF SplitInv, StandsAt
  <1>6. CASE SymbolsError
    <2>1. pc' = "ended"
      BY <1>6, Zenon DEF SymbolsError, Stop
    <2> QED
      BY <2>1
  <1>7. CASE SkipLine \/ TakeLine
    <2>1. pc = "pass 1" /\ pc' = pc
      BY <1>7, Zenon DEF SkipLine, TakeLine, NextLine, KeepLine
    <2>2. StandsAt' /\ LinesRead'
      BY <1>4, <1>7, <2>1, SkipSplits, TakeSplits, Zenon
    <2> QED
      BY <1>1, <2>1, <2>2 DEF SplitInv, StandsAt
  <1>8. CASE EndPass1
    <2>1. pc = "pass 1" /\ pc' = "pass 2" /\ inst_file = "" /\ UNCHANGED Tables
      BY <1>8 DEF EndPass1, pass1Vars, Tables
    <2>2. StandsAt /\ LinesRead
      BY <1>4, <2>1, Zenon DEF AtWork
    <2>3. LinesRead'
      BY <1>1, <2>1, <2>2, LinesReadStays, Zenon
    <2>4. line_number = LineCount
      <3>1. PICK at \in {0} \cup LineEnds(run.source) : AtLine(at)
        BY <2>2, Zenon DEF StandsAt
      <3>2. Len(run.source) \in Nat
        BY <1>1, TextLaws, Zenon
      <3>3. \A d \in LineEnds(run.source) : d \in Nat /\ d <= Len(run.source)
        <4>1. \A x \in Newlines(run.source) : x \in 1 .. Len(run.source)
          BY Zenon DEF Newlines
        <4>2. \A x \in 1 .. Len(run.source) : x \in Nat /\ x <= Len(run.source)
          BY <3>2, SmallNumbers, Zenon
        <4>3. Len(run.source) <= Len(run.source)
          BY <3>2, SmallNumbers, Zenon
        <4> QED
          BY <3>2, <4>1, <4>2, <4>3, Zenon DEF LineEnds
      <3>4. at \in Nat /\ at <= Len(run.source)
        BY <3>1, <3>2, <3>3, SmallNumbers, Zenon
      <3>5. SubSeq(run.source, at + 1, Len(run.source)) = ""
        BY <2>1, <3>1, Zenon DEF AtLine
      <3>6. at = Len(run.source)
        BY <1>1, <3>4, <3>5, EndOfText, Zenon
      <3>7. {d \in LineEnds(run.source) : d <= at} = LineEnds(run.source)
        BY <3>3, <3>6, Zenon
      <3> QED
        BY <3>1, <3>7, Zenon DEF AtLine, LineCount
    <2>5. (line_number = LineCount)'
      BY <1>1, <2>1, <2>4, RunSame DEF Tables
    <2> QED
      BY <1>1, <2>1, <2>3, <2>5 DEF SplitInv
  <1>9. CASE EndPass2 \/ OpenOutput \/ WriteInst \/ FinishOutput
    <2>1. pc' \in {"open", "write", "ended"}
      BY <1>9, Zenon DEF EndPass2, OpenOutput, WriteInst, FinishOutput, Stop
    <2> QED
      BY <2>1
  <1>10. CASE AsmFlash \/ UNCHANGED vars
    <2>1. UNCHANGED Tables /\ pc' = pc /\ inst_file' = inst_file
      <3>1. CASE AsmFlash
        <4>1. pc = "pass 2" /\ UNCHANGED pass1Vars /\ pc' \in {pc, "ended", "terminated"}
          BY <3>1, Zenon DEF AsmFlash, Stop, Terminate
        <4> QED
          BY <4>1 DEF Tables, pass1Vars
      <3>2. CASE UNCHANGED vars
        BY <3>2 DEF vars, pass1Vars, Tables
      <3> QED
        BY <1>10, <3>1, <3>2, Zenon
    <2>2. pc \in {"start", "pass 1", "pass 2"}
      BY <2>1
    <2>3. LinesRead'
      BY <1>1, <2>1, <2>2, LinesReadStays, Zenon DEF SplitInv
    <2>4. pc' = "pass 1" => StandsAt'
      BY <1>1, <2>1, <2>2, Zenon DEF SplitInv, StandsAt, AtLine, Tables
    <2>5. LineCount' = LineCount
      BY <1>1, RunSame, Zenon
    <2>6. (pc' = "start" => line_number' = 0) /\ (pc' = "pass 2" => line_number' = LineCount')
      BY <2>1, <2>2, <2>5 DEF SplitInv, Tables
    <2> QED
      BY <1>1, <2>3, <2>4, <2>6, Zenon DEF SplitInv, StandsAt
  <1> QED
    BY <1>5, <1>6, <1>7, <1>8, <1>9, <1>10, Zenon DEF Next

(* Pass 1 has read a whole number of lines of the source, and what it      *)
(* keeps of them is what they say (AsmProps!SplitInv).                     *)
THEOREM SplitInvHolds ==
  ASSUME StringsAreSequences
  PROVE  Spec => []SplitInv
  <1>1. Init => CountsInv /\ TablesInv /\ SourceInv /\ SplitInv
    BY Initially, SourceInit, SplitInitially
  <1>2. CountsInv /\ TablesInv /\ SourceInv /\ SplitInv /\ [Next]_vars
          => (CountsInv /\ TablesInv /\ SourceInv /\ SplitInv)'
    BY CountsStep, SourceStep, SplitStep
  <1> QED
    BY <1>1, <1>2, PTL DEF Spec

LEMMA AllRead ==
  ASSUME StringsAreSequences, SplitInv, pc = "pass 2", PlainSource
  PROVE  /\ Len(lines) = Cardinality(CodeLines)
         /\ \A n \in CodeLines : IsKept(n)
         /\ \A n \in 1 .. LineCount : IsLabelled(n) => IsResolved(n)
  <1>1. run.source \in STRING /\ LinesRead /\ line_number = LineCount
    BY CasesAssumption DEF SplitInv
  <1>2. /\ LineCount \in Nat /\ CodeLines \subseteq 1 .. LineCount
        /\ CodeBefore(LineCount + 1) = Cardinality(CodeLines)
    BY <1>1, CodeCounts, Zenon
  <1>3. \A n \in CodeLines : n <= LineCount
    BY <1>2, SmallNumbers, Zenon
  <1> QED
    BY <1>1, <1>2, <1>3, Zenon DEF LinesRead

(* Pass 1 hands pass 2 the program that was written, for every source of   *)
(* whole lines without quotes (AsmProps!SourceKept).                       *)
THEOREM SourceKeptHolds ==
  ASSUME StringsAreSequences
  PROVE  Spec => []SourceKept
  <1>1. SplitInv => SourceKept
    BY AllRead, Zenon DEF SourceKept
  <1> QED
    BY <1>1, SplitInvHolds, PTL

(* A label stands for the instruction that follows it in the source        *)
(* (AsmProps!LabelsResolve).                                               *)
THEOREM LabelsResolveHolds ==
  ASSUME StringsAreSequences
  PROVE  Spec => []LabelsResolve
  <1>1. SplitInv => LabelsResolve
    BY AllRead, Zenon DEF LabelsResolve
  <1> QED
    BY <1>1, SplitInvHolds, PTL

-----------------------------------------------------------------------------
(* What a reader gets back from the text of some bytes *)

IsPairs(t, vals, n) == HexPairs(t) = [k \in 1 .. n |-> Pair(vals[k])]
IsBytes(t, vals)    == [k \in DOMAIN HexPairs(t) |-> Byte(HexPairs(t)[k])] = vals

LEMMA PairsOfText ==
  ASSUME StringsAreSequences, NEW n \in Nat, NEW vals \in [1 .. n -> 0 .. 255], NEW t, HexHolds(t, vals, n)
  PROVE  IsPairs(t, vals, n) /\ IsBytes(t, vals)
  <1> DEFINE p(k) == SubSeq(t, Len(t) - 2 * k + 1, Len(t) - 2 * k + 2)
             q(k) == Pair(vals[k])
  <1>1. Len(t) = 2 * n /\ \A k \in 1 .. n : SubSeq(t, 2 * n - 2 * k + 1, 2 * n - 2 * k + 2) = q(k)
    BY Zenon DEF HexHolds
  <1>2. (2 * n) \div 2 = n
    OBVIOUS
  <1>3. HexPairs(t) = [k \in 1 .. n |-> p(k)]
    BY <1>1, <1>2, Zenon DEF HexPairs
  <1>4. \A k \in 1 .. n : p(k) = q(k)
    BY <1>1, Zenon
  <1>5. \A k \in 1 .. n : Byte(q(k)) = vals[k]
    <2> SUFFICES ASSUME NEW k \in 1 .. n PROVE Byte(Pair(vals[k])) = vals[k]
      BY Zenon
    <2>1. vals[k] \in 0 .. 255
      OBVIOUS
    <2>2. numeric_interpret(HexPrefix \o Pair(vals[k])) = Return(vals[k])
      BY <2>1, PairRead, Zenon
    <2> QED
      BY <2>2, Results, Zenon DEF Byte, HexPrefix
  <1> HIDE DEF p
  <1>6. HexPairs(t) = [k \in 1 .. n |-> q(k)]
    <2> HIDE DEF q
    <2> QED
      BY <1>3, <1>4
  <1>7. [k \in DOMAIN HexPairs(t) |-> Byte(HexPairs(t)[k])] = vals
    <2> HIDE DEF q
    <2>1. DOMAIN HexPairs(t) = 1 .. n /\ \A k \in 1 .. n : HexPairs(t)[k] = q(k)
      BY <1>6
    <2>2. [k \in DOMAIN HexPairs(t) |-> Byte(HexPairs(t)[k])] = [k \in 1 .. n |-> vals[k]]
      <3>1. \A k \in 1 .. n : Byte(HexPairs(t)[k]) = vals[k]
        BY <1>5, <2>1, Zenon
      <3> DEFINE b(k) == Byte(HexPairs(t)[k])
      <3>2. [k \in DOMAIN HexPairs(t) |-> Byte(HexPairs(t)[k])] = [k \in 1 .. n |-> b(k)]
        BY <2>1, Zenon
      <3>3. \A k \in 1 .. n : b(k) = vals[k]
        BY <3>1, Zenon
      <3> HIDE DEF b
      <3>4. [k \in 1 .. n |-> b(k)] = [k \in 1 .. n |-> vals[k]]
        BY <3>3
      <3> QED
        BY <3>2, <3>4, Zenon
    <2>3. [k \in 1 .. n |-> vals[k]] = vals
      OBVIOUS
    <2> QED
      BY <2>2, <2>3, Zenon
  <1> QED
    BY <1>6, <1>7, Zenon DEF IsPairs, IsBytes

(* The a-th block of w elements.                                           *)
Block(s, a, w) == [k \in 1 .. w |-> s[(a - 1) * w + k]]

LEMMA BlockIs ==
  ASSUME NEW C, NEW s \in Seq(C), NEW w \in Nat, NEW n \in Nat, Len(s) = n * w
  PROVE  \A a \in 1 .. n : Block(s, a, w) \in [1 .. w -> C] /\ Block(s, a, w) \in Seq(C)
                           /\ Len(Block(s, a, w)) = w
  <1> SUFFICES ASSUME NEW a \in 1 .. n
               PROVE  Block(s, a, w) \in [1 .. w -> C] /\ Block(s, a, w) \in Seq(C)
                      /\ Len(Block(s, a, w)) = w
    BY Zenon
  <1>1. \A i \in 1 .. n * w : s[i] \in C
    <2>1. \A i \in 1 .. Len(s) : s[i] \in C
      BY ElementOfSeq
    <2> QED
      BY <2>1, Zenon
  <1> DEFINE b(k) == s[(a - 1) * w + k]
  <1>2. \A k \in 1 .. w : b(k) \in C
    BY <1>1, BlockPlaces, Zenon
  <1> HIDE DEF b
  <1>3. [k \in 1 .. w |-> b(k)] \in [1 .. w -> C]
    BY <1>2
  <1>4. Block(s, a, w) \in [1 .. w -> C]
    BY <1>3, Zenon DEF Block, b
  <1> DEFINE x == Block(s, a, w)
  <1> HIDE DEF x
  <1>5. x \in [1 .. w -> C]
    BY <1>4, Zenon DEF x
  <1>6. x \in Seq(C) /\ Len(x) = w
    BY <1>5, SeqDef, LenProperties
  <1> QED
    BY <1>5, <1>6, Zenon DEF x

LEMMA BytesInBlocks ==
  ASSUME StringsAreSequences, NEW w \in Nat \ {0}, NEW n \in Nat, NEW s \in Seq(0 .. 255),
         Len(s) = n * w, NEW text, DOMAIN text = 1 .. n,
         \A a \in 1 .. n : HexHolds(text[a], Block(s, a, w), w)
  PROVE  BytesIn(text) = s
  <1> DEFINE b(a) == [k \in DOMAIN HexPairs(text[a]) |-> Byte(HexPairs(text[a])[k])]
             c(a) == Block(s, a, w)
             lists == [a \in 1 .. n |-> c(a)]
  <1>1. \A a \in 1 .. n : c(a) \in [1 .. w -> 0 .. 255] /\ c(a) \in Seq(0 .. 255) /\ Len(c(a)) = w
    <2> DEFINE B == 0 .. 255
    <2>1. w \in Nat /\ s \in Seq(B)
      OBVIOUS
    <2> HIDE DEF B
    <2>2. \A a \in 1 .. n : Block(s, a, w) \in [1 .. w -> B] /\ Block(s, a, w) \in Seq(B)
                             /\ Len(Block(s, a, w)) = w
      <3>1. \A C : \A x \in Seq(C) : \A y \in Nat, m \in Nat : Len(x) = m * y =>
               \A a \in 1 .. m : Block(x, a, y) \in [1 .. y -> C] /\ Block(x, a, y) \in Seq(C)
                             /\ Len(Block(x, a, y)) = y
        BY BlockIs, Zenon
      <3>2. \A y \in Nat, m \in Nat : Len(s) = m * y =>
               \A a \in 1 .. m : Block(s, a, y) \in [1 .. y -> B] /\ Block(s, a, y) \in Seq(B)
                             /\ Len(Block(s, a, y)) = y
        BY <2>1, <3>1, Zenon
      <3>3. \A y \in Nat : Len(s) = n * y =>
               \A a \in 1 .. n : Block(s, a, y) \in [1 .. y -> B] /\ Block(s, a, y) \in Seq(B)
                             /\ Len(Block(s, a, y)) = y
        BY <3>2, Zenon
      <3> QED
        BY <2>1, <3>3, Zenon
    <2> QED
      BY <2>2, Zenon DEF B
  <1>2. ASSUME NEW a \in 1 .. n PROVE b(a) = c(a)
    <2>1. w \in Nat
      OBVIOUS
    <2>2. c(a) \in [1 .. w -> 0 .. 255] /\ HexHolds(text[a], c(a), w)
      BY <1>1, Zenon
    <2> DEFINE x == text[a]
               y == c(a)
    <2> HIDE DEF c, x
    <2> HIDE DEF y
    <2>3. y \in [1 .. w -> 0 .. 255] /\ HexHolds(x, y, w)
      BY <2>2, Zenon DEF x, y
    <2>4. IsBytes(x, y)
      BY <2>1, <2>3, PairsOfText, Zenon
    <2> QED
      BY <2>4, Zenon DEF x, y, IsBytes
  <1>3. BytesIn(text) = Concat([a \in 1 .. n |-> b(a)])
    BY Zenon DEF BytesIn
  <1> HIDE DEF b, c
  <1>4. [a \in 1 .. n |-> b(a)] = lists
    BY <1>2
  <1>5. lists \in [1 .. n -> Seq(0 .. 255)] /\ \A a \in 1 .. n : lists[a] = c(a)
    BY <1>1
  <1> HIDE DEF lists
  <1>6. lists \in Seq(Seq(0 .. 255)) /\ Len(lists) = n
    BY <1>5, SeqDef, LenProperties
  <1> DEFINE t == Concat(lists)
  <1>7. t \in Seq(0 .. 255) /\ InBlocks(t, lists, n, w)
    <2>1. \A a \in 1 .. Len(lists) : Len(lists[a]) = w
      BY <1>1, <1>5, <1>6, Zenon
    <2> QED
      BY <1>6, <2>1, ConcatBlocks, Zenon
  <1> HIDE DEF t
  <1>8. InBlocks(s, lists, n, w)
    <2>1. \A a \in 1 .. n : \A k \in 1 .. w : c(a)[k] = s[(a - 1) * w + k]
      BY DEF c, Block
    <2> QED
      BY <1>5, <2>1, Zenon DEF InBlocks
  <1>9. t = s
    BY <1>7, <1>8, SameBlocks, Zenon
  <1> QED
    BY <1>3, <1>4, <1>9, Zenon DEF t

-----------------------------------------------------------------------------
(* The words of a MIF file *)

(* Rounding up to whole words.                                             *)
LEMMA Rounding ==
  ASSUME NEW x \in Nat, NEW w \in Nat \ {0}
  PROVE  /\ (x + w - 1) \div w \in Nat
         /\ ((x + w - 1) \div w) * w - x \in 0 .. w - 1
         /\ (x + w - 1) \div w = (x \div w) + (IF x % w # 0 THEN 1 ELSE 0)
  <1> DEFINE q == x \div w
             r == x % w
             y == q * w
  <1>1. q \in Nat /\ r \in 0 .. w - 1 /\ x = q * w + r
    BY Divides
  <1> HIDE DEF q, r
  <1>2. CASE r = 0
    <2>1. x + w - 1 = q * w + (w - 1) /\ w - 1 \in 0 .. w - 1
      BY <1>1, <1>2
    <2>2. (x + w - 1) \div w = q
      BY <1>1, <2>1, Divided, Zenon
    <2>3. q * w - x = 0
      BY <1>1, <1>2
    <2>4. (IF r # 0 THEN 1 ELSE 0) = 0 /\ q + 0 = q /\ 0 \in 0 .. w - 1
      BY <1>1, <1>2
    <2> QED
      BY <1>1, <2>2, <2>3, <2>4, Zenon DEF q, r
  <1>3. CASE r # 0
    <2>1. x + w - 1 = (q + 1) * w + (r - 1) /\ r - 1 \in 0 .. w - 1 /\ q + 1 \in Nat
      BY <1>1, <1>3
    <2>2. (x + w - 1) \div w = q + 1
      BY <2>1, Divided, Zenon
    <2>3. (q + 1) * w - x = w - r
      BY <1>1
    <2>4. w - r \in 0 .. w - 1
      BY <1>1, <1>3
    <2>5. (IF r # 0 THEN 1 ELSE 0) = 1
      BY <1>3
    <2> QED
      BY <2>1, <2>2, <2>3, <2>4, <2>5, Zenon DEF q, r
  <1> QED
    BY <1>2, <1>3

LEMMA BlocksAre ==
  \A C : \A s \in Seq(C) : \A w \in Nat, n \in Nat : Len(s) = n * w =>
    \A a \in 1 .. n : Block(s, a, w) \in [1 .. w -> C] /\ Block(s, a, w) \in Seq(C)
                       /\ Len(Block(s, a, w)) = w
  BY BlockIs, Zenon

LEMMA FoursAre ==
  \A C : \A s \in Seq(C) : \A n \in Nat : Len(s) = n * 4 =>
    \A a \in 1 .. n : Block(s, a, 4) \in [1 .. 4 -> C] /\ Block(s, a, 4) \in Seq(C)
                       /\ Len(Block(s, a, 4)) = 4
  <1>1. 4 \in Nat
    OBVIOUS
  <1> QED
    BY <1>1, BlocksAre, Zenon

LEMMA PieceAt ==
  ASSUME NEW C, NEW s \in Seq(C), NEW x \in Nat, x + 4 <= Len(s)
  PROVE  /\ SubSeq(s, x + 1, x + 4) \in Seq(C) /\ Len(SubSeq(s, x + 1, x + 4)) = 4
         /\ \A i \in 1 .. 4 : SubSeq(s, x + 1, x + 4)[i] = s[x + i]
  BY PartOfText

LEMMA PieceIs ==
  ASSUME NEW C, NEW s \in Seq(C), NEW n \in Nat, Len(s) = n * 4, NEW k \in 1 .. n
  PROVE  /\ SubSeq(s, 4 * (k - 1) + 1, 4 * (k - 1) + 4) = Block(s, k, 4)
         /\ Block(s, k, 4) \in Seq(C) /\ Len(Block(s, k, 4)) = 4
  <1> DEFINE x == 4 * (k - 1)
             t == SubSeq(s, x + 1, x + 4)
             u == Block(s, k, 4)
  <1>1. /\ x \in Nat /\ x + 1 \in Nat \ {0} /\ x + 4 \in Int /\ x + 4 <= n * 4 /\ x + 1 <= x + 4
        /\ (x + 4) - (x + 1) + 1 = 4 /\ (k - 1) * 4 = x
        /\ \A i \in 1 .. 4 : (x + 1) + i - 1 = x + i
    OBVIOUS
  <1> HIDE DEF x
  <1>2. t \in Seq(C) /\ Len(t) = 4 /\ \A i \in 1 .. 4 : t[i] = s[x + i]
    <2>1. x \in Nat /\ x + 4 <= Len(s)
      BY <1>1, Zenon
    <2> QED
      BY <2>1, PieceAt
  <1> HIDE DEF t
  <1>3. Len(t) = 4 /\ \A i \in 1 .. 4 : t[i] = s[x + i]
    BY <1>2, Zenon
  <1>4. u \in Seq(C) /\ Len(u) = 4
    BY FoursAre, Zenon
  <1>5. \A i \in 1 .. 4 : u[i] = s[x + i]
    BY <1>1 DEF Block
  <1> HIDE DEF u
  <1>6. \A i \in 1 .. Len(t) : t[i] = u[i]
    BY <1>3, <1>5, Zenon
  <1>7. t = u
    BY <1>2, <1>3, <1>4, <1>6, SameElements, Zenon
  <1> QED
    BY <1>4, <1>7, Zenon DEF t, u, x

(* The words of a MIF file are those of the bytes with zeros behind them.  *)
Padded(s, n) == [j \in 1 .. n |-> IF j <= Len(s) THEN s[j] ELSE 0]

LEMMA ZeroPair == Pair(0) = "00"
  <1>1. (0 \div 16) + 1 = 1 /\ (0 % 16) + 1 = 1
    OBVIOUS
  <1> QED
    BY <1>1, ZeroAssumption, Zenon DEF Pair

LEMMA PairsOfListing ==
  ASSUME StringsAreSequences, NEW s \in Seq(0 .. 255), NEW n \in Nat, NEW w \in Nat \ {0}, Len(s) = n * w,
         NEW insts, DOMAIN insts = 1 .. n,
         \A a \in 1 .. n : HexHolds(insts[a], Block(s, a, w), w)
  PROVE  Concat([a \in DOMAIN insts |-> HexPairs(insts[a])]) = [j \in 1 .. n * w |-> Pair(s[j])]
  <1> DEFINE h(a) == HexPairs(insts[a])
             c(a) == [k \in 1 .. w |-> Pair(Block(s, a, w)[k])]
             lists == [a \in 1 .. n |-> c(a)]
             P == [j \in 1 .. n * w |-> Pair(s[j])]
  <1>0. w \in Nat /\ n * w \in Nat
    OBVIOUS
  <1>1. ASSUME NEW a \in 1 .. n PROVE Block(s, a, w) \in [1 .. w -> 0 .. 255]
    <2>1. \A y \in Nat, m \in Nat : Len(s) = m * y => \A b \in 1 .. m : Block(s, b, y) \in [1 .. y -> 0 .. 255]
      BY BlocksAre, Zenon
    <2>2. \A y \in Nat : Len(s) = n * y => \A b \in 1 .. n : Block(s, b, y) \in [1 .. y -> 0 .. 255]
      BY <2>1, Zenon
    <2> QED
      BY <1>0, <2>2, Zenon
  <1>2. ASSUME NEW a \in 1 .. n PROVE h(a) = c(a)
    <2> DEFINE x == insts[a]
               y == Block(s, a, w)
    <2>1. w \in Nat
      OBVIOUS
    <2>2. y \in [1 .. w -> 0 .. 255]
      BY <1>1, Zenon
    <2>3. HexHolds(x, y, w)
      OBVIOUS
    <2> HIDE DEF x, y
    <2>4. IsPairs(x, y, w)
      BY <2>1, <2>2, <2>3, PairsOfText, Zenon
    <2> QED
      BY <2>4, Zenon DEF x, y, IsPairs
  <1>3. \A i \in 1 .. n * w : Pair(s[i]) \in STRING
    <2>1. \A i \in 1 .. Len(s) : s[i] \in 0 .. 255
      BY ElementOfSeq
    <2>2. \A i \in 1 .. n * w : s[i] \in 0 .. 255
      BY <2>1, Zenon
    <2> QED
      BY <2>2, PairIs, Zenon
  <1>4. \A a \in 1 .. n : c(a) \in Seq(STRING) /\ Len(c(a)) = w /\ \A k \in 1 .. w : c(a)[k] = Pair(s[(a - 1) * w + k])
    <2> SUFFICES ASSUME NEW a \in 1 .. n
                 PROVE  c(a) \in Seq(STRING) /\ Len(c(a)) = w
                        /\ \A k \in 1 .. w : c(a)[k] = Pair(s[(a - 1) * w + k])
      BY Zenon
    <2> DEFINE p(k) == Pair(s[(a - 1) * w + k])
    <2>1. \A k \in 1 .. w : p(k) \in STRING
      BY <1>0, <1>3, BlockPlaces, Zenon
    <2>2. \A k \in 1 .. w : Pair(Block(s, a, w)[k]) = p(k)
      <3>1. \A k \in 1 .. w : Block(s, a, w)[k] = s[(a - 1) * w + k]
        BY DEF Block
      <3> QED
        BY <3>1, Zenon
    <2> HIDE DEF p
    <2>3. c(a) = [k \in 1 .. w |-> p(k)]
      BY <2>2
    <2> HIDE DEF c
    <2>4. c(a) \in [1 .. w -> STRING] /\ \A k \in 1 .. w : c(a)[k] = p(k)
      BY <2>1, <2>3
    <2> DEFINE ca == c(a)
    <2> HIDE DEF ca
    <2>5. ca \in [1 .. w -> STRING]
      BY <2>4, Zenon DEF ca
    <2>6. ca \in Seq(STRING) /\ Len(ca) = w
      BY <1>0, <2>5, SeqDef, LenProperties
    <2> QED
      BY <2>4, <2>6, Zenon DEF ca, p
  <1>5. Concat([a \in DOMAIN insts |-> HexPairs(insts[a])]) = Concat([a \in 1 .. n |-> h(a)])
    BY Zenon
  <1> HIDE DEF h, c
  <1>6. [a \in 1 .. n |-> h(a)] = lists
    BY <1>2
  <1>7. lists \in [1 .. n -> Seq(STRING)] /\ \A a \in 1 .. n : lists[a] = c(a)
    BY <1>4
  <1> HIDE DEF lists
  <1>8. lists \in Seq(Seq(STRING)) /\ Len(lists) = n
    BY <1>7, SeqDef, LenProperties
  <1> DEFINE t == Concat(lists)
  <1>9. t \in Seq(STRING) /\ InBlocks(t, lists, n, w)
    <2>1. \A a \in 1 .. Len(lists) : Len(lists[a]) = w
      BY <1>4, <1>7, <1>8, Zenon
    <2> QED
      BY <1>0, <1>8, <2>1, ConcatBlocks, Zenon
  <1> HIDE DEF t
  <1> DEFINE p(j) == Pair(s[j])
             m == n * w
  <1>10. P = [j \in 1 .. m |-> p(j)]
    BY Zenon
  <1>11. \A j \in 1 .. m : p(j) \in STRING
    BY <1>3, Zenon
  <1>12. m \in Nat
    BY <1>0
  <1> HIDE DEF p, P, m
  <1>13. P \in [1 .. m -> STRING] /\ \A j \in 1 .. m : P[j] = p(j)
    BY <1>10, <1>11
  <1>14. P \in Seq(STRING) /\ Len(P) = m
    BY <1>12, <1>13, SeqDef, LenProperties
  <1>15. InBlocks(P, lists, n, w)
    <2>1. ASSUME NEW a \in 1 .. n, NEW k \in 1 .. w PROVE P[(a - 1) * w + k] = lists[a][k]
      <3>1. (a - 1) * w + k \in 1 .. m
        BY <1>0, BlockPlaces, Zenon DEF m
      <3>2. P[(a - 1) * w + k] = Pair(s[(a - 1) * w + k])
        BY <1>13, <3>1, Zenon DEF p
      <3>3. c(a)[k] = Pair(s[(a - 1) * w + k])
        BY <1>4, Zenon
      <3> QED
        BY <1>7, <3>2, <3>3, Zenon
    <2> QED
      BY <1>14, <2>1, Zenon DEF InBlocks, m
  <1>16. t = P
    BY <1>0, <1>9, <1>14, <1>15, SameBlocks, Zenon
  <1> QED
    BY <1>5, <1>6, <1>16, Zenon DEF t, P

LEMMA PaddedType ==
  ASSUME NEW s \in Seq(0 .. 255), NEW n \in Nat
  PROVE  /\ Padded(s, n) \in [1 .. n -> 0 .. 255]
         /\ Padded(s, n) \in Seq(0 .. 255) /\ Len(Padded(s, n)) = n
  <1> DEFINE v(j) == IF j <= Len(s) THEN s[j] ELSE 0
             x == Padded(s, n)
  <1>1. Len(s) \in Nat /\ \A i \in 1 .. Len(s) : s[i] \in 0 .. 255
    BY LenProperties, ElementOfSeq
  <1>2. \A j \in 1 .. n : v(j) \in 0 .. 255
    <2> SUFFICES ASSUME NEW j \in 1 .. n PROVE v(j) \in 0 .. 255
      BY Zenon
    <2>1. j <= Len(s) => j \in 1 .. Len(s)
      BY <1>1
    <2>2. 0 \in 0 .. 255
      OBVIOUS
    <2> QED
      BY <1>1, <2>1, <2>2, Zenon
  <1>3. x = [j \in 1 .. n |-> v(j)]
    BY Zenon DEF Padded
  <1> HIDE DEF v, x
  <1>4. x \in [1 .. n -> 0 .. 255]
    BY <1>2, <1>3
  <1>5. x \in Seq(0 .. 255) /\ Len(x) = n
    BY <1>4, SeqDef, LenProperties
  <1> QED
    BY <1>4, <1>5, Zenon DEF x

(* The words of a MIF file, read from their ends.                          *)
MifByte(bytes, i) == IF i <= Len(bytes) THEN bytes[i] ELSE "00"

LEMMA MifByteIs ==
  ASSUME StringsAreSequences, NEW s \in Seq(0 .. 255), NEW m \in Nat, NEW n \in Nat, Len(s) = n,
         NEW i \in 1 .. m
  PROVE  MifByte([j \in 1 .. n |-> Pair(s[j])], i) = Pair(Padded(s, m)[i])
  <1> DEFINE p(j) == Pair(s[j])
             P == [j \in 1 .. n |-> p(j)]
  <1>1. \A j \in 1 .. n : p(j) \in STRING
    <2>1. \A j \in 1 .. Len(s) : s[j] \in 0 .. 255
      BY ElementOfSeq
    <2> QED
      BY <2>1, PairIs, Zenon
  <1> HIDE DEF p
  <1>2. P \in [1 .. n -> STRING] /\ \A j \in 1 .. n : P[j] = p(j)
    BY <1>1
  <1> HIDE DEF P
  <1>3. Len(P) = n
    BY <1>2, SeqDef, LenProperties
  <1>4. Padded(s, m)[i] = IF i <= n THEN s[i] ELSE 0
    <2> DEFINE v(j) == IF j <= Len(s) THEN s[j] ELSE 0
    <2>1. Padded(s, m) = [j \in 1 .. m |-> v(j)]
      BY Zenon DEF Padded
    <2> HIDE DEF v
    <2>2. Padded(s, m)[i] = v(i)
      BY <2>1
    <2> QED
      BY <2>2, Zenon DEF v
  <1>5. CASE i <= n
    <2>1. i \in 1 .. n
      BY <1>5
    <2>2. MifByte(P, i) = p(i)
      BY <1>2, <1>3, <1>5, <2>1, Zenon DEF MifByte
    <2>3. Padded(s, m)[i] = s[i]
      BY <1>4, <1>5, Zenon
    <2> QED
      BY <2>2, <2>3, Zenon DEF p, P
  <1>6. CASE ~(i <= n)
    <2>1. MifByte(P, i) = "00"
      BY <1>3, <1>6, Zenon DEF MifByte
    <2>2. Padded(s, m)[i] = 0
      BY <1>4, <1>6, Zenon
    <2> QED
      BY <2>1, <2>2, ZeroPair, Zenon DEF p, P
  <1> QED
    BY <1>5, <1>6, Zenon

(* The words of a MIF file: those of the bytes, with zeros to the end.     *)
Words4(n, w) == (n * 4 + w - 1) \div w

HoldsBlocks(text, s, n, w) ==
  DOMAIN text = 1 .. n /\ \A a \in 1 .. n : HexHolds(text[a], Block(s, a, w), w)

LEMMA MifHolds ==
  ASSUME StringsAreSequences, NEW s \in Seq(0 .. 255), NEW n \in Nat, Len(s) = n * 4,
         NEW insts, HoldsBlocks(insts, s, n, 4), NEW w \in Nat \ {0}
  PROVE  HoldsBlocks(MifWords(insts, w), Padded(s, Words4(n, w) * w), Words4(n, w), w)
  <1> DEFINE bytes == Concat([i \in DOMAIN insts |-> HexPairs(insts[i])])
             c == n * 4
             m == Words4(n, w)
             vals == Padded(s, m * w)
             P == [j \in 1 .. c |-> Pair(s[j])]
  <1>1. bytes = P
    <2>1. 4 \in Nat \ {0}
      OBVIOUS
    <2>2. DOMAIN insts = 1 .. n /\ \A a \in 1 .. n : HexHolds(insts[a], Block(s, a, 4), 4)
      BY Zenon DEF HoldsBlocks
    <2>3. \A k \in Nat \ {0} :
             Len(s) = n * k /\ (\A a \in 1 .. n : HexHolds(insts[a], Block(s, a, k), k)) =>
               bytes = [j \in 1 .. n * k |-> Pair(s[j])]
      BY <2>2, PairsOfListing, Zenon
    <2> QED
      BY <2>1, <2>2, <2>3, Zenon
  <1>2. c \in Nat /\ w \in Nat
    OBVIOUS
  <1>3. m \in Nat
    BY <1>2, Rounding, Zenon DEF Words4
  <1>4. m * w \in Nat
    BY <1>2, <1>3
  <1>5. Len(bytes) = c
    <2> DEFINE p(j) == Pair(s[j])
    <2>1. \A j \in 1 .. c : p(j) \in STRING
      <3>1. \A j \in 1 .. Len(s) : s[j] \in 0 .. 255
        BY ElementOfSeq
      <3> QED
        BY <3>1, PairIs, Zenon
    <2> HIDE DEF p, c, bytes
    <2>2. bytes = [j \in 1 .. c |-> p(j)]
      BY <1>1, Zenon DEF p
    <2>3. bytes \in [1 .. c -> STRING]
      BY <2>1, <2>2
    <2> QED
      BY <1>2, <2>3, SeqDef, LenProperties
  <1> HIDE DEF c, m
  <1>6. \A i \in 1 .. m * w : MifByte(bytes, i) = Pair(vals[i])
    <2> HIDE DEF bytes, vals
    <2>1. Len(s) = c
      BY Zenon DEF c
    <2>2. \A i \in 1 .. m * w : MifByte(P, i) = Pair(vals[i])
      BY <1>2, <1>4, <2>1, MifByteIs, Zenon DEF vals
    <2> QED
      BY <1>1, <2>2, Zenon
  <1> DEFINE line(a) == Join([i \in 1 .. w |-> MifByte(bytes, a * w - i + 1)])
  <1>7. MifWords(insts, w) = [a \in 1 .. m |-> line(a)]
    <2>1. MifWords(insts, w) = [a \in 1 .. (Len(bytes) + w - 1) \div w |-> line(a)]
      BY Zenon DEF MifWords, MifByte
    <2> HIDE DEF line, bytes
    <2> QED
      BY <1>5, <2>1, Zenon DEF m, Words4, c
  <1>8. vals \in Seq(0 .. 255) /\ Len(vals) = m * w
    BY <1>4, PaddedType, Zenon
  <1> HIDE DEF bytes, vals
  <1>9. ASSUME NEW a \in 1 .. m PROVE HexHolds(line(a), Block(vals, a, w), w)
    <2> DEFINE b == Block(vals, a, w)
               h(i) == MifByte(bytes, a * w - i + 1)
               q(i) == Pair(b[w - i + 1])
    <2>1. b \in [1 .. w -> 0 .. 255]
      <3>1. \A y \in Nat, k \in Nat : Len(vals) = k * y => \A d \in 1 .. k : Block(vals, d, y) \in [1 .. y -> 0 .. 255]
        BY <1>8, BlocksAre, Zenon
      <3>2. \A y \in Nat : Len(vals) = m * y => \A d \in 1 .. m : Block(vals, d, y) \in [1 .. y -> 0 .. 255]
        BY <1>3, <3>1, Zenon
      <3> QED
        BY <1>2, <1>8, <3>2, Zenon
    <2>2. ASSUME NEW i \in 1 .. w PROVE h(i) = q(i)
      <3> DEFINE k == w - i + 1
      <3>1. k \in 1 .. w
        OBVIOUS
      <3>2. a * w - i + 1 = (a - 1) * w + k
        OBVIOUS
      <3> HIDE DEF k
      <3>3. (a - 1) * w + k \in 1 .. m * w
        BY <1>2, <1>3, <3>1, BlockPlaces, Zenon
      <3>4. b[k] = vals[(a - 1) * w + k]
        BY <3>1 DEF Block
      <3> HIDE DEF b
      <3>5. MifByte(bytes, (a - 1) * w + k) = Pair(b[k])
        BY <1>6, <3>3, <3>4, Zenon
      <3> QED
        BY <3>2, <3>5, Zenon DEF k
    <2> HIDE DEF b, h
    <2> HIDE DEF q
    <2> DEFINE cs == [i \in 1 .. w |-> h(i)]
    <2>3. cs = [i \in 1 .. w |-> q(i)]
      BY <2>2
    <2> HIDE DEF cs
    <2>4. cs = [i \in 1 .. w |-> Pair(b[w - i + 1])]
      BY <2>3, Zenon DEF q
    <2>5. HexHolds(Join(cs), b, w)
      BY <1>2, <2>1, <2>4, PairsHold, Zenon
    <2> QED
      BY <2>5, Zenon DEF b, cs, h
  <1> HIDE DEF line
  <1> DEFINE text == MifWords(insts, w)
  <1>10. DOMAIN text = 1 .. m /\ \A a \in 1 .. m : text[a] = line(a)
    BY <1>7
  <1> HIDE DEF text
  <1>11. HoldsBlocks(text, vals, m, w)
    BY <1>9, <1>10, Zenon DEF HoldsBlocks
  <1> QED
    BY <1>11, Zenon DEF text, vals, m

-----------------------------------------------------------------------------
(* What stops a run *)

(* None of the reasons is that it succeeded.                               *)
Success  == "success"
ReadErrors == {"", "bad_imm", "parse_unexpected", "bad_reg_format", "unmatched_parenthesis"}
AssembleErrors == ReadErrors \cup {"invalid_reg", "bad_mnemonic", "asm_bad_arg_count"}

LEMMA ErrorOf == \A e, v : Throw(e).err = e /\ Return(v).err = ""
  BY DEF Throw, Return

LEMMA NumberErrors == \A s : numeric_interpret(s).err \in {"", "bad_imm"}
  <1>1. ASSUME NEW digits, NEW radix
        PROVE  Value(digits, radix).err \in {"", "bad_imm"} /\ DOMAIN Value(digits, radix) = {"err", "val"}
    <2>1. \E x : Value(digits, radix) = Return(x) \/ Value(digits, radix) = Throw("bad_imm")
      BY Zenon DEF Value
    <2>2. \A x, e : DOMAIN Return(x) = {"err", "val"} /\ DOMAIN Throw(e) = {"err", "val"}
      BY Zenon DEF Return, Throw
    <2> QED
      BY <2>1, <2>2, ErrorOf, Zenon
  <1>2. ASSUME NEW v, DOMAIN v = {"err", "val"} PROVE Negated(v).err = v.err
    BY <1>2 DEF Negated
  <1>3. ASSUME NEW text, NEW radix PROVE Interpret(text, radix).err \in {"", "bad_imm"}
    <2> DEFINE v == Value(Digits(text), radix)
    <2>1. Interpret(text, radix) \in {Throw("bad_imm"), Negated(v), v}
      BY Zenon DEF Interpret
    <2>2. v.err \in {"", "bad_imm"} /\ Negated(v).err = v.err
      BY <1>1, <1>2, Zenon
    <2> HIDE DEF v
    <2> QED
      BY <2>1, <2>2, ErrorOf, Zenon
  <1> QED
    BY <1>3, Zenon DEF numeric_interpret

LEMMA RegisterErrors == \A s, stray : Register(s, stray).err \in ReadErrors
  <1> SUFFICES ASSUME NEW s, NEW stray PROVE Register(s, stray).err \in ReadErrors
    BY Zenon
  <1>1. \/ Register(s, stray) = Return(friendly_to_numerical(s))
        \/ Register(s, stray) = get_reg_num(s, stray)
    BY Zenon DEF Register
  <1>2. \/ get_reg_num(s, stray) \in {Throw("bad_imm"), Throw("parse_unexpected"), Throw("bad_reg_format")}
        \/ get_reg_num(s, stray) = numeric_interpret(SubSeq(s, 2, Len(s)) \o stray)
    BY Zenon DEF get_reg_num
  <1> QED
    BY <1>1, <1>2, ErrorOf, NumberErrors, Zenon DEF ReadErrors

LEMMA BaseErrors == \A s, stray : BaseRegister(s, stray).err \in ReadErrors
  <1> SUFFICES ASSUME NEW s, NEW stray PROVE BaseRegister(s, stray).err \in ReadErrors
    BY Zenon
  <1>1. BaseRegister(s, stray) \in {Throw("unmatched_parenthesis"), Register(Unparenthesized(s), stray)}
    BY Zenon DEF BaseRegister
  <1> QED
    BY <1>1, ErrorOf, RegisterErrors, Zenon DEF ReadErrors

LEMMA OperandErrors ==
  ASSUME NEW op, NEW base, NEW syms
  PROVE  \A s, stray : /\ FirstArg(op, s, syms, stray).err \in ReadErrors
                       /\ SecondArg(op, s, stray).err \in ReadErrors
                       /\ ThirdArg(op, s, base, syms, stray).err \in ReadErrors
  <1> DEFINE Fine(r) == r.err \in ReadErrors
  <1>1. ASSUME NEW f, NEW r, Fine(r) PROVE Fine(Set(f, r))
    <2>1. Set(f, r).err = r.err
      BY DEF Set
    <2> QED
      BY <1>1, <2>1, Zenon
  <1>2. /\ \A s, stray : Fine(Register(s, stray)) /\ Fine(BaseRegister(s, stray)) /\ Fine(get_imm(s))
        /\ \A v : Fine(Return(v))
    BY RegisterErrors, BaseErrors, NumberErrors, ErrorOf, Zenon DEF get_imm, ReadErrors
  <1> SUFFICES ASSUME NEW s, NEW stray
               PROVE  /\ Fine(FirstArg(op, s, syms, stray)) /\ Fine(SecondArg(op, s, stray))
                      /\ Fine(ThirdArg(op, s, base, syms, stray))
    BY Zenon
  <1>3. \E f, r : FirstArg(op, s, syms, stray) = Set(f, r) /\ Fine(r)
    <2> HIDE DEF Fine
    <2>1. \/ FirstArg(op, s, syms, stray) = Set("rd", Register(s, stray))
          \/ FirstArg(op, s, syms, stray) = Set("rt", Register(s, stray))
          \/ FirstArg(op, s, syms, stray) = Set("rs", Register(s, stray))
          \/ FirstArg(op, s, syms, stray) = Set("imm", Return(syms[s] \div 4))
          \/ FirstArg(op, s, syms, stray) = Set("imm", get_imm(s))
          \/ FirstArg(op, s, syms, stray) = Set("signum", get_imm(s))
      BY DEF FirstArg
    <2> QED
      BY <1>2, <2>1, Zenon
  <1>4. \E f, r : SecondArg(op, s, stray) = Set(f, r) /\ Fine(r)
    <2> HIDE DEF Fine
    <2>1. \/ SecondArg(op, s, stray) = Set("rs", BaseRegister(s, stray))
          \/ SecondArg(op, s, stray) = Set("rs", Register(s, stray))
          \/ SecondArg(op, s, stray) = Set("imm", get_imm(s))
          \/ SecondArg(op, s, stray) = Set("filter", get_imm(s))
      BY DEF SecondArg
    <2> QED
      BY <1>2, <2>1, Zenon
  <1>5. \E f, r : ThirdArg(op, s, base, syms, stray) = Set(f, r) /\ Fine(r)
    <2> HIDE DEF Fine
    <2>1. \/ ThirdArg(op, s, base, syms, stray) = Set("rt", Register(s, stray))
          \/ ThirdArg(op, s, base, syms, stray) = Set("imm", Return(offset_to_address_br(base, syms[s])))
          \/ ThirdArg(op, s, base, syms, stray) = Set("imm", get_imm(s))
      BY Zenon DEF ThirdArg
    <2> QED
      BY <1>2, <2>1, Zenon
  <1> HIDE DEF Fine
  <1> QED
    BY <1>1, <1>3, <1>4, <1>5, Zenon

LEMMA EncodeErrors ==
  ASSUME NEW op, NEW arg, DOMAIN arg \subseteq Nat, \A k \in DOMAIN arg : arg[k].err \in ReadErrors
  PROVE  Encode(op, arg).err \in AssembleErrors
  <1> DEFINE bad == {k \in DOMAIN arg : arg[k].err # ""}
  <1>1. CASE bad = {}
    <2>1. Encode(op, arg) = generic_mips32_encode(op, FieldValue(arg, "rs"), FieldValue(arg, "rt"),
                                FieldValue(arg, "rd"), FieldValue(arg, "imm"),
                                FieldValue(arg, "filter"), FieldValue(arg, "signum"))
      BY <1>1, Zenon DEF Encode
    <2>2. \A rs, rt, rd, imm, filter, signum :
            generic_mips32_encode(op, rs, rt, rd, imm, filter, signum).err \in {"", "invalid_reg"}
      BY ErrorOf, Zenon DEF generic_mips32_encode
    <2>3. Encode(op, arg).err \in {"", "invalid_reg"}
      BY <2>1, <2>2, Zenon
    <2> QED
      BY <2>3, Zenon DEF AssembleErrors, ReadErrors
  <1>2. CASE bad # {}
    <2>1. bad \subseteq Nat
      BY Zenon
    <2>2. Encode(op, arg) = Throw(arg[Min(bad)].err)
      BY <1>2, Zenon DEF Encode
    <2>3. \A m \in bad : arg[m].err \in ReadErrors
      BY Zenon
    <2> HIDE DEF bad
    <2>4. Min(bad) \in bad
      BY <1>2, <2>1, LeastIn
    <2> DEFINE e == arg[Min(bad)].err
    <2>5. e \in ReadErrors
      BY <2>3, <2>4, Zenon
    <2> HIDE DEF e
    <2>6. Encode(op, arg) = Throw(e)
      BY <2>2, Zenon DEF e
    <2>7. Encode(op, arg).err = e
      BY <2>6, ErrorOf, Zenon
    <2> QED
      BY <2>5, <2>7, Zenon DEF AssembleErrors
  <1> QED
    BY <1>1, <1>2, Zenon

LEMMA ErrorsOfAssemble ==
  ASSUME NEW args \in Seq(STRING), NEW base, NEW syms, NEW stray
  PROVE  assemble(args, base, syms, stray).err \in AssembleErrors
  <1> DEFINE R(k) == IF k = 1 THEN FirstArg(args[1], args[2], syms, stray[1])
                     ELSE IF k = 2 THEN SecondArg(args[1], args[3], stray[2])
                     ELSE ThirdArg(args[1], args[4], base, syms, stray[3])
             arg == ReadOperands(args, base, syms, stray)
  <1>1. arg = [k \in 1 .. Len(args) - 1 |-> R(k)]
    BY Zenon DEF ReadOperands
  <1>2. \A k : R(k).err \in ReadErrors
    BY OperandErrors, Zenon
  <1> HIDE DEF R, arg
  <1>3. DOMAIN arg \subseteq Nat /\ \A k \in DOMAIN arg : arg[k].err \in ReadErrors
    <2>1. DOMAIN arg = 1 .. Len(args) - 1 /\ \A k \in 1 .. Len(args) - 1 : arg[k] = R(k)
      BY <1>1
    <2>2. 1 .. Len(args) - 1 \subseteq Nat
      BY LenProperties
    <2> QED
      BY <1>2, <2>1, <2>2, Zenon
  <1>4. Encode(args[1], arg).err \in AssembleErrors
    BY <1>3, EncodeErrors, Zenon
  <1>5. assemble(args, base, syms, stray) \in
          {Return({}), Throw("bad_mnemonic"), Throw("asm_bad_arg_count"), Encode(args[1], arg)}
    BY Zenon DEF assemble, arg
  <1> QED
    BY <1>4, <1>5, ErrorOf, Zenon DEF AssembleErrors, ReadErrors

LEMMA ChopErrors == \A s : chop_string(s).err \in {"", "bad_escape"}
  <1> SUFFICES ASSUME NEW s PROVE chop_string(s).err \in {"", "bad_escape"}
    BY Zenon
  <1>1. chop_string(s) = Throw("bad_escape") \/ \E v : chop_string(s) = Return(v)
    BY Zenon DEF chop_string
  <1> QED
    BY <1>1, ErrorOf, Zenon

LEMMA NotSuccess ==
  /\ Success \notin AssembleErrors /\ Success \notin {"", "bad_escape"}
  /\ Success # "multidef_symbol" /\ Success # "illegal_file" /\ Success # ""
  /\ \A e : OptionError(e) # Success
  <1>1. ASSUME NEW e PROVE OptionError(e) # Success
    BY Zenon DEF OptionError, Success
  <1> QED
    BY <1>1, Zenon DEF AssembleErrors, ReadErrors, Success

-----------------------------------------------------------------------------
(* The options of a command line *)

LEMMA MostIn ==
  ASSUME NEW n \in Nat, NEW S, S \subseteq 0 .. n, S # {}
  PROVE  Max(S) \in S
  <1> DEFINE P(x) == \A y \in S : x >= y
             T == {k \in 0 .. n : n - k \in S}
             m == Min(T)
  <1>1. T \subseteq Nat /\ T # {}
    <2>1. PICK y \in 0 .. n : y \in S
      OBVIOUS
    <2>2. n - y \in 0 .. n /\ n - (n - y) = y
      OBVIOUS
    <2>3. n - y \in T
      BY <2>1, <2>2, Zenon
    <2>4. 0 .. n \subseteq Nat
      OBVIOUS
    <2>5. T \subseteq 0 .. n
      BY Zenon
    <2> QED
      BY <2>3, <2>4, <2>5, Zenon
  <1> HIDE DEF T
  <1>2. m \in T /\ \A k \in T : m <= k
    BY <1>1, LeastIn
  <1> HIDE DEF m
  <1>3. n - m \in S /\ P(n - m)
    BY <1>2 DEF T
  <1> DEFINE c == CHOOSE x \in S : P(x)
  <1>4. \E x \in S : P(x)
    BY <1>3
  <1> HIDE DEF P
  <1>5. c \in S
    BY <1>4, Zenon
  <1>6. c = Max(S)
    BY Zenon DEF P, Max
  <1> QED
    BY <1>5, <1>6, Zenon

LEMMA NumberAlways == ASSUME StringsAreSequences, NEW s \in STRING PROVE numeric_interpret(s).val \in Int
  <1>1. CASE Returned(numeric_interpret(s))
    BY <1>1, NumberType
  <1>2. CASE ~Returned(numeric_interpret(s))
    <2> DEFINE bad == Throw("bad_imm")
    <2>1. bad.val = 0 /\ Negated(bad).val = -0
      BY DEF Throw, Negated
    <2>2. ASSUME NEW digits, NEW radix, ~Returned(Value(digits, radix)) PROVE Value(digits, radix) = bad
      <3>1. \E x : Value(digits, radix) = Return(x) \/ Value(digits, radix) = bad
        BY Zenon DEF Value
      <3> QED
        BY <2>2, <3>1, Results, Zenon
    <2>3. ASSUME NEW v PROVE Returned(v) /\ DOMAIN v = {"err", "val"} => Returned(Negated(v))
      BY DEF Returned, Negated
    <2>4. ASSUME NEW digits, NEW radix PROVE DOMAIN Value(digits, radix) = {"err", "val"}
      <3>1. \E x : Value(digits, radix) = Return(x) \/ Value(digits, radix) = bad
        BY Zenon DEF Value
      <3>2. \A x, e : DOMAIN Return(x) = {"err", "val"} /\ DOMAIN Throw(e) = {"err", "val"}
        BY Zenon DEF Return, Throw
      <3> QED
        BY <3>1, <3>2, Zenon
    <2>5. ASSUME NEW text, NEW radix, ~Returned(Interpret(text, radix))
          PROVE  Interpret(text, radix) \in {bad, Negated(bad)}
      <3> DEFINE v == Value(Digits(text), radix)
      <3>1. Interpret(text, radix) \in {bad, Negated(v), v}
        BY Zenon DEF Interpret
      <3>2. (~Returned(v) => v = bad) /\ (Returned(v) => Returned(Negated(v)))
        BY <2>2, <2>3, <2>4, Zenon
      <3> HIDE DEF v, bad
      <3> QED
        BY <2>5, <3>1, <3>2, Zenon
    <2>6. numeric_interpret(s) \in {bad, Negated(bad)}
      BY <1>2, <2>5, Zenon DEF numeric_interpret
    <2> HIDE DEF bad
    <2> QED
      BY <2>1, <2>6
  <1> QED
    BY <1>1, <1>2

LEMMA Wrapped == \A v \in Int : AsUnsigned(v) \in Nat /\ AsInt(v) \in Int
  <1> SUFFICES ASSUME NEW v \in Int PROVE AsUnsigned(v) \in Nat /\ AsInt(v) \in Int
    OBVIOUS
  <1>1. UnsignedMod \in Nat \ {0}
    BY UnsignedAssumption
  <1>2. AsUnsigned(v) \in Nat
    BY <1>1 DEF AsUnsigned
  <1> QED
    BY <1>1, <1>2 DEF AsInt

LEMMA RunEndType ==
  ASSUME StringsAreSequences, NEW s \in STRING, NEW k \in 0 .. Len(s), NEW set
  PROVE  RunEnd(s, k, set) \in k .. Len(s)
  <1> DEFINE ends == {n \in k .. Len(s) : \A i \in k + 1 .. n : SubSeq(s, i, i) \in set}
  <1>1. Len(s) \in Nat
    BY TextLaws
  <1>2. k \in k .. Len(s) /\ k .. Len(s) \subseteq 0 .. Len(s) /\ \A i \in k + 1 .. k : FALSE
    <2>1. \A n \in Nat : \A m \in 0 .. n : m \in m .. n /\ m .. n \subseteq 0 .. n /\ \A i \in m + 1 .. m : FALSE
      OBVIOUS
    <2> QED
      BY <1>1, <2>1, Zenon
  <1>3. k \in ends /\ ends \subseteq k .. Len(s)
    BY <1>2, Zenon
  <1> HIDE DEF ends
  <1>4. ends \subseteq 0 .. Len(s) /\ ends # {}
    BY <1>2, <1>3, Zenon
  <1>5. Max(ends) \in ends
    BY <1>1, <1>4, MostIn
  <1> QED
    BY <1>3, <1>5, Zenon DEF RunEnd, ends

LEMMA NumberAfterType ==
  ASSUME StringsAreSequences, NEW s \in STRING, NEW k \in 0 .. Len(s)
  PROVE  NumberAfter(s, k) \in Int
  <1> DEFINE end == RunEnd(s, k, DecDigits)
             t == SubSeq(s, k + 1, end)
  <1>1. Len(s) \in Nat /\ end \in k .. Len(s)
    BY TextLaws, RunEndType, Zenon
  <1> HIDE DEF end
  <1>2. k + 1 \in Nat \ {0} /\ end \in Int /\ end <= Len(s)
    <2>1. \A n \in Nat : \A m \in 0 .. n : m + 1 \in Nat \ {0} /\ \A e \in m .. n : e \in Int /\ e <= n
      OBVIOUS
    <2> QED
      BY <1>1, <2>1, Zenon
  <1>3. t \in STRING
    BY <1>2, TextLaws, Zenon
  <1>4. numeric_interpret(t).val \in Int
    BY <1>3, NumberAlways
  <1>5. NumberAfter(s, k) \in {0, numeric_interpret(t).val}
    BY Zenon DEF NumberAfter, end
  <1> HIDE DEF t
  <1> QED
    BY <1>4, <1>5

LEMMA AtoiType == ASSUME StringsAreSequences, NEW s \in STRING PROVE atoi(s) \in Int
  <1> DEFINE last == Len(s)
             after == [k \in 0 .. last |-> NumberAfter(s, k)]
             value(k) == CASE CharAfter(s, k) = "-" -> -after[k + 1]
                           [] CharAfter(s, k) = "+" -> after[k + 1]
                           [] OTHER -> after[k]
             signed == [k \in 0 .. last |-> value(k)]
             start == RunEnd(s, 0, Blanks)
  <1>1. last \in Nat /\ 0 \in 0 .. last
    <2>1. \A n \in Nat : 0 \in 0 .. n
      OBVIOUS
    <2> QED
      BY TextLaws, <2>1, Zenon
  <1>2. start \in 0 .. last
    BY <1>1, RunEndType, Zenon
  <1>3. \A k \in 0 .. last : NumberAfter(s, k) \in Int
    BY NumberAfterType
  <1>4. atoi(s) = AsInt(signed[start])
    BY Zenon DEF atoi
  <1>5. \A k \in 0 .. last : ~(k < last) => CharAfter(s, k) = ""
    BY Zenon DEF CharAfter
  <1> HIDE DEF last, start
  <1>6. \A k \in 0 .. last : after[k] \in Int
    BY <1>3
  <1> HIDE DEF after
  <1>7. \A k \in 0 .. last : k < last => k + 1 \in 0 .. last
    BY <1>1
  <1>8. \A k \in 0 .. last : value(k) \in Int
    <2> SUFFICES ASSUME NEW k \in 0 .. last PROVE value(k) \in Int
      BY Zenon
    <2>1. CharAfter(s, k) \in {"-", "+"} => k + 1 \in 0 .. last
      BY <1>5, <1>7, Zenon
    <2>2. value(k) \in {-after[k + 1], after[k + 1], after[k]}
      BY Zenon
    <2>3. CharAfter(s, k) \notin {"-", "+"} => value(k) = after[k]
      BY Zenon
    <2> HIDE DEF value
    <2>4. CASE CharAfter(s, k) \in {"-", "+"}
      BY <1>6, <2>1, <2>2, <2>4
    <2>5. CASE CharAfter(s, k) \notin {"-", "+"}
      BY <1>6, <2>3, <2>5, Zenon
    <2> QED
      BY <2>4, <2>5, Zenon
  <1> HIDE DEF value
  <1>9. signed[start] \in Int
    BY <1>2, <1>8
  <1> HIDE DEF signed
  <1> QED
    BY <1>4, <1>9, Wrapped, Zenon

(* A word size that was given is at least 1, and one that was not is 4.    *)
Sized(e) ==
  e.width \in Int /\ (e.WordSizeValue => e.width > 0) /\ (~e.WordSize => e.width = 4)
SizedEnvs == {e \in Envs : Sized(e)}

LEMMA SizedStays ==
  ASSUME StringsAreSequences, NEW e \in SizedEnvs, NEW arg \in STRING, NEW more \in BOOLEAN, NEW next \in STRING
  PROVE  ReadOption(e, arg, more, next) \in SizedEnvs
  <1> DEFINE r == ReadOption(e, arg, more, next)
  <1>0. e \in Envs /\ Sized(e)
    BY DEF SizedEnvs
  <1>1. r \in Envs
    BY <1>0, ReadOptionType, Zenon
  <1>2. CASE arg = "-b"
    <2> DEFINE width == IF more THEN AsUnsigned(atoi(next)) ELSE e.width
               known == IF more THEN AsUnsigned(atoi(next)) > 0 ELSE e.WordSizeValue
    <2>1. r = [e EXCEPT !.WordSize = TRUE, !.width = width, !.WordSizeValue = known]
      BY <1>2 DEF ReadOption
    <2>2. AsUnsigned(atoi(next)) \in Int
      <3>1. atoi(next) \in Int
        BY AtoiType
      <3>2. \A k \in Nat : k \in Int
        OBVIOUS
      <3> QED
        BY <3>1, <3>2, Wrapped, Zenon
    <2>3. width \in Int /\ (known => width > 0)
      BY <1>0, <2>2 DEF Sized
    <2> HIDE DEF width, known
    <2>4. r.WordSize = TRUE /\ r.width = width /\ r.WordSizeValue = known
      BY <1>0, <2>1 DEF Envs
    <2> HIDE DEF r
    <2> QED
      BY <1>1, <2>3, <2>4, Zenon DEF Sized, SizedEnvs, r
  <1>3. CASE arg # "-b"
    <2>1. r.WordSize = e.WordSize /\ r.width = e.width /\ r.WordSizeValue = e.WordSizeValue
      BY <1>0, <1>3 DEF Envs, ReadOption
    <2> HIDE DEF r
    <2> QED
      BY <1>0, <1>1, <2>1, Zenon DEF Sized, SizedEnvs, r
  <1> QED
    BY <1>2, <1>3

LEMMA Sizes == 4 \in Int /\ \A x \in Int : x > 0 \/ x = 4 => x \in Nat \ {0}
  OBVIOUS

LEMMA OptionsRead ==
  ASSUME StringsAreSequences, NEW args \in Seq(STRING), OptionError(characterize_Env(args)) = ""
  PROVE  characterize_Env(args).st \in StreamTypes /\ characterize_Env(args).width \in Nat \ {0}
  <1> DEFINE e == characterize_Env(args)
  <1>1. Env \in SizedEnvs
    <2>1. Env.width = 4 /\ ~Env.WordSizeValue
      BY Zenon DEF Env
    <2>2. Sized(Env)
      BY <2>1, Sizes, Zenon DEF Sized
    <2> QED
      BY <2>2, EnvType, Zenon DEF SizedEnvs
  <1>2. e \in SizedEnvs
    <2>1. \A x \in SizedEnvs, arg \in STRING, more \in BOOLEAN, t \in STRING : ReadOption(x, arg, more, t) \in SizedEnvs
      BY SizedStays, Zenon
    <2> QED
      BY <1>1, <2>1, OptionsWithin, Zenon
  <1> HIDE DEF e
  <1>3. e \in Envs /\ Sized(e) /\ OptionError(e) = ""
    BY <1>2, Zenon DEF SizedEnvs, e
  <1>4. ~(e.WordSize /\ ~e.WordSizeValue)
    BY <1>3 DEF OptionError
  <1>5. e.width \in Nat \ {0}
    <2>1. e.width \in Int /\ (e.width > 0 \/ e.width = 4)
      BY <1>3, <1>4, Zenon DEF Sized
    <2> QED
      BY <2>1, Sizes, Zenon
  <1> QED
    BY <1>3, <1>5 DEF Envs, e

-----------------------------------------------------------------------------
(* What is in the stream *)

LEMMA BytesOfWord == \A w : LittleEndian(w) \in Seq(0 .. 255) /\ Len(LittleEndian(w)) = 4
  <1> SUFFICES ASSUME NEW w PROVE LittleEndian(w) \in Seq(0 .. 255) /\ Len(LittleEndian(w)) = 4
    BY Zenon
  <1>1. \A n \in 1 .. 4 : get_nth_byte(w, n - 1) \in 0 .. 255
    <2> SUFFICES ASSUME NEW n \in 1 .. 4 PROVE get_nth_byte(w, n - 1) \in 0 .. 255
      BY Zenon
    <2>1. 8 * (n - 1) \in Nat /\ 8 \in Nat
      OBVIOUS
    <2>2. Bits(w, 8, 8 * (n - 1)) \in 0 .. 2^8 - 1
      BY <2>1, BitsBelow, Zenon
    <2>3. 2^8 - 1 = 255
      OBVIOUS
    <2> QED
      BY <2>2, <2>3, Zenon DEF get_nth_byte
  <1> DEFINE b(n) == get_nth_byte(w, n - 1)
             l == [n \in 1 .. 4 |-> b(n)]
  <1>2. LittleEndian(w) = l
    BY Zenon DEF LittleEndian
  <1>3. \A n \in 1 .. 4 : b(n) \in 0 .. 255
    BY <1>1, Zenon
  <1> HIDE DEF b
  <1>4. l \in [1 .. 4 -> 0 .. 255]
    BY <1>3
  <1> HIDE DEF l
  <1>5. l \in Seq(0 .. 255) /\ Len(l) = 4
    <2> DEFINE B == 0 .. 255
    <2> HIDE DEF B
    <2>0. l \in [1 .. 4 -> B]
      BY <1>4, Zenon DEF B
    <2>1. l \in Seq(B)
      BY <2>0, SeqDef
    <2>2. DOMAIN l = 1 .. 4 /\ DOMAIN l = 1 .. Len(l) /\ Len(l) \in Nat
      BY <2>0, <2>1, LenProperties
    <2>3. Len(l) = 4
      BY <2>2
    <2> QED
      BY <2>1, <2>3, Zenon DEF B
  <1> QED
    BY <1>2, <1>5, Zenon

LEMMA PartsMeet ==
  ASSUME NEW C, NEW s \in Seq(C), NEW i \in Nat, NEW j \in Nat, i <= j, j <= Len(s)
  PROVE  SubSeq(s, 1, i) \o SubSeq(s, i + 1, j) = SubSeq(s, 1, j)
  <1> DEFINE p == SubSeq(s, 1, i)
             q == SubSeq(s, i + 1, j)
             r == SubSeq(s, 1, j)
             u == p \o q
  <1>0. Len(s) \in Nat
    BY LenProperties
  <1>1. p \in Seq(C) /\ Len(p) = i /\ \A k \in 1 .. i : p[k] = s[k]
    <2>1. 1 \in Nat \ {0} /\ i \in Int /\ i <= Len(s)
      BY <1>0
    <2> QED
      BY <2>1, PartOfText
  <1>2. q \in Seq(C) /\ Len(q) = j - i /\ \A k \in 1 .. j - i : q[k] = s[i + k]
    <2>1. i + 1 \in Nat \ {0} /\ j \in Int /\ j <= Len(s)
      BY <1>0
    <2> QED
      BY <2>1, PartOfText
  <1>3. r \in Seq(C) /\ Len(r) = j /\ \A k \in 1 .. j : r[k] = s[k]
    <2>1. 1 \in Nat \ {0} /\ j \in Int /\ j <= Len(s)
      BY <1>0
    <2> QED
      BY <2>1, PartOfText
  <1> HIDE DEF p, q, r
  <1>4. /\ u \in Seq(C) /\ Len(u) = Len(p) + Len(q)
        /\ \A k \in 1 .. Len(p) + Len(q) : u[k] = IF k <= Len(p) THEN p[k] ELSE q[k - Len(p)]
    BY <1>1, <1>2, ConcatProperties
  <1> HIDE DEF u
  <1>5. Len(u) = j
    BY <1>1, <1>2, <1>4
  <1>6. ASSUME NEW k \in 1 .. j PROVE u[k] = r[k]
    <2>1. CASE k <= i
      <3>1. u[k] = p[k] /\ k \in 1 .. i
        BY <1>1, <1>2, <1>4, <2>1
      <3> QED
        BY <1>1, <1>3, <3>1
    <2>2. CASE ~(k <= i)
      <3>1. u[k] = q[k - i] /\ k - i \in 1 .. j - i /\ i + (k - i) = k
        BY <1>1, <1>2, <1>4, <2>2
      <3> QED
        BY <1>2, <1>3, <3>1
    <2> QED
      BY <2>1, <2>2
  <1>7. u = r
    BY <1>3, <1>4, <1>5, <1>6, SameElements
  <1> QED
    BY <1>7, Zenon DEF u, p, q, r

LEMMA ListGrows ==
  ASSUME NEW n \in Nat, NEW hs, hs = [k \in 1 .. n + 1 |-> hs[k]]
  PROVE  Append([k \in 1 .. n |-> hs[k]], hs[n + 1]) = hs
  <1> DEFINE S == {hs[k] : k \in 1 .. n + 1}
             l == [k \in 1 .. n |-> hs[k]]
             a == Append(l, hs[n + 1])
  <1>1. hs \in [1 .. n + 1 -> S] /\ l \in [1 .. n -> S] /\ hs[n + 1] \in S
    OBVIOUS
  <1>2. \A k \in 1 .. n : l[k] = hs[k]
    OBVIOUS
  <1> HIDE DEF S, l
  <1>3. hs \in Seq(S) /\ Len(hs) = n + 1 /\ l \in Seq(S) /\ Len(l) = n
    BY <1>1, SeqDef, LenProperties
  <1>4. /\ a \in Seq(S) /\ Len(a) = n + 1 /\ a[n + 1] = hs[n + 1]
        /\ \A k \in 1 .. n : a[k] = l[k]
    BY <1>1, <1>3, AppendProperties
  <1> HIDE DEF a
  <1>5. \A k \in 1 .. n + 1 : a[k] = hs[k]
    <2>1. \A k \in 1 .. n + 1 : k \in 1 .. n \/ k = n + 1
      OBVIOUS
    <2> QED
      BY <1>2, <1>4, <2>1, Zenon
  <1>6. a = hs
    BY <1>3, <1>4, <1>5, SameElements
  <1> QED
    BY <1>6, Zenon DEF a, l

LEMMA ListingMore ==
  ASSUME NEW n \in Nat
  PROVE  Append(Listing(n), dynamicHexBuilder(SubSeq(prog, 4 * n + 1, 4 * n + 4))) = Listing(n + 1)
  <1> DEFINE h(k) == dynamicHexBuilder(SubSeq(prog, 4 * (k - 1) + 1, 4 * (k - 1) + 4))
             hs == [k \in 1 .. n + 1 |-> h(k)]
             l == [k \in 1 .. n |-> h(k)]
  <1>1. Listing(n + 1) = hs /\ Listing(n) = l
    BY Zenon DEF Listing
  <1>2. h(n + 1) = dynamicHexBuilder(SubSeq(prog, 4 * n + 1, 4 * n + 4))
    <2>1. 4 * ((n + 1) - 1) = 4 * n
      OBVIOUS
    <2> QED
      BY <2>1, Zenon
  <1> HIDE DEF h
  <1>3. l = [k \in 1 .. n |-> hs[k]] /\ hs = [k \in 1 .. n + 1 |-> hs[k]] /\ hs[n + 1] = h(n + 1)
    OBVIOUS
  <1> HIDE DEF hs, l
  <1>4. Append(l, hs[n + 1]) = hs
    BY <1>3, ListGrows, Zenon
  <1> QED
    BY <1>1, <1>2, <1>3, <1>4, Zenon

(* The stream, field by field.                                             *)
File(name, bytes, text, insts, total, header) ==
  [name |-> name, total_bytes |-> total, header |-> header, bytes |-> bytes, text |-> text,
   mif_insts |-> insts]

FileIs(f, a, b, c, d, e, h) ==
  /\ f.name = a /\ f.bytes = b /\ f.text = c /\ f.mif_insts = d /\ f.total_bytes = e /\ f.header = h

LEMMA FileParts == \A a, b, c, d, e, h : FileIs(File(a, b, c, d, e, h), a, b, c, d, e, h)
  BY DEF File, FileIs

LEMMA FieldChanged ==
  \A a, b, c, d, e, h, x :
    /\ [File(a, b, c, d, e, h) EXCEPT !.name = x] = File(x, b, c, d, e, h)
    /\ [File(a, b, c, d, e, h) EXCEPT !.bytes = x] = File(a, x, c, d, e, h)
    /\ [File(a, b, c, d, e, h) EXCEPT !.text = x] = File(a, b, x, d, e, h)
    /\ [File(a, b, c, d, e, h) EXCEPT !.mif_insts = x] = File(a, b, c, x, e, h)
    /\ [File(a, b, c, d, e, h) EXCEPT !.total_bytes = x] = File(a, b, c, d, x, h)
    /\ [File(a, b, c, d, e, h) EXCEPT !.header = x] = File(a, b, c, d, e, x)
  BY DEF File

Changed(o, x, y, z, w) == [o EXCEPT !.bytes = x, !.text = y, !.mif_insts = z, !.total_bytes = w]
Headed(o, x, y)        == [o EXCEPT !.header = x, !.text = y]

LEMMA FieldsChanged ==
  ASSUME NEW a, NEW b, NEW c, NEW d, NEW e, NEW h, NEW x, NEW y, NEW z, NEW w
  PROVE  /\ Changed(File(a, b, c, d, e, h), x, y, z, w) = File(a, x, y, z, w, h)
         /\ Headed(File(a, b, c, d, e, h), x, y) = File(a, b, y, d, e, x)
  <1> DEFINE o == File(a, b, c, d, e, h)
             o1 == [o EXCEPT !.bytes = x]
             o2 == [o1 EXCEPT !.text = y]
             o3 == [o2 EXCEPT !.mif_insts = z]
             o4 == [o3 EXCEPT !.total_bytes = w]
             q1 == [o EXCEPT !.header = x]
             q2 == [q1 EXCEPT !.text = y]
  <1>1. Changed(o, x, y, z, w) = o4 /\ Headed(o, x, y) = q2
    <2> HIDE DEF o
    <2> QED
      BY DEF Changed, Headed
  <1>2. o1 = File(a, x, c, d, e, h) /\ q1 = File(a, b, c, d, e, x)
    BY FieldChanged
  <1> HIDE DEF o1, q1
  <1>3. o2 = File(a, x, y, d, e, h) /\ q2 = File(a, b, y, d, e, x)
    BY <1>2, FieldChanged
  <1> HIDE DEF o2, q2
  <1>4. o3 = File(a, x, y, z, e, h)
    BY <1>3, FieldChanged
  <1> HIDE DEF o3
  <1>5. o4 = File(a, x, y, z, w, h)
    BY <1>4, FieldChanged
  <1> HIDE DEF o4
  <1> QED
    BY <1>1, <1>3, <1>5, Zenon

AddedBytes(b, ui) == IF shEnv.st = "bin" THEN b \o ui ELSE b
AddedLine(c, ui)  == IF shEnv.st = "hex" THEN Append(c, dynamicHexBuilder(ui)) ELSE c
AddedInst(d, ui)  == IF shEnv.st = "mif" THEN Append(d, dynamicHexBuilder(ui)) ELSE d

LEMMA FileAppended ==
  ASSUME NEW a, NEW b, NEW c, NEW d, NEW e, NEW h, NEW ui
  PROVE  append(File(a, b, c, d, e, h), ui)
           = File(a, AddedBytes(b, ui), AddedLine(c, ui), AddedInst(d, ui), e + Len(ui), h)
  <1> DEFINE o == File(a, b, c, d, e, h)
             B == AddedBytes(o.bytes, ui)
             T == AddedLine(o.text, ui)
             M == AddedInst(o.mif_insts, ui)
             n == o.total_bytes + Len(ui)
  <1>1. append(o, ui) = Changed(o, B, T, M, n)
    <2> HIDE DEF o
    <2> QED
      BY Zenon DEF append, Changed, AddedBytes, AddedLine, AddedInst
  <1>2. FileIs(o, a, b, c, d, e, h)
    BY FileParts, Zenon
  <1>3. Changed(o, B, T, M, n) = File(a, B, T, M, n, h)
    <2> HIDE DEF B, T, M, n
    <2> QED
      BY FieldsChanged
  <1>4. /\ B = AddedBytes(b, ui) /\ T = AddedLine(c, ui) /\ M = AddedInst(d, ui)
        /\ n = e + Len(ui)
    <2> HIDE DEF o
    <2> QED
      BY <1>2, Zenon DEF FileIs
  <1>5. append(o, ui) = File(a, B, T, M, n, h)
    BY <1>1, <1>3, Zenon
  <1> HIDE DEF B, T, M, n
  <1> QED
    BY <1>4, <1>5

(* What is written of the program in each format.                          *)
BinBytes(n) == IF shEnv.st = "bin" THEN SubSeq(prog, 1, 4 * n) ELSE <<>>
HexLines(n) == IF shEnv.st = "hex" THEN Listing(n) ELSE <<>>
MifInsts(n) == IF shEnv.st = "mif" THEN Listing(n) ELSE <<>>

LEMMA WrittenIs ==
  \A n : Written(n) = File(out.name, BinBytes(n), HexLines(n), MifInsts(n), 4 * n, <<>>)
  BY Zenon DEF Written, File, BinBytes, HexLines, MifInsts

LEMMA WriteStep ==
  ASSUME NEW m \in Nat, prog \in Seq(0 .. 255), Len(prog) = 4 * m, NEW n \in 0 .. m, out = Written(n), WriteInst
  PROVE  n + 1 \in 0 .. m /\ out' = Written(n + 1)'
  <1> DEFINE ui == SubSeq(prog, 4 * n + 1, 4 * n + 4)
             i == n + 1
  <1>0. /\ out = File(out.name, BinBytes(n), HexLines(n), MifInsts(n), 4 * n, <<>>)
        /\ out.total_bytes = 4 * n
    <2>1. out = File(out.name, BinBytes(n), HexLines(n), MifInsts(n), 4 * n, <<>>)
      BY WrittenIs, Zenon
    <2> DEFINE a == out.name
               b == BinBytes(n)
               c == HexLines(n)
               d == MifInsts(n)
               e == 4 * n
    <2>2. FileIs(File(a, b, c, d, e, <<>>), a, b, c, d, e, <<>>)
      BY FileParts, Zenon
    <2>3. out.total_bytes = e
      BY <2>1, <2>2, Zenon DEF FileIs
    <2> QED
      BY <2>1, <2>3
  <1>1. out.total_bytes = 4 * n
    BY <1>0
  <1>2. n \in Nat /\ n < m
    <2>1. 4 * n < 4 * m
      BY <1>1 DEF WriteInst
    <2> QED
      BY <2>1
  <1>3. out' = append(out, ui) /\ UNCHANGED <<shEnv, prog>>
    BY <1>1, Zenon DEF WriteInst, pass2Vars
  <1>4. /\ SubSeq(prog, 1, 4 * n) \o ui = SubSeq(prog, 1, 4 * i)
        /\ Append(Listing(n), dynamicHexBuilder(ui)) = Listing(i)
        /\ 4 * n + Len(ui) = 4 * i
    <2>1. 4 * n \in Nat /\ 4 * n + 4 \in Nat /\ 4 * n <= 4 * n + 4 /\ 4 * n + 4 <= Len(prog)
          /\ 4 * (n + 1) = 4 * n + 4
      BY <1>2
    <2>2. SubSeq(prog, 1, 4 * n) \o ui = SubSeq(prog, 1, 4 * n + 4)
      BY <2>1, PartsMeet, Zenon
    <2>3. Len(ui) = 4
      BY <2>1, PieceAt, Zenon
    <2> QED
      BY <1>2, <2>1, <2>2, <2>3, ListingMore, Zenon
  <1>5. i \in 0 .. m
    BY <1>2
  <1> HIDE DEF ui, i
  <1>6. /\ AddedBytes(BinBytes(n), ui) = BinBytes(i) /\ AddedLine(HexLines(n), ui) = HexLines(i)
        /\ AddedInst(MifInsts(n), ui) = MifInsts(i)
    BY <1>4, Zenon DEF BinBytes, HexLines, MifInsts, AddedBytes, AddedLine, AddedInst
  <1>7. out' = File(out.name, BinBytes(i), HexLines(i), MifInsts(i), 4 * i, <<>>)
    <2> DEFINE a == out.name
               b == BinBytes(n)
               c == HexLines(n)
               d == MifInsts(n)
               e == 4 * n
    <2>1. out = File(a, b, c, d, e, <<>>)
      BY <1>0, Zenon
    <2>2. /\ AddedBytes(b, ui) = BinBytes(i) /\ AddedLine(c, ui) = HexLines(i)
          /\ AddedInst(d, ui) = MifInsts(i) /\ e + Len(ui) = 4 * i
      BY <1>4, <1>6, Zenon
    <2> HIDE DEF a, b, c, d, e
    <2>3. append(File(a, b, c, d, e, <<>>), ui)
            = File(a, AddedBytes(b, ui), AddedLine(c, ui), AddedInst(d, ui), e + Len(ui), <<>>)
      BY FileAppended
    <2>4. out' = File(a, BinBytes(i), HexLines(i), MifInsts(i), 4 * i, <<>>)
      BY <1>3, <2>1, <2>2, <2>3, Zenon
    <2> QED
      BY <2>4, Zenon DEF a
  <1>8. out'.name = out.name
    <2> DEFINE a == out.name
               b == BinBytes(i)
               c == HexLines(i)
               d == MifInsts(i)
               e == 4 * i
    <2>1. FileIs(File(a, b, c, d, e, <<>>), a, b, c, d, e, <<>>)
      BY FileParts, Zenon
    <2> QED
      BY <1>7, <2>1, Zenon DEF FileIs
  <1>9. BinBytes(i)' = BinBytes(i) /\ HexLines(i)' = HexLines(i) /\ MifInsts(i)' = MifInsts(i)
    BY <1>3, Zenon DEF BinBytes, HexLines, MifInsts, Listing, i
  <1>10. out' = File(out'.name, BinBytes(i)', HexLines(i)', MifInsts(i)', 4 * i, <<>>)
    BY <1>7, <1>8, <1>9, Zenon
  <1>11. out' = Written(i)'
    BY <1>10, Zenon DEF Written, File, BinBytes, HexLines, MifInsts
  <1> QED
    BY <1>5, <1>11, Zenon DEF i

(* The options a run goes on with.                                         *)
Chosen(e) == e.st \in StreamTypes /\ e.width \in Nat \ {0}
AtRest == pc \notin {"pass 1", "pass 2", "open", "write"} /\ message # Success

LEMMA OptionsInvIs ==
  OptionsInv <=> AtRest \/ Chosen(shEnv)
  BY Zenon DEF OptionsInv, AtRest, Chosen, Success

(* A step that neither writes nor succeeds.                                *)
LEMMA NothingWritten ==
  ASSUME pc' # "write", message' # Success, AtRest' \/ Chosen(shEnv'),
         pc' # "terminated" => prog' \in Seq(0 .. 255)
  PROVE  OutputInv'
  <1>1. OptionsInv'
    BY Zenon DEF OptionsInv, AtRest, Chosen, Success
  <1> QED
    BY <1>1, Zenon DEF OutputInv, Success

LEMMA OutputInitially ==
  ASSUME Init
  PROVE  OutputInv
  <1>1. pc = "start" /\ message = "" /\ prog = <<>>
    BY Zenon DEF Init
  <1>2. message # Success /\ pc # "write" /\ AtRest
    BY <1>1, NotSuccess, Zenon DEF AtRest
  <1>3. <<>> \in Seq(0 .. 255)
    OBVIOUS
  <1>4. OptionsInv
    BY <1>2, OptionsInvIs, Zenon
  <1> QED
    BY <1>1, <1>2, <1>3, <1>4, Zenon DEF OutputInv, Success

LEMMA OutputSame ==
  ASSUME OutputInv, UNCHANGED vars
  PROVE  OutputInv'
  <1>1. UNCHANGED <<pc, message, shEnv, prog, inst_lengths, out>>
    BY Zenon DEF vars, pass2Vars
  <1>2. \A n : Written(n)' = Written(n)
    BY <1>1, Zenon DEF Written, Listing
  <1>3. Written(itr)' = Written(itr) /\ itr' = itr
    BY <1>1, Zenon DEF Written, Listing, itr
  <1>4. OptionsInv'
    BY <1>1, Zenon DEF OutputInv, OptionsInv
  <1>5. \A o, w : finalize(o, w)' = finalize(o, w)
    BY <1>1, Zenon DEF finalize
  <1>6. finalize(Written(itr), shEnv.width)' = finalize(Written(itr), shEnv.width)
    BY <1>1, <1>3, Zenon DEF finalize
  <1> QED
    BY <1>1, <1>2, <1>3, <1>4, <1>6, Zenon DEF OutputInv

(* Before anything is written.                                             *)
LEMMA OutputBefore ==
  ASSUME StringsAreSequences, SourceInv, OutputInv, pc # "ended",
         Start \/ SymbolsError \/ SkipLine \/ TakeLine \/ EndPass1 \/ EndPass2
  PROVE  OutputInv'
  <1>1. message # Success /\ (pc # "terminated" => prog \in Seq(0 .. 255)) /\ OptionsInv
    BY Zenon DEF OutputInv, Success
  <1>2. CASE Start
    <2>1. /\ pc = "start" /\ prog' = prog /\ shEnv' = characterize_Env(run.args) /\ run \in Cases
          /\ \/ pc' = "ended" /\ message' = OptionError(shEnv')
             \/ OptionError(shEnv') = "" /\ pc' = "pass 1" /\ message' = message
      BY <1>2, Zenon DEF Start, Stop, pass2Vars, SourceInv
    <2>2. run.args \in Seq(STRING)
      BY <2>1, CasesAssumption
    <2>3. message' # Success
      BY <1>1, <2>1, NotSuccess, Zenon
    <2>4. CASE pc' = "ended"
      <3>1. AtRest' /\ pc' # "write" /\ pc # "terminated"
        BY <2>1, <2>3, <2>4, Zenon DEF AtRest
      <3> QED
        BY <1>1, <2>1, <2>3, <3>1, NothingWritten, Zenon
    <2>5. CASE OptionError(shEnv') = "" /\ pc' = "pass 1"
      <3>1. Chosen(shEnv')
        BY <2>1, <2>2, <2>5, OptionsRead, Zenon DEF Chosen
      <3>2. pc' # "write" /\ pc # "terminated"
        BY <2>1, <2>5, Zenon
      <3> QED
        BY <1>1, <2>1, <2>3, <3>1, <3>2, NothingWritten, Zenon
    <2> QED
      BY <2>1, <2>4, <2>5, Zenon
  <1>3. CASE SymbolsError \/ SkipLine \/ TakeLine \/ EndPass1 \/ EndPass2
    <2>1. /\ pc \in {"pass 1", "pass 2"} /\ prog' = prog /\ shEnv' = shEnv
          /\ pc' \in {"pass 1", "pass 2", "open", "ended"}
          /\ message' \in {message, parts.err, "multidef_symbol"}
      BY <1>3, Zenon DEF SymbolsError, SkipLine, TakeLine, NextLine, KeepLine, EndPass1, EndPass2, Stop,
                         pass2Vars
    <2>2. parts.err \in {"", "bad_escape"}
      BY ChopErrors, Zenon DEF parts
    <2>3. message' # Success
      BY <1>1, <2>1, <2>2, NotSuccess, Zenon
    <2>4. Chosen(shEnv)
      BY <1>1, <2>1, OptionsInvIs, Zenon DEF AtRest
    <2>5. pc' # "write" /\ pc # "terminated"
      BY <2>1, Zenon
    <2> QED
      BY <1>1, <2>1, <2>3, <2>4, <2>5, NothingWritten, Zenon
  <1> QED
    BY <1>2, <1>3, Zenon

LEMMA OutputAssembled ==
  ASSUME StringsAreSequences, CountsInv, SourceInv, OutputInv, AsmFlash
  PROVE  OutputInv'
  <1>1. /\ pc = "pass 2" /\ itr < Len(lines) /\ shEnv' = shEnv
        /\ pc' \in {"pass 2", "ended", "terminated"}
    BY Zenon DEF AsmFlash, Stop, Terminate
  <1>2. message # Success /\ prog \in Seq(0 .. 255) /\ Chosen(shEnv)
    <2>1. pc # "ended" /\ pc # "terminated"
      BY <1>1, Zenon
    <2> QED
      BY <1>1, <2>1, OptionsInvIs, Zenon DEF OutputInv, Success, AtRest
  <1>3. pc' # "terminated" => prog' \in Seq(0 .. 255)
    <2>1. CASE \E inst : prog' = prog \o LittleEndian(inst.val)
      <3>1. PICK w : prog' = prog \o LittleEndian(w)
        BY <2>1, Zenon
      <3>2. LittleEndian(w) \in Seq(0 .. 255)
        BY BytesOfWord, Zenon
      <3> QED
        BY <1>2, <3>1, <3>2, ConcatProperties, Zenon
    <2> QED
      BY <1>2, <2>1, AsmFlashMoves, Zenon
  <1>4. message' # Success
    <2> DEFINE args == chop_string(lines[itr + 1])
    <2>1. \/ message' = message
          \/ /\ args.err = ""
             /\ \E stray : message' = assemble(args.val, asm_pc, jump_syms, stray).err
      BY Zenon DEF AsmFlash, Stop, Terminate
    <2>2. lines[itr + 1] \in STRING
      <3>1. itr + 1 \in 1 .. Len(lines)
        <4>1. itr \in Nat /\ Len(lines) \in Nat
          BY LenProperties DEF SourceInv, CountsInv, itr
        <4>2. \A m, n \in Nat : m < n => m + 1 \in 1 .. n
          OBVIOUS
        <4> QED
          BY <1>1, <4>1, <4>2, Zenon
      <3> QED
        BY <3>1, ElementOfSeq, Zenon DEF SourceInv
    <2>3. args.err = "" => args.val \in Seq(STRING)
      BY <2>2, ChopType, Zenon DEF Returned
    <2> HIDE DEF args
    <2>4. message' = message \/ message' \in AssembleErrors
      BY <2>1, <2>3, ErrorsOfAssemble, Zenon
    <2> QED
      BY <1>2, <2>4, NotSuccess, Zenon
  <1>5. pc' # "write"
    BY <1>1, Zenon
  <1> QED
    BY <1>1, <1>2, <1>3, <1>4, <1>5, NothingWritten, Zenon

LEMMA OutputOpened ==
  ASSUME OutputInv, OpenOutput, itr \in Nat
  PROVE  OutputInv'
  <1>1. pc = "open" /\ UNCHANGED <<shEnv, prog, inst_lengths>>
    BY Zenon DEF OpenOutput, pass2Vars
  <1>2. message # Success /\ prog \in Seq(0 .. 255) /\ Chosen(shEnv)
    <2>1. pc # "ended" /\ pc # "terminated"
      BY <1>1, Zenon
    <2> QED
      BY <1>1, <2>1, OptionsInvIs, Zenon DEF OutputInv, Success, AtRest
  <1>3. CASE out' = [NoFile EXCEPT !.name = fname] /\ pc' = "write" /\ UNCHANGED message
    <2> DEFINE e == ""
    <2>1. NoFile = File(e, <<>>, <<>>, <<>>, 0, <<>>)
      BY Zenon DEF NoFile, File
    <2> HIDE DEF e
    <2>2. out' = File(fname, <<>>, <<>>, <<>>, 0, <<>>)
      BY <1>3, <2>1, FieldChanged
    <2>3. out'.name = fname
      <3>1. FileIs(File(fname, <<>>, <<>>, <<>>, 0, <<>>), fname, <<>>, <<>>, <<>>, 0, <<>>)
        BY FileParts, Zenon
      <3> QED
        BY <2>2, <3>1, Zenon DEF FileIs
    <2>4. SubSeq(prog', 1, 4 * 0) = <<>> /\ Listing(0)' = <<>> /\ 4 * 0 = 0
      <3>1. 4 * 0 = 0 /\ SubSeq(prog', 1, 0) = <<>>
        OBVIOUS
      <3>2. Listing(0)' = <<>>
        BY DEF Listing
      <3> QED
        BY <3>1, <3>2, Zenon
    <2>5. BinBytes(0)' = <<>> /\ HexLines(0)' = <<>> /\ MifInsts(0)' = <<>>
      BY <2>4, Zenon DEF BinBytes, HexLines, MifInsts
    <2>6. Written(0)' = File(out'.name, BinBytes(0)', HexLines(0)', MifInsts(0)', 4 * 0, <<>>)
      BY Zenon DEF Written, File, BinBytes, HexLines, MifInsts
    <2>7. out' = Written(0)'
      BY <2>2, <2>3, <2>4, <2>5, <2>6, Zenon
    <2>8. 0 \in 0 .. itr'
      BY <1>1 DEF itr
    <2>9. message' # Success
      BY <1>2, <1>3, Zenon
    <2>10. OptionsInv'
      BY <1>1, <1>2, Zenon DEF OptionsInv, Chosen
    <2> QED
      BY <1>1, <1>2, <2>7, <2>8, <2>9, <2>10, Zenon DEF OutputInv, Success
  <1>4. CASE pc' = "ended" /\ message' = "illegal_file"
    <2>1. pc' # "write" /\ message' # Success
      BY <1>4, NotSuccess, Zenon
    <2> QED
      BY <1>1, <1>2, <2>1, NothingWritten, Zenon
  <1> QED
    BY <1>3, <1>4, Zenon DEF OpenOutput, Stop

(* What finishing does to the stream.                                      *)
MifHeader(total, width) == <<AsInt(width * 8), total \div width + (IF total % width # 0 THEN 1 ELSE 0)>>

LEMMA Finalized ==
  ASSUME NEW a, NEW b, NEW c, NEW d, NEW e, NEW h, NEW w
  PROVE  /\ shEnv.st = "mif" /\ d # <<>> =>
              finalize(File(a, b, c, d, e, h), w) = File(a, b, MifWords(d, w), d, e, MifHeader(e, w))
         /\ ~(shEnv.st = "mif" /\ d # <<>>) => finalize(File(a, b, c, d, e, h), w) = File(a, b, c, d, e, h)
         /\ finalize(File(a, b, c, d, e, h), w).name = a
  <1> DEFINE o == File(a, b, c, d, e, h)
             f == finalize(o, w)
  <1>1. FileIs(o, a, b, c, d, e, h)
    BY FileParts, Zenon
  <1>2. o.name = a /\ o.mif_insts = d /\ o.total_bytes = e
    BY <1>1, Zenon DEF FileIs
  <1>3. CASE shEnv.st = "mif" /\ d # <<>>
    <2>1. f = Headed(o, MifHeader(e, w), MifWords(d, w))
      <3> HIDE DEF o
      <3> QED
        BY <1>2, <1>3, Zenon DEF finalize, Headed, MifHeader
    <2>2. Headed(o, MifHeader(e, w), MifWords(d, w)) = File(a, b, MifWords(d, w), d, e, MifHeader(e, w))
      BY FieldsChanged
    <2>3. FileIs(File(a, b, MifWords(d, w), d, e, MifHeader(e, w)), a, b, MifWords(d, w), d, e, MifHeader(e, w))
      BY FileParts, Zenon
    <2>4. f = File(a, b, MifWords(d, w), d, e, MifHeader(e, w)) /\ f.name = a
      <3> HIDE DEF f
      <3> QED
        BY <2>1, <2>2, <2>3, Zenon DEF FileIs
    <2> QED
      BY <1>3, <2>4, Zenon
  <1>4. CASE ~(shEnv.st = "mif" /\ d # <<>>)
    <2>1. f = o
      <3> HIDE DEF o
      <3> QED
        BY <1>2, <1>4, Zenon DEF finalize
    <2> QED
      BY <1>2, <1>4, <2>1, Zenon
  <1> QED
    BY <1>3, <1>4, Zenon

LEMMA OutputWritten ==
  ASSUME CountsInv, OutputInv, WriteInst \/ FinishOutput
  PROVE  OutputInv'
  <1>1. /\ pc = "write" /\ UNCHANGED <<shEnv, prog, inst_lengths>>
        /\ WriteInst => UNCHANGED <<pc, message>>
        /\ FinishOutput => pc' = "ended" /\ message' = Success
    BY Zenon DEF WriteInst, FinishOutput, Stop, pass2Vars, Success
  <1>2. message # Success /\ prog \in Seq(0 .. 255) /\ Chosen(shEnv) /\ \E n \in 0 .. itr : out = Written(n)
    <2>1. pc # "ended" /\ pc # "terminated"
      BY <1>1, Zenon
    <2> QED
      BY <1>1, <2>1, OptionsInvIs, Zenon DEF OutputInv, Success, AtRest
  <1>3. itr \in Nat /\ Len(prog) = 4 * itr
    <2>1. itr \in Nat
      BY LenProperties DEF CountsInv, itr
    <2>2. pc # "terminated"
      BY <1>1, Zenon
    <2> QED
      BY <2>1, <2>2, Zenon DEF CountsInv
  <1>4. PICK n \in 0 .. itr : out = Written(n)
    BY <1>2
  <1>5. OptionsInv'
    BY <1>1, <1>2, Zenon DEF OptionsInv, Chosen
  <1>6. itr' = itr
    BY <1>1, Zenon DEF itr
  <1>7. CASE WriteInst
    <2>1. n + 1 \in 0 .. itr /\ out' = Written(n + 1)'
      BY <1>2, <1>3, <1>4, <1>7, WriteStep
    <2>2. \E k \in 0 .. itr' : out' = Written(k)'
      BY <1>6, <2>1
    <2>3. message' # Success /\ pc' = "write"
      BY <1>1, <1>2, <1>7, Zenon
    <2> QED
      BY <1>1, <1>2, <1>5, <2>2, <2>3, Zenon DEF OutputInv, Success
  <1>8. CASE FinishOutput
    <2>1. n = itr
      <3>1. out.total_bytes = 4 * n
        <4> DEFINE a == out.name
                   b == BinBytes(n)
                   c == HexLines(n)
                   d == MifInsts(n)
                   e == 4 * n
        <4>1. FileIs(File(a, b, c, d, e, <<>>), a, b, c, d, e, <<>>)
          BY FileParts, Zenon
        <4> QED
          BY <1>4, <4>1, WrittenIs, Zenon DEF FileIs
      <3>2. out.total_bytes = Len(prog)
        BY <1>8, Zenon DEF FinishOutput
      <3> QED
        BY <1>3, <3>1, <3>2
    <2>2. out' = finalize(Written(itr), shEnv.width)
      BY <1>4, <1>8, <2>1, Zenon DEF FinishOutput
    <2>3. out'.name = out.name
      <3> DEFINE a == out.name
                 b == BinBytes(itr)
                 c == HexLines(itr)
                 d == MifInsts(itr)
                 e == 4 * itr
                 w == shEnv.width
      <3>1. Written(itr) = File(a, b, c, d, e, <<>>)
        BY WrittenIs, Zenon
      <3> HIDE DEF a, b, c, d, e, w
      <3>2. finalize(File(a, b, c, d, e, <<>>), w).name = a
        BY Finalized
      <3> QED
        BY <2>2, <3>1, <3>2, Zenon DEF a, w
    <2>4. out' = finalize(Written(itr), shEnv.width)'
      <3>1. Written(itr)' = Written(itr)
        <4>1. Listing(itr)' = Listing(itr)
          BY <1>1, <1>6, Zenon DEF Listing
        <4> QED
          BY <1>1, <1>6, <2>3, <4>1, Zenon DEF Written
      <3>2. shEnv'.width = shEnv.width /\ shEnv'.st = shEnv.st
        BY <1>1, Zenon
      <3> QED
        BY <2>2, <3>1, <3>2, Zenon DEF finalize
    <2>5. pc' = "ended" /\ pc' # "write" /\ pc # "terminated"
      BY <1>1, <1>8, Zenon
    <2> QED
      BY <1>1, <1>2, <1>5, <2>4, <2>5, Zenon DEF OutputInv
  <1> QED
    BY <1>7, <1>8, Zenon

LEMMA OutputStep ==
  ASSUME StringsAreSequences, CountsInv, SourceInv, OutputInv, [Next]_vars
  PROVE  OutputInv'
  <1>1. CASE UNCHANGED vars
    BY <1>1, OutputSame
  <1>2. CASE Next
    <2>1. pc # "ended"
      BY <1>2, Zenon DEF Next, Start, SymbolsError, SkipLine, TakeLine, NextLine, EndPass1, AsmFlash, EndPass2,
                         OpenOutput, WriteInst, FinishOutput
    <2>2. itr \in Nat
      BY LenProperties DEF CountsInv, itr
    <2> QED
      BY <1>2, <2>1, <2>2, OutputBefore, OutputAssembled, OutputOpened, OutputWritten, Zenon DEF Next
  <1> QED
    BY <1>1, <1>2

-----------------------------------------------------------------------------
(* What a reader finds in the file *)

LEMMA ListingHolds ==
  ASSUME StringsAreSequences, prog \in Seq(0 .. 255), NEW n \in Nat, Len(prog) = n * 4
  PROVE  HoldsBlocks(Listing(n), prog, n, 4)
  <1> DEFINE h(k) == dynamicHexBuilder(SubSeq(prog, 4 * (k - 1) + 1, 4 * (k - 1) + 4))
  <1>1. ASSUME NEW k \in 1 .. n PROVE HexHolds(h(k), Block(prog, k, 4), 4)
    <2> DEFINE b == Block(prog, k, 4)
    <2>1. SubSeq(prog, 4 * (k - 1) + 1, 4 * (k - 1) + 4) = b /\ b \in Seq(0 .. 255) /\ Len(b) = 4
      BY PieceIs
    <2> HIDE DEF b
    <2>3. HexHolds(dynamicHexBuilder(b), b, Len(b))
      BY <2>1, HexText, Zenon
    <2> QED
      BY <2>1, <2>3, Zenon DEF b
  <1>2. Listing(n) = [k \in 1 .. n |-> h(k)]
    BY Zenon DEF Listing
  <1> DEFINE l == Listing(n)
  <1> HIDE DEF h, l
  <1>3. DOMAIN l = 1 .. n /\ \A k \in 1 .. n : l[k] = h(k)
    BY <1>2, Zenon DEF l
  <1>4. HoldsBlocks(l, prog, n, 4)
    BY <1>1, <1>3, Zenon DEF HoldsBlocks
  <1> QED
    BY <1>4, Zenon DEF l

LEMMA BlocksRead ==
  ASSUME StringsAreSequences, NEW w \in Nat \ {0}, NEW n \in Nat, NEW s \in Seq(0 .. 255),
         Len(s) = n * w, NEW text, HoldsBlocks(text, s, n, w)
  PROVE  BytesIn(text) = s
  BY BytesInBlocks, Zenon DEF HoldsBlocks

(* A file's bytes are those of the program and at most extra zeros.        *)
Matches(bytes, s, extra) ==
  /\ Len(bytes) - Len(s) \in 0 .. extra
  /\ SubSeq(bytes, 1, Len(s)) = s
  /\ \A i \in Len(s) + 1 .. Len(bytes) : bytes[i] = 0

LEMMA PaddedMatches ==
  ASSUME NEW s \in Seq(0 .. 255), NEW n \in Nat, NEW extra, n - Len(s) \in 0 .. extra
  PROVE  Matches(Padded(s, n), s, extra)
  <1> DEFINE v(j) == IF j <= Len(s) THEN s[j] ELSE 0
             x == Padded(s, n)
             y == SubSeq(x, 1, Len(s))
  <1>1. x \in Seq(0 .. 255) /\ Len(x) = n /\ Len(s) \in Nat /\ Len(s) <= n
    <2>1. Len(s) \in Nat
      BY LenProperties
    <2>2. Len(s) <= n
      BY <2>1
    <2> QED
      BY <2>1, <2>2, PaddedType, Zenon
  <1>2. x = [j \in 1 .. n |-> v(j)]
    BY Zenon DEF Padded
  <1> HIDE DEF v, x
  <1>3. \A j \in 1 .. n : x[j] = v(j)
    BY <1>2
  <1>4. \A i \in Len(s) + 1 .. Len(x) : x[i] = 0
    <2> SUFFICES ASSUME NEW i \in Len(s) + 1 .. Len(x) PROVE x[i] = 0
      BY Zenon
    <2>1. i \in 1 .. n /\ ~(i <= Len(s))
      BY <1>1
    <2> QED
      BY <1>3, <2>1, Zenon DEF v
  <1>5. y \in Seq(0 .. 255) /\ Len(y) = Len(s) /\ \A k \in 1 .. Len(s) : y[k] = x[k]
    <2> DEFINE B == 0 .. 255
               m == Len(s)
    <2> HIDE DEF B, m
    <2>1. 1 \in Nat \ {0} /\ m \in Nat /\ m \in Int /\ m <= Len(x) /\ x \in Seq(B)
      BY <1>1, SmallNumbers, Zenon DEF B, m
    <2>2. /\ SubSeq(x, 1, m) \in Seq(B) /\ Len(SubSeq(x, 1, m)) = m
          /\ \A k \in 1 .. m : SubSeq(x, 1, m)[k] = x[k]
      BY <2>1, PartOfText
    <2> QED
      BY <2>2, Zenon DEF B, m
  <1> HIDE DEF y
  <1>6. \A k \in 1 .. Len(s) : y[k] = s[k]
    <2> SUFFICES ASSUME NEW k \in 1 .. Len(s) PROVE y[k] = s[k]
      BY Zenon
    <2>1. k \in 1 .. n /\ k <= Len(s)
      BY <1>1
    <2> QED
      BY <1>3, <1>5, <2>1, Zenon DEF v
  <1>7. y = s
    <2>1. \A i \in 1 .. Len(y) : y[i] = s[i]
      BY <1>5, <1>6, Zenon
    <2> QED
      BY <1>5, <2>1, SameElements, Zenon
  <1>8. Matches(x, s, extra)
    BY <1>1, <1>4, <1>7, Zenon DEF Matches, y
  <1> QED
    BY <1>8, Zenon DEF x

LEMMA WholeMatches ==
  ASSUME NEW s \in Seq(0 .. 255)
  PROVE  Matches(s, s, 0)
  <1>1. Len(s) \in Nat /\ SubSeq(s, 1, Len(s)) = s
    BY LenProperties, PartOfWhole
  <1>2. Len(s) - Len(s) \in 0 .. 0 /\ \A i \in Len(s) + 1 .. Len(s) : FALSE
    BY <1>1
  <1> QED
    BY <1>1, <1>2, Zenon DEF Matches

LEMMA MifMatches ==
  ASSUME StringsAreSequences, NEW s \in Seq(0 .. 255), NEW n \in Nat, Len(s) = n * 4,
         NEW insts, HoldsBlocks(insts, s, n, 4), NEW w \in Nat \ {0}
  PROVE  /\ Matches(BytesIn(MifWords(insts, w)), s, w - 1)
         /\ Len(MifWords(insts, w)) = Words4(n, w)
         /\ Words4(n, w) = ((n * 4) \div w) + (IF (n * 4) % w # 0 THEN 1 ELSE 0)
  <1> DEFINE m == Words4(n, w)
             text == MifWords(insts, w)
             c == n * 4
  <1>1. /\ m \in Nat /\ m * w - c \in 0 .. w - 1
        /\ m = (c \div w) + (IF c % w # 0 THEN 1 ELSE 0)
    <2>1. c \in Nat
      OBVIOUS
    <2> HIDE DEF c
    <2>2. /\ (c + w - 1) \div w \in Nat
          /\ ((c + w - 1) \div w) * w - c \in 0 .. w - 1
          /\ (c + w - 1) \div w = (c \div w) + (IF c % w # 0 THEN 1 ELSE 0)
      BY <2>1, Rounding, Zenon
    <2> QED
      BY <2>2, Zenon DEF Words4, c
  <1>2. HoldsBlocks(text, Padded(s, m * w), m, w)
    BY MifHolds, Zenon
  <1>3. Len(text) = m
    <2> DEFINE S == {text[a] : a \in 1 .. m}
               bytes == Concat([i \in DOMAIN insts |-> HexPairs(insts[i])])
               line(a) == Join([i \in 1 .. w |-> MifByte(bytes, a * w - i + 1)])
    <2>1. text = [a \in 1 .. (Len(bytes) + w - 1) \div w |-> line(a)]
      BY Zenon DEF MifWords, MifByte
    <2>2. text = [a \in DOMAIN text |-> text[a]]
      <3> HIDE DEF text, line, bytes
      <3> QED
        BY <2>1
    <2>3. DOMAIN text = 1 .. m
      BY <1>2, Zenon DEF HoldsBlocks
    <2> HIDE DEF text, m
    <2>4. text \in [1 .. m -> S]
      BY <2>2, <2>3
    <2> HIDE DEF S
    <2> QED
      BY <1>1, <2>4, SeqDef, LenProperties
  <1>4. m * w \in Nat
    BY <1>1
  <1> HIDE DEF m
  <1> DEFINE k == m * w
  <1> HIDE DEF k
  <1>5. k \in Nat /\ k - Len(s) \in 0 .. w - 1
    BY <1>1, <1>4, Zenon DEF k
  <1>6. Padded(s, k) \in Seq(0 .. 255) /\ Len(Padded(s, k)) = k
    BY <1>5, PaddedType, Zenon
  <1> DEFINE p == Padded(s, k)
  <1> HIDE DEF p
  <1>7. p \in Seq(0 .. 255) /\ Len(p) = m * w /\ HoldsBlocks(text, p, m, w)
    BY <1>2, <1>6, Zenon DEF k, p
  <1> HIDE DEF text
  <1>8. BytesIn(text) = p
    BY <1>1, <1>7, BlocksRead, Zenon
  <1>9. Matches(p, s, w - 1)
    BY <1>5, PaddedMatches, Zenon DEF p
  <1> QED
    BY <1>1, <1>3, <1>8, <1>9, Zenon DEF text, m

(* What finishing leaves of the stream, by format.                         *)
LEMMA FinishedFile ==
  ASSUME NEW n, NEW w
  PROVE  LET f == finalize(Written(n), w)
             mif == shEnv.st = "mif" /\ Listing(n) # <<>>
         IN /\ f.bytes = BinBytes(n)
            /\ f.text = (IF mif THEN MifWords(Listing(n), w) ELSE HexLines(n))
            /\ f.header = (IF mif THEN MifHeader(4 * n, w) ELSE <<>>)
  <1> DEFINE a == out.name
             b == BinBytes(n)
             c == HexLines(n)
             d == MifInsts(n)
             e == 4 * n
             o == File(a, b, c, d, e, <<>>)
             f == finalize(o, w)
             mif == shEnv.st = "mif" /\ Listing(n) # <<>>
             words == MifWords(d, w)
             head == MifHeader(e, w)
  <1>1. Written(n) = o
    BY WrittenIs, Zenon
  <1>2. mif <=> shEnv.st = "mif" /\ d # <<>>
    BY Zenon DEF MifInsts
  <1>3. mif => d = Listing(n)
    BY Zenon DEF MifInsts
  <1>4. f = (IF mif THEN File(a, b, words, d, e, head) ELSE File(a, b, c, d, e, <<>>))
    <2> HIDE DEF a, b, c, d, e, words, head, mif
    <2>1. /\ shEnv.st = "mif" /\ d # <<>> =>
               finalize(File(a, b, c, d, e, <<>>), w) = File(a, b, MifWords(d, w), d, e, MifHeader(e, w))
          /\ ~(shEnv.st = "mif" /\ d # <<>>) =>
               finalize(File(a, b, c, d, e, <<>>), w) = File(a, b, c, d, e, <<>>)
      BY Finalized
    <2> QED
      BY <1>2, <2>1, Zenon DEF words, head
  <1>5. /\ FileIs(File(a, b, words, d, e, head), a, b, words, d, e, head)
        /\ FileIs(File(a, b, c, d, e, <<>>), a, b, c, d, e, <<>>)
    BY FileParts, Zenon
  <1> HIDE DEF a, b, c, d, e, words, head, mif, o, f
  <1>6. /\ f.bytes = b /\ f.text = (IF mif THEN words ELSE c)
        /\ f.header = (IF mif THEN head ELSE <<>>)
    BY <1>4, <1>5, Zenon DEF FileIs
  <1>7. mif => words = MifWords(Listing(n), w)
    BY <1>3, Zenon DEF words
  <1> QED
    BY <1>1, <1>6, <1>7, Zenon DEF f, b, c, head, e, mif

LEMMA FileRead ==
  ASSUME StringsAreSequences, CountsInv, OutputInv
  PROVE  OutputMatchesProgram
  <1> SUFFICES ASSUME message = Success
               PROVE  /\ Len(FileBytes) - Len(prog) \in
                           IF shEnv.st = "mif" THEN 0 .. shEnv.width - 1 ELSE {0}
                      /\ SubSeq(FileBytes, 1, Len(prog)) = prog
                      /\ \A i \in Len(prog) + 1 .. Len(FileBytes) : FileBytes[i] = 0
                      /\ out.header # <<>> => out.header[2] = Len(out.text)
    BY Zenon DEF OutputMatchesProgram, Success
  <1> DEFINE n == itr
             w == shEnv.width
             l == Listing(n)
             mif == shEnv.st = "mif" /\ l # <<>>
             bytes == FileBytes
  <1>1. pc = "ended" /\ out = finalize(Written(n), w) /\ Chosen(shEnv)
    BY OptionsInvIs, Zenon DEF OutputInv, Success, AtRest
  <1>2. n \in Nat /\ prog \in Seq(0 .. 255) /\ Len(prog) = n * 4 /\ 4 * n = n * 4
    <2>1. n \in Nat
      BY LenProperties DEF CountsInv, itr
    <2>2. pc # "terminated"
      BY <1>1, Zenon
    <2>3. prog \in Seq(0 .. 255) /\ Len(prog) = 4 * n
      BY <2>2, Zenon DEF CountsInv, OutputInv
    <2>4. 4 * n = n * 4
      BY <2>1
    <2> QED
      BY <2>1, <2>3, <2>4, Zenon
  <1>3. w \in Nat \ {0} /\ shEnv.st \in {"bin", "hex", "mif"}
    BY <1>1, Zenon DEF Chosen, StreamTypes
  <1>4. HoldsBlocks(l, prog, n, 4)
    BY <1>2, ListingHolds, Zenon
  <1>5. /\ out.bytes = BinBytes(n)
        /\ out.text = (IF mif THEN MifWords(l, w) ELSE HexLines(n))
        /\ out.header = (IF mif THEN MifHeader(4 * n, w) ELSE <<>>)
    BY <1>1, FinishedFile, Zenon
  <1>6. CASE mif
    <2>1. /\ Matches(BytesIn(MifWords(l, w)), prog, w - 1)
          /\ Len(MifWords(l, w)) = Words4(n, w)
          /\ Words4(n, w) = ((n * 4) \div w) + (IF (n * 4) % w # 0 THEN 1 ELSE 0)
      BY <1>2, <1>3, <1>4, MifMatches, Zenon
    <2>2. bytes = BytesIn(MifWords(l, w))
      BY <1>5, <1>6, NotSuccess, Zenon DEF FileBytes
    <2>3. out.header[2] = Len(out.text)
      <3> DEFINE h1 == AsInt(w * 8)
                 h2 == ((n * 4) \div w) + (IF (n * 4) % w # 0 THEN 1 ELSE 0)
      <3>1. out.header = <<h1, h2>>
        BY <1>2, <1>5, <1>6, Zenon DEF MifHeader
      <3>2. Len(out.text) = h2
        BY <1>5, <1>6, <2>1, Zenon
      <3> HIDE DEF h1, h2
      <3> QED
        BY <3>1, <3>2
    <2> HIDE DEF bytes, w
    <2> QED
      BY <1>6, <2>1, <2>2, <2>3, Zenon DEF Matches, bytes, w
  <1>7. CASE ~mif
    <2>1. out.header = <<>>
      BY <1>5, <1>7, Zenon
    <2>2. bytes = prog
      <3>1. CASE shEnv.st = "bin"
        <4>1. bytes = SubSeq(prog, 1, Len(prog))
          BY <1>2, <1>5, <3>1, Zenon DEF FileBytes, BinBytes
        <4> QED
          BY <1>2, <4>1, PartOfWhole, Zenon
      <3>2. CASE shEnv.st = "hex"
        <4>1. BytesIn(l) = prog
          <5>1. 4 \in Nat \ {0}
            OBVIOUS
          <5> QED
            BY <1>2, <1>4, <5>1, BlocksRead, Zenon
        <4> QED
          BY <1>5, <1>7, <3>2, <4>1, Zenon DEF FileBytes, HexLines
      <3>3. CASE shEnv.st = "mif"
        <4>1. l = <<>> /\ bytes = BytesIn(l)
          BY <1>5, <1>7, <3>3, Zenon DEF FileBytes, HexLines
        <4>2. BytesIn(l) = prog
          <5>1. 4 \in Nat \ {0}
            OBVIOUS
          <5> QED
            BY <1>2, <1>4, <5>1, BlocksRead, Zenon
        <4> QED
          BY <4>1, <4>2, Zenon
      <3> QED
        BY <1>3, <3>1, <3>2, <3>3, Zenon
    <2>3. Matches(prog, prog, 0)
      BY <1>2, WholeMatches, Zenon
    <2>4. 0 .. 0 = {0} /\ 0 .. 0 \subseteq 0 .. w - 1
      BY <1>3
    <2> HIDE DEF bytes, w
    <2> QED
      BY <2>1, <2>2, <2>3, <2>4, Zenon DEF Matches, bytes, w
  <1> QED
    BY <1>6, <1>7, Zenon

(* The stream holds the instructions written so far in the form of the     *)
(* format, and only a complete and finished one is a success               *)
(* (AsmProps!OutputInv).                                                   *)
THEOREM OutputInvHolds ==
  ASSUME StringsAreSequences
  PROVE  Spec => []OutputInv
  <1>1. Init => CountsInv /\ TablesInv /\ SourceInv /\ OutputInv
    BY Initially, SourceInit, OutputInitially
  <1>2. CountsInv /\ TablesInv /\ SourceInv /\ OutputInv /\ [Next]_vars
          => (CountsInv /\ TablesInv /\ SourceInv /\ OutputInv)'
    BY CountsStep, SourceStep, OutputStep
  <1> QED
    BY <1>1, <1>2, PTL DEF Spec

(* A reader of a finished file gets the program back, in every format and   *)
(* for every word size (AsmProps!OutputMatchesProgram).                    *)
THEOREM OutputMatchesProgramHolds ==
  ASSUME StringsAreSequences
  PROVE  Spec => []OutputMatchesProgram
  <1>1. Init => CountsInv /\ TablesInv
    BY Initially
  <1>2. CountsInv /\ TablesInv /\ [Next]_vars => (CountsInv /\ TablesInv)'
    BY CountsStep
  <1>3. CountsInv /\ OutputInv => OutputMatchesProgram
    BY FileRead
  <1> QED
    BY <1>1, <1>2, <1>3, OutputInvHolds, PTL DEF Spec

-----------------------------------------------------------------------------
(* A listing put through x2b *)

Taking(s, v, b) == [status |-> s, val |-> v, b_list |-> b]
TakeStart == Taking(0, "", <<>>)

(* What two texts can be read as, and what reading one leaves.             *)
ReadPair(v, c) == numeric_interpret("0x" \o v \o c).val
ReadValues == {ReadPair(v, c) : v \in STRING, c \in STRING}
TakeStates == [status : {0, -2}, val : STRING, b_list : Seq(ReadValues)]

LEMMA TakeType ==
  ASSUME NEW st \in TakeStates, NEW c \in STRING
  PROVE  TakeDigit(st, c) \in TakeStates
  <1> DEFINE x == ReadPair(st.val, c)
             e == ""
             o == TakeDigit(st, c)
  <1>1. st.val \in STRING /\ st.b_list \in Seq(ReadValues) /\ st.status \in {0, -2}
    BY Zenon DEF TakeStates
  <1>2. x \in ReadValues
    BY <1>1 DEF ReadValues
  <1>3. o \in {st, [st EXCEPT !.status = -2], [st EXCEPT !.val = c],
               [st EXCEPT !.val = e, !.b_list = <<x>> \o @]}
    BY Zenon DEF TakeDigit, ReadPair
  <1>4. e \in STRING
    BY EmptyText, Zenon
  <1> HIDE DEF x, e, o
  <1>5. <<x>> \o st.b_list \in Seq(ReadValues)
    BY <1>1, <1>2
  <1> DEFINE V == ReadValues
  <1> HIDE DEF V
  <1>6. /\ [st EXCEPT !.status = -2] \in TakeStates
        /\ [st EXCEPT !.val = c] \in TakeStates
        /\ [st EXCEPT !.val = e, !.b_list = <<x>> \o @] \in TakeStates
    BY <1>1, <1>4, <1>5 DEF TakeStates
  <1> QED
    BY <1>3, <1>6, Zenon DEF o

LEMMA TakingChanged ==
  \A s, v, b, x :
    /\ [Taking(s, v, b) EXCEPT !.val = x] = Taking(s, x, b)
    /\ [Taking(s, v, b) EXCEPT !.b_list = x] = Taking(s, v, x)
  BY DEF Taking

(* A pair is complete.                                                     *)
Paired(o, x, y) == [o EXCEPT !.val = x, !.b_list = y]

LEMMA TakingBoth ==
  ASSUME NEW s, NEW v, NEW b, NEW x, NEW y
  PROVE  Paired(Taking(s, v, b), x, y) = Taking(s, x, y)
  <1> DEFINE o == Taking(s, v, b)
             o1 == [o EXCEPT !.val = x]
  <1>1. Paired(o, x, y) = [o1 EXCEPT !.b_list = y]
    <2> HIDE DEF o
    <2> QED
      BY DEF Paired
  <1>2. o1 = Taking(s, x, b)
    BY TakingChanged
  <1> HIDE DEF o1
  <1>3. [o1 EXCEPT !.b_list = y] = Taking(s, x, y)
    BY <1>2, TakingChanged
  <1> QED
    BY <1>1, <1>3

LEMMA CharacterTaken ==
  ASSUME NEW v, NEW b, NEW c
  PROVE  /\ c \in Whitespace => TakeDigit(Taking(0, v, b), c) = Taking(0, v, b)
         /\ c \notin Whitespace /\ isHex(c) /\ v = "" => TakeDigit(Taking(0, v, b), c) = Taking(0, c, b)
         /\ c \notin Whitespace /\ isHex(c) /\ v # "" =>
              TakeDigit(Taking(0, v, b), c) = Taking(0, "", <<ReadPair(v, c)>> \o b)
  <1> DEFINE st == Taking(0, v, b)
             x == ReadPair(v, c)
             y == <<x>> \o b
             e == ""
  <1>1. st.status = 0 /\ st.val = v /\ st.b_list = b
    BY DEF Taking
  <1>2. TakeDigit(st, c) = (IF c \in Whitespace THEN st
                            ELSE IF ~isHex(c) THEN [st EXCEPT !.status = -2]
                            ELSE IF v = e THEN [st EXCEPT !.val = c]
                            ELSE Paired(st, e, y))
    <2> HIDE DEF st
    <2> QED
      BY <1>1, Zenon DEF TakeDigit, Paired, ReadPair
  <1>3. [st EXCEPT !.val = c] = Taking(0, c, b)
    BY TakingChanged
  <1> HIDE DEF e, x, y
  <1>4. Paired(st, e, y) = Taking(0, e, y)
    BY TakingBoth
  <1> HIDE DEF st
  <1>5. /\ c \in Whitespace => TakeDigit(st, c) = st
        /\ c \notin Whitespace /\ isHex(c) /\ v = e => TakeDigit(st, c) = Taking(0, c, b)
        /\ c \notin Whitespace /\ isHex(c) /\ v # e => TakeDigit(st, c) = Taking(0, e, y)
    BY <1>2, <1>3, <1>4, Zenon
  <1> QED
    BY <1>5, Zenon DEF st, x, y, e

IsTaking(f, text) ==
  f = [i \in 0 .. Len(text) |-> IF i = 0 THEN [status |-> 0, val |-> "", b_list |-> <<>>]
                                ELSE TakeDigit(f[i - 1], SubSeq(text, i, i))]
Takings(text) == CHOOSE f : IsTaking(f, text)

LEMMA TakingSteps ==
  ASSUME StringsAreSequences, NEW text \in STRING
  PROVE  /\ \A b : Takings(text)[Len(text)] = Taking(0, "", b) => x2b(text) = [status |-> 0, bytes |-> b]
         /\ Takings(text)[0] = TakeStart
         /\ \A i \in 1 .. Len(text) : Takings(text)[i] = TakeDigit(Takings(text)[i - 1], SubSeq(text, i, i))
  <1> DEFINE n == Len(text)
             c(i) == SubSeq(text, i, i)
             next(v, i) == IF i \in 1 .. n THEN TakeDigit(v, c(i)) ELSE v
             S == TakeStates
             G == [p \in S \X Nat |-> next(p[1], p[2])]
  <1>1. n \in Nat /\ \A i \in 1 .. n : c(i) \in STRING
    BY TextLaws, CharacterAt, Zenon
  <1>2. ASSUME NEW b, Takings(text)[n] = Taking(0, "", b)
        PROVE  x2b(text) = [status |-> 0, bytes |-> b]
    <2> DEFINE end == Takings(text)[n]
    <2>1. x2b(text) = (IF end.status # 0 THEN [status |-> end.status, bytes |-> <<>>]
                       ELSE IF end.val # "" THEN [status |-> -1, bytes |-> <<>>]
                       ELSE [status |-> 0, bytes |-> end.b_list])
      BY Zenon DEF x2b, Takings, IsTaking
    <2> HIDE DEF end
    <2> DEFINE e == ""
    <2> HIDE DEF e
    <2>2. end = Taking(0, e, b)
      BY <1>2, Zenon DEF end, e
    <2>3. end.status = 0 /\ end.val = e /\ end.b_list = b
      BY <2>2 DEF Taking
    <2> QED
      BY <2>1, <2>3, Zenon DEF e
  <1>3. TakeStart \in S
    <2> DEFINE e == ""
    <2>1. e \in STRING
      BY EmptyText, Zenon
    <2> HIDE DEF e
    <2>2. <<>> \in Seq(ReadValues)
      OBVIOUS
    <2>3. Taking(0, e, <<>>) \in S
      BY <2>1, <2>2 DEF Taking, TakeStates
    <2> QED
      BY <2>3, Zenon DEF TakeStart, e
  <1> HIDE DEF n, c, S
  <1>4. ASSUME NEW v \in S, NEW i \in 1 .. n PROVE TakeDigit(v, c(i)) \in S
    BY <1>1, <1>4, TakeType, Zenon DEF S
  <1>5. G \in [S \X Nat -> S] /\ \A v \in S, i \in Nat : G[<<v, i>>] = next(v, i)
    <2>1. \A p \in S \X Nat : next(p[1], p[2]) \in S
      <3>1. ASSUME NEW v \in S, NEW i \in Nat PROVE next(v, i) \in S
        BY <1>4, Zenon
      <3> HIDE DEF next
      <3> QED
        BY <3>1
    <2> HIDE DEF next
    <2> QED
      BY <2>1
  <1> HIDE DEF G
  <1>6. PICK r : RecursTo(r, S, n, TakeStart, G)
    <2> HIDE DEF next
    <2> QED
      BY <1>1, <1>3, <1>5, RecursionTo
  <1>7. r \in [0 .. n -> S] /\ r[0] = TakeStart /\ \A i \in 1 .. n : r[i] = G[<<r[i - 1], i>>]
    BY <1>6, Zenon DEF RecursTo
  <1>8. \A i \in 1 .. n : r[i] = TakeDigit(r[i - 1], c(i))
    <2> SUFFICES ASSUME NEW i \in 1 .. n PROVE r[i] = TakeDigit(r[i - 1], c(i))
      BY Zenon
    <2>1. i \in Nat /\ i - 1 \in 0 .. n
      BY <1>1
    <2>2. r[i - 1] \in S
      BY <1>7, <2>1, Zenon
    <2>3. r[i] = next(r[i - 1], i)
      BY <1>5, <1>7, <2>1, <2>2, Zenon
    <2> QED
      BY <2>3, Zenon
  <1> HIDE DEF next
  <1> DEFINE first == [status |-> 0, val |-> "", b_list |-> <<>>]
  <1>9. first = TakeStart
    BY Zenon DEF TakeStart, Taking
  <1> HIDE DEF first
  <1>10. IsTaking(r, text)
    <2> DEFINE R(i) == IF i = 0 THEN first ELSE TakeDigit(r[i - 1], c(i))
    <2>1. ASSUME NEW i \in 0 .. n PROVE r[i] = R(i)
      <3>1. i # 0 => i \in 1 .. n
        BY <1>1
      <3> QED
        BY <1>7, <1>8, <1>9, <3>1, Zenon
    <2> HIDE DEF R
    <2>2. r = [i \in 0 .. n |-> R(i)]
      BY <1>7, <2>1
    <2> QED
      BY <2>2, Zenon DEF IsTaking, n, R, first, c
  <1> DEFINE f == Takings(text)
  <1>11. IsTaking(f, text)
    BY <1>10, Zenon DEF Takings
  <1> HIDE DEF f
  <1>12. f[0] = TakeStart /\ \A i \in 1 .. n : f[i] = TakeDigit(f[i - 1], c(i))
    <2> DEFINE R(i) == IF i = 0 THEN first ELSE TakeDigit(f[i - 1], c(i))
    <2>1. f = [i \in 0 .. n |-> R(i)]
      BY <1>11, Zenon DEF IsTaking, n, first, c
    <2> HIDE DEF R
    <2>2. \A i \in 0 .. n : f[i] = R(i)
      BY <2>1
    <2>3. 0 \in 0 .. n /\ \A i \in 1 .. n : i \in 0 .. n /\ i # 0
      BY <1>1
    <2> QED
      BY <1>9, <2>2, <2>3, Zenon DEF R
  <1> QED
    BY <1>2, <1>12, Zenon DEF f, n, c

High(b) == HexDigits[(b \div 16) + 1]
Low(b)  == HexDigits[(b % 16) + 1]

LEMMA HexCharacters ==
  \A i \in 1 .. 16 : isHex(HexDigits[i]) /\ HexDigits[i] \notin Whitespace /\ HexDigits[i] # ""
  <1>1. \A i \in 1 .. 16 : isHex(HexDigits[i])
    BY Zenon DEF isHex
  <1> DEFINE D == {"0", "1", "2", "3", "4", "5", "6", "7", "8", "9", "a", "b", "c", "d", "e", "f"}
  <1>2. \A i \in 1 .. 16 : HexDigits[i] \in D
    BY DEF HexDigits
  <1>3. "" \notin D /\ \A w \in Whitespace : w \notin D
    BY Zenon DEF Whitespace
  <1> QED
    BY <1>1, <1>2, <1>3, Zenon

LEMMA HighLow ==
  ASSUME NEW b \in 0 .. 255
  PROVE  /\ High(b) \in STRING /\ Len(High(b)) = 1 /\ isHex(High(b)) /\ High(b) \notin Whitespace /\ High(b) # ""
         /\ Low(b) \in STRING /\ Len(Low(b)) = 1 /\ isHex(Low(b)) /\ Low(b) \notin Whitespace
  BY ByteDigits, DigitTexts, HexCharacters, Zenon DEF High, Low

LEMMA HighLowRead ==
  ASSUME StringsAreSequences, NEW b \in 0 .. 255
  PROVE  ReadPair(High(b), Low(b)) = b
  <1> DEFINE x == High(b)
             y == Low(b)
             u == HexPrefix \o x
             t == u \o y
  <1>1. x \in STRING /\ Len(x) = 1 /\ y \in STRING /\ Len(y) = 1
    BY HighLow, Zenon
  <1>2. HexPrefix \in STRING /\ Len(HexPrefix) = 2
    BY LiteralsAssumption DEF HexPrefix
  <1> HIDE DEF x, y
  <1>3. /\ 1 \in Nat \ {0} /\ 1 \in Int /\ 2 \in Int /\ 1 <= 2 + 1 /\ 2 <= 2 /\ 1 <= 1 + 1 /\ 1 <= 1
        /\ 3 \in Nat \ {0} /\ 3 \in Int /\ 3 <= 3 + 1 /\ 3 <= 3
        /\ 2 + 1 = 3 /\ 3 + 1 = 4 /\ 2 <= 3
    OBVIOUS
  <1>4. ASSUME NEW s \in STRING, Len(s) = 1 PROVE SubSeq(s, 1, 1) = s
    BY <1>3, <1>4, TextParts, Zenon
  <1>5. ASSUME NEW s \in STRING, Len(s) = 2 PROVE SubSeq(s, 1, 2) = s
    BY <1>3, <1>5, TextParts, Zenon
  <1>6. u \in STRING /\ Len(u) = 3 /\ SubSeq(u, 1, 2) = HexPrefix /\ SubSeq(u, 3, 3) = x
    <2>1. IsJoint(u, HexPrefix, x)
      BY <1>1, <1>2, Joint, Zenon
    <2> HIDE DEF u
    <2>2. u \in STRING /\ Len(u) = 2 + 1 /\ SubSeq(u, 1, 2) = SubSeq(HexPrefix, 1, 2)
          /\ SubSeq(u, 2 + 1, 2 + 1) = SubSeq(x, 1, 1)
      BY <1>1, <1>2, <1>3, <2>1, Zenon DEF IsJoint
    <2> QED
      BY <1>1, <1>2, <1>3, <1>4, <1>5, <2>2, Zenon
  <1> HIDE DEF u
  <1>7. IsPrefixed(t, x, y)
    <2>1. IsJoint(t, u, y)
      BY <1>1, <1>6, Joint, Zenon
    <2> HIDE DEF t
    <2>2. t \in STRING /\ Len(t) = 3 + 1 /\ SubSeq(t, 1, 2) = SubSeq(u, 1, 2)
          /\ SubSeq(t, 3, 3) = SubSeq(u, 3, 3) /\ SubSeq(t, 3 + 1, 3 + 1) = SubSeq(y, 1, 1)
      BY <1>1, <1>3, <1>6, <2>1, Zenon DEF IsJoint
    <2> QED
      BY <1>1, <1>3, <1>4, <1>6, <2>2, Zenon DEF IsPrefixed
  <1>8. numeric_interpret(t) = Return(b)
    <2> HIDE DEF t
    <2>1. IsPrefixed(t, HexDigits[(b \div 16) + 1], HexDigits[(b % 16) + 1])
      BY <1>7, Zenon DEF x, y, High, Low
    <2> QED
      BY <2>1, ByteRead, Zenon
  <1>9. numeric_interpret(t).val = b
    <2> DEFINE o == numeric_interpret(t)
    <2>1. o = Return(b)
      BY <1>8, Zenon
    <2> HIDE DEF o
    <2>2. o.val = b
      BY <2>1 DEF Return
    <2> QED
      BY <2>2, Zenon DEF o
  <1> QED
    BY <1>9, Zenon DEF ReadPair, t, u, x, y, HexPrefix

LEMMA NextPlaces ==
  \A n, p \in Nat :
    /\ p + 1 <= n => p + 1 \in 1 .. n /\ (p + 1) - 1 = p
    /\ p + 2 <= n => p + 1 \in 1 .. n /\ p + 2 \in 1 .. n /\ (p + 1) - 1 = p /\ (p + 2) - 1 = p + 1
  OBVIOUS

LEMMA SecondTaken ==
  ASSUME NEW v, NEW b, NEW c, c \notin Whitespace, isHex(c), v # ""
  PROVE  TakeDigit(Taking(0, v, b), c) = Taking(0, "", <<ReadPair(v, c)>> \o b)
  BY CharacterTaken, Zenon

(* Two digits are a byte in front of those before it.                      *)
LEMMA PairTaken ==
  ASSUME StringsAreSequences, NEW text \in STRING, NEW p \in Nat, p + 2 <= Len(text), NEW l,
         Takings(text)[p] = Taking(0, "", l), NEW b \in 0 .. 255,
         SubSeq(text, p + 1, p + 1) = High(b), SubSeq(text, p + 2, p + 2) = Low(b)
  PROVE  Takings(text)[p + 2] = Taking(0, "", <<b>> \o l)
  <1> DEFINE f == Takings(text)
  <1>1. p + 1 \in 1 .. Len(text) /\ p + 2 \in 1 .. Len(text) /\ (p + 1) - 1 = p /\ (p + 2) - 1 = p + 1
    <2> DEFINE n == Len(text)
    <2>1. n \in Nat
      BY TextLaws, Zenon
    <2> HIDE DEF n
    <2>2. p + 2 <= n
      BY Zenon DEF n
    <2>3. p + 1 \in 1 .. n /\ p + 2 \in 1 .. n /\ (p + 1) - 1 = p /\ (p + 2) - 1 = p + 1
      BY <2>1, <2>2, NextPlaces, Zenon
    <2> QED
      BY <2>3, Zenon DEF n
  <1>2. f[p + 1] = TakeDigit(Taking(0, "", l), High(b)) /\ f[p + 2] = TakeDigit(f[p + 1], Low(b))
    BY <1>1, TakingSteps, Zenon
  <1> HIDE DEF f
  <1>3. f[p + 1] = Taking(0, High(b), l)
    BY <1>2, HighLow, CharacterTaken, Zenon
  <1>4. f[p + 2] = Taking(0, "", <<ReadPair(High(b), Low(b))>> \o l)
    <2> DEFINE h == High(b)
               c == Low(b)
    <2>1. c \notin Whitespace /\ isHex(c) /\ h # "" /\ f[p + 2] = TakeDigit(Taking(0, h, l), c)
      BY <1>2, <1>3, HighLow, Zenon
    <2> HIDE DEF h, c
    <2>2. TakeDigit(Taking(0, h, l), c) = Taking(0, "", <<ReadPair(h, c)>> \o l)
      BY <2>1, SecondTaken, Zenon
    <2> QED
      BY <2>1, <2>2, Zenon DEF h, c
  <1> QED
    BY <1>4, HighLowRead, Zenon DEF f

LEMMA LineFeedTaken ==
  ASSUME StringsAreSequences, NEW text \in STRING, NEW p \in Nat, p + 1 <= Len(text), NEW l,
         Takings(text)[p] = Taking(0, "", l), SubSeq(text, p + 1, p + 1) = "\n"
  PROVE  Takings(text)[p + 1] = Taking(0, "", l)
  <1>1. p + 1 \in 1 .. Len(text) /\ (p + 1) - 1 = p
    <2> DEFINE n == Len(text)
    <2>1. n \in Nat
      BY TextLaws, Zenon
    <2> HIDE DEF n
    <2>2. p + 1 <= n
      BY Zenon DEF n
    <2>3. p + 1 \in 1 .. n /\ (p + 1) - 1 = p
      BY <2>1, <2>2, NextPlaces, Zenon
    <2> QED
      BY <2>3, Zenon DEF n
  <1>2. "\n" \in Whitespace
    BY Zenon DEF Whitespace
  <1>3. Takings(text)[p + 1] = TakeDigit(Taking(0, "", l), "\n")
    BY <1>1, TakingSteps, Zenon
  <1>4. TakeDigit(Taking(0, "", l), "\n") = Taking(0, "", l)
    BY <1>2, CharacterTaken, Zenon
  <1> QED
    BY <1>3, <1>4, Zenon

(* The characters of a line of a listing, from place p on.                 *)
DigitsAt(text, i, b) == SubSeq(text, i + 1, i + 1) = High(b) /\ SubSeq(text, i + 2, i + 2) = Low(b)

IsLine(text, p, b1, b2, b3, b4) ==
  /\ p + 9 <= Len(text) /\ {b1, b2, b3, b4} \subseteq 0 .. 255
  /\ DigitsAt(text, p, b4) /\ DigitsAt(text, p + 2, b3) /\ DigitsAt(text, p + 4, b2) /\ DigitsAt(text, p + 6, b1)
  /\ SubSeq(text, p + 9, p + 9) = "\n"

LEMMA LinePlaces ==
  \A n, p \in Nat : p + 9 <= n =>
    /\ p + 2 \in Nat /\ p + 4 \in Nat /\ p + 6 \in Nat /\ p + 8 \in Nat /\ p + 9 \in Nat
    /\ p + 2 <= n /\ (p + 2) + 2 <= n /\ (p + 4) + 2 <= n /\ (p + 6) + 2 <= n /\ (p + 8) + 1 <= n
    /\ (p + 2) + 2 = p + 4 /\ (p + 4) + 2 = p + 6 /\ (p + 6) + 2 = p + 8 /\ (p + 8) + 1 = p + 9
  OBVIOUS

(* The bytes read of the first p characters, the last one first.           *)
HasTaken(text, p, l) == text \in STRING /\ p \in Nat /\ Takings(text)[p] = Taking(0, "", l)

LEMMA DigitsTaken ==
  ASSUME StringsAreSequences, NEW b \in 0 .. 255
  PROVE  \A text, p, l : HasTaken(text, p, l) /\ DigitsAt(text, p, b) /\ p + 2 <= Len(text) =>
           HasTaken(text, p + 2, <<b>> \o l)
  <1> SUFFICES ASSUME NEW text, NEW p, NEW l, HasTaken(text, p, l), DigitsAt(text, p, b), p + 2 <= Len(text)
               PROVE  HasTaken(text, p + 2, <<b>> \o l)
    BY Zenon
  <1>1. text \in STRING /\ p \in Nat /\ Takings(text)[p] = Taking(0, "", l)
        /\ SubSeq(text, p + 1, p + 1) = High(b) /\ SubSeq(text, p + 2, p + 2) = Low(b)
    BY Zenon DEF HasTaken, DigitsAt
  <1>2. \A q \in Nat : q + 2 \in Nat
    OBVIOUS
  <1>3. Takings(text)[p + 2] = Taking(0, "", <<b>> \o l)
    BY <1>1, PairTaken, Zenon
  <1> QED
    BY <1>1, <1>2, <1>3, Zenon DEF HasTaken

Four(b1, b2, b3, b4, l) == <<b1>> \o (<<b2>> \o (<<b3>> \o (<<b4>> \o l)))

LEMMA LineTaken ==
  ASSUME StringsAreSequences
  PROVE  \A text, p, l, b1, b2, b3, b4 : HasTaken(text, p, l) /\ IsLine(text, p, b1, b2, b3, b4) =>
           HasTaken(text, p + 9, Four(b1, b2, b3, b4, l))
  <1> SUFFICES ASSUME NEW text, NEW p, NEW l, NEW b1, NEW b2, NEW b3, NEW b4,
                      HasTaken(text, p, l), IsLine(text, p, b1, b2, b3, b4)
               PROVE  HasTaken(text, p + 9, Four(b1, b2, b3, b4, l))
    BY Zenon
  <1> DEFINE l1 == <<b4>> \o l
             l2 == <<b3>> \o l1
             l3 == <<b2>> \o l2
             l4 == <<b1>> \o l3
             n == Len(text)
  <1>0. text \in STRING /\ p \in Nat /\ n \in Nat /\ p + 9 <= n
    BY TextLaws, Zenon DEF HasTaken, IsLine
  <1>1. /\ p + 2 \in Nat /\ p + 4 \in Nat /\ p + 6 \in Nat /\ p + 8 \in Nat /\ p + 9 \in Nat
        /\ p + 2 <= n /\ (p + 2) + 2 <= n /\ (p + 4) + 2 <= n /\ (p + 6) + 2 <= n /\ (p + 8) + 1 <= n
        /\ (p + 2) + 2 = p + 4 /\ (p + 4) + 2 = p + 6 /\ (p + 6) + 2 = p + 8 /\ (p + 8) + 1 = p + 9
    BY <1>0, LinePlaces, Zenon
  <1>2. /\ DigitsAt(text, p, b4) /\ DigitsAt(text, p + 2, b3) /\ DigitsAt(text, p + 4, b2)
        /\ DigitsAt(text, p + 6, b1) /\ SubSeq(text, p + 9, p + 9) = "\n"
        /\ b1 \in 0 .. 255 /\ b2 \in 0 .. 255 /\ b3 \in 0 .. 255 /\ b4 \in 0 .. 255
    BY Zenon DEF IsLine
  <1>3. HasTaken(text, p + 2, l1)
    BY <1>1, <1>2, DigitsTaken, Zenon
  <1> HIDE DEF l1
  <1>4. HasTaken(text, p + 4, l2)
    <2>1. HasTaken(text, (p + 2) + 2, l2)
      BY <1>1, <1>2, <1>3, DigitsTaken, Zenon
    <2> QED
      BY <1>1, <2>1, Zenon
  <1> HIDE DEF l2
  <1>5. HasTaken(text, p + 6, l3)
    <2>1. HasTaken(text, (p + 4) + 2, l3)
      BY <1>1, <1>2, <1>4, DigitsTaken, Zenon
    <2> QED
      BY <1>1, <2>1, Zenon
  <1> HIDE DEF l3
  <1>6. HasTaken(text, p + 8, l4)
    <2>1. HasTaken(text, (p + 6) + 2, l4)
      BY <1>1, <1>2, <1>5, DigitsTaken, Zenon
    <2> QED
      BY <1>1, <2>1, Zenon
  <1> HIDE DEF l4
  <1>7. HasTaken(text, p + 9, l4)
    <2> DEFINE q == p + 8
    <2>1. q \in Nat /\ q + 1 = p + 9 /\ q + 1 <= Len(text) /\ SubSeq(text, q + 1, q + 1) = "\n"
          /\ Takings(text)[q] = Taking(0, "", l4)
      BY <1>1, <1>2, <1>6, Zenon DEF HasTaken
    <2> HIDE DEF q
    <2>2. Takings(text)[q + 1] = Taking(0, "", l4)
      BY <1>0, <2>1, LineFeedTaken, Zenon
    <2>3. q + 1 \in Nat
      BY <1>1, <2>1, Zenon
    <2> QED
      BY <1>0, <2>1, <2>2, <2>3, Zenon DEF HasTaken
  <1> QED
    BY <1>7, Zenon DEF Four, l1, l2, l3, l4

(* A byte in front of others.                                              *)
LEMMA InFront ==
  ASSUME NEW C, NEW x \in C, NEW l \in Seq(C)
  PROVE  /\ <<x>> \o l \in Seq(C) /\ Len(<<x>> \o l) = 1 + Len(l)
         /\ (<<x>> \o l)[1] = x
         /\ \A i \in 1 .. Len(l) : (<<x>> \o l)[1 + i] = l[i]
  OBVIOUS

FourInFront(r, b1, b2, b3, b4, l) ==
  /\ Len(r) = 4 + Len(l) /\ r[1] = b1 /\ r[2] = b2 /\ r[3] = b3 /\ r[4] = b4
  /\ \A i \in 1 .. Len(l) : r[4 + i] = l[i]

LEMMA FourAdded ==
  ASSUME NEW C, NEW b1 \in C, NEW b2 \in C, NEW b3 \in C, NEW b4 \in C, NEW l \in Seq(C)
  PROVE  LET r == Four(b1, b2, b3, b4, l)
         IN  r \in Seq(C) /\ FourInFront(r, b1, b2, b3, b4, l)
  <1> DEFINE l1 == <<b4>> \o l
             l2 == <<b3>> \o l1
             l3 == <<b2>> \o l2
             l4 == <<b1>> \o l3
             n == Len(l)
  <1>0. n \in Nat
    BY LenProperties
  <1>1. /\ l1 \in Seq(C) /\ Len(l1) = 1 + n /\ l1[1] = b4 /\ \A i \in 1 .. n : l1[1 + i] = l[i]
    BY InFront
  <1> HIDE DEF l1
  <1>2. l2 \in Seq(C) /\ Len(l2) = 1 + Len(l1) /\ l2[1] = b3 /\ \A i \in 1 .. Len(l1) : l2[1 + i] = l1[i]
    BY <1>1, InFront
  <1> HIDE DEF l2
  <1>3. l3 \in Seq(C) /\ Len(l3) = 1 + Len(l2) /\ l3[1] = b2 /\ \A i \in 1 .. Len(l2) : l3[1 + i] = l2[i]
    BY <1>2, InFront
  <1> HIDE DEF l3
  <1>4. l4 \in Seq(C) /\ Len(l4) = 1 + Len(l3) /\ l4[1] = b1 /\ \A i \in 1 .. Len(l3) : l4[1 + i] = l3[i]
    BY <1>3, InFront
  <1> HIDE DEF l4, n
  <1>5. /\ Len(l1) = 1 + n /\ Len(l2) = 2 + n /\ Len(l3) = 3 + n /\ Len(l4) = 4 + n
    BY <1>0, <1>1, <1>2, <1>3, <1>4
  <1>6. l4[2] = b2 /\ l4[3] = b3 /\ l4[4] = b4
    <2>1. /\ 1 \in 1 .. 3 + n /\ 2 \in 1 .. 3 + n /\ 3 \in 1 .. 3 + n
          /\ 1 \in 1 .. 2 + n /\ 2 \in 1 .. 2 + n /\ 1 \in 1 .. 1 + n
          /\ 1 + 1 = 2 /\ 1 + 2 = 3 /\ 1 + 3 = 4
      BY <1>0
    <2>2. l4[2] = l3[1] /\ l4[3] = l3[2] /\ l4[4] = l3[3]
      BY <1>4, <1>5, <2>1, Zenon
    <2>3. l3[2] = l2[1] /\ l3[3] = l2[2]
      BY <1>3, <1>5, <2>1, Zenon
    <2>4. l2[2] = l1[1]
      BY <1>2, <1>5, <2>1, Zenon
    <2> QED
      BY <1>1, <1>2, <1>3, <2>2, <2>3, <2>4, Zenon
  <1>7. ASSUME NEW i \in 1 .. n PROVE l4[4 + i] = l[i]
    <2>1. /\ 1 + i \in 1 .. 1 + n /\ 2 + i \in 1 .. 2 + n /\ 3 + i \in 1 .. 3 + n
          /\ 1 + (1 + i) = 2 + i /\ 1 + (2 + i) = 3 + i /\ 1 + (3 + i) = 4 + i
      BY <1>0
    <2>2. l4[4 + i] = l3[3 + i]
      BY <1>4, <1>5, <2>1, Zenon
    <2>3. l3[3 + i] = l2[2 + i]
      BY <1>3, <1>5, <2>1, Zenon
    <2>4. l2[2 + i] = l1[1 + i]
      BY <1>2, <1>5, <2>1, Zenon
    <2> QED
      BY <1>1, <2>2, <2>3, <2>4, Zenon
  <1>8. l4 \in Seq(C) /\ FourInFront(l4, b1, b2, b3, b4, l)
    BY <1>4, <1>5, <1>6, <1>7, Zenon DEF FourInFront, n
  <1> QED
    BY <1>8, Zenon DEF Four, l1, l2, l3, l4

(* The two digits of a byte in a text.                                     *)
LEMMA PairAt ==
  ASSUME StringsAreSequences, NEW t \in STRING, NEW i \in Nat \ {0}, NEW b \in 0 .. 255,
         i + 1 <= Len(t), SubSeq(t, i, i + 1) = Pair(b)
  PROVE  SubSeq(t, i, i) = High(b) /\ SubSeq(t, i + 1, i + 1) = Low(b)
  <1> PICK C : STRING = Seq(C)
    BY DEF StringsAreSequences
  <1>1. ASSUME NEW s \in Seq(C), i + 1 <= Len(s)
        PROVE  /\ SubSeq(SubSeq(s, i, i + 1), 1, 1) = SubSeq(s, i, i)
               /\ SubSeq(SubSeq(s, i, i + 1), 2, 2) = SubSeq(s, i + 1, i + 1)
    <2>1. i + 1 \in Int /\ i <= (i + 1) + 1
      OBVIOUS
    <2>2. /\ 1 \in Nat \ {0} /\ 1 \in Int /\ 1 <= (i + 1) - i + 1 /\ 1 <= 1 + 1 /\ i + 1 - 1 = i
          /\ 2 \in Nat \ {0} /\ 2 \in Int /\ 2 <= (i + 1) - i + 1 /\ 2 <= 2 + 1 /\ i + 2 - 1 = i + 1
      OBVIOUS
    <2>3. SubSeq(SubSeq(s, i, i + 1), 1, 1) = SubSeq(s, i + 1 - 1, i + 1 - 1)
      BY <1>1, <2>1, <2>2, PartOfPart
    <2>4. SubSeq(SubSeq(s, i, i + 1), 2, 2) = SubSeq(s, i + 2 - 1, i + 2 - 1)
      BY <1>1, <2>1, <2>2, PartOfPart
    <2> QED
      BY <2>2, <2>3, <2>4
  <1>2. SubSeq(Pair(b), 1, 1) = SubSeq(t, i, i) /\ SubSeq(Pair(b), 2, 2) = SubSeq(t, i + 1, i + 1)
    BY <1>1, Zenon
  <1> QED
    BY <1>2, PairIs, Zenon DEF High, Low

(* A line of a listing where a text holds it.                              *)
HoldsLine(text, p, u) ==
  \A i \in Nat \ {0} : \A j \in Int : i <= j + 1 /\ j <= 9 => SubSeq(text, p + i, p + j) = SubSeq(u, i, j)

LEMMA LineSizes ==
  /\ 1 \in Nat \ {0} /\ 2 \in Nat \ {0} /\ 3 \in Nat \ {0} /\ 4 \in Nat \ {0} /\ 5 \in Nat \ {0}
  /\ 6 \in Nat \ {0} /\ 7 \in Nat \ {0} /\ 8 \in Nat \ {0} /\ 9 \in Nat \ {0}
  /\ \A i \in 1 .. 8 : i \in Nat \ {0} /\ i \in Int /\ i <= i + 1 /\ i <= 8 /\ i <= 9
  /\ 1 \in 1 .. 8 /\ 2 \in 1 .. 8 /\ 3 \in 1 .. 8 /\ 4 \in 1 .. 8 /\ 5 \in 1 .. 8
  /\ 6 \in 1 .. 8 /\ 7 \in 1 .. 8 /\ 8 \in 1 .. 8 /\ 9 \in Int /\ 9 <= 9 + 1 /\ 9 <= 9
  /\ 1 + 1 = 2 /\ 3 + 1 = 4 /\ 5 + 1 = 6 /\ 7 + 1 = 8 /\ 8 + 1 = 9 /\ 2 * 4 = 8
  /\ 2 * 4 - 2 * 4 + 1 = 1 /\ 2 * 4 - 2 * 4 + 2 = 2 /\ 2 * 4 - 2 * 3 + 1 = 3 /\ 2 * 4 - 2 * 3 + 2 = 4
  /\ 2 * 4 - 2 * 2 + 1 = 5 /\ 2 * 4 - 2 * 2 + 2 = 6 /\ 2 * 4 - 2 * 1 + 1 = 7 /\ 2 * 4 - 2 * 1 + 2 = 8
  /\ 2 <= 8 /\ 4 <= 8 /\ 6 <= 8 /\ 8 <= 8
  /\ 1 \in 1 .. 4 /\ 2 \in 1 .. 4 /\ 3 \in 1 .. 4 /\ 4 \in 1 .. 4
  /\ 1 \in Int /\ 1 <= 1 + 1 /\ 1 <= 1
  OBVIOUS

LEMMA AlongLine ==
  \A p \in Nat : /\ (p + 2) + 1 = p + 3 /\ (p + 2) + 2 = p + 4 /\ (p + 4) + 1 = p + 5
                 /\ (p + 4) + 2 = p + 6 /\ (p + 6) + 1 = p + 7 /\ (p + 6) + 2 = p + 8
  OBVIOUS

LEMMA ListingLine ==
  ASSUME StringsAreSequences, NEW v \in [1 .. 4 -> 0 .. 255], NEW t, HexHolds(t, v, 4), NEW text,
         NEW p \in Nat, p + 9 <= Len(text), HoldsLine(text, p, t \o "\n")
  PROVE  IsLine(text, p, v[1], v[2], v[3], v[4])
  <1> DEFINE u == t \o "\n"
             c(i) == SubSeq(text, p + i, p + i)
  <1>1. /\ t \in STRING /\ Len(t) = 8
        /\ \A k \in 1 .. 4 : SubSeq(t, 2 * 4 - 2 * k + 1, 2 * 4 - 2 * k + 2) = Pair(v[k])
    BY LineSizes, Zenon DEF HexHolds
  <1>2. /\ SubSeq(t, 1, 1 + 1) = Pair(v[4]) /\ SubSeq(t, 3, 3 + 1) = Pair(v[3])
        /\ SubSeq(t, 5, 5 + 1) = Pair(v[2]) /\ SubSeq(t, 7, 7 + 1) = Pair(v[1])
    BY <1>1, LineSizes, Zenon
  <1>3. v[1] \in 0 .. 255 /\ v[2] \in 0 .. 255 /\ v[3] \in 0 .. 255 /\ v[4] \in 0 .. 255
    BY LineSizes
  <1>4. /\ SubSeq(t, 1, 1) = High(v[4]) /\ SubSeq(t, 2, 2) = Low(v[4])
    <2>1. 1 \in Nat \ {0} /\ 1 + 1 <= 8 /\ 1 + 1 = 2
      OBVIOUS
    <2>2. 1 + 1 <= Len(t)
      BY <1>1, <2>1, Zenon
    <2>3. SubSeq(t, 1, 1) = High(v[4]) /\ SubSeq(t, 1 + 1, 1 + 1) = Low(v[4])
      BY <1>1, <1>2, <1>3, <2>1, <2>2, PairAt, Zenon
    <2> QED
      BY <2>1, <2>3, Zenon
  <1>5. /\ SubSeq(t, 3, 3) = High(v[3]) /\ SubSeq(t, 4, 4) = Low(v[3])
    <2>1. 3 \in Nat \ {0} /\ 3 + 1 <= 8 /\ 3 + 1 = 4
      OBVIOUS
    <2>2. 3 + 1 <= Len(t)
      BY <1>1, <2>1, Zenon
    <2>3. SubSeq(t, 3, 3) = High(v[3]) /\ SubSeq(t, 3 + 1, 3 + 1) = Low(v[3])
      BY <1>1, <1>2, <1>3, <2>1, <2>2, PairAt, Zenon
    <2> QED
      BY <2>1, <2>3, Zenon
  <1>6. /\ SubSeq(t, 5, 5) = High(v[2]) /\ SubSeq(t, 6, 6) = Low(v[2])
    <2>1. 5 \in Nat \ {0} /\ 5 + 1 <= 8 /\ 5 + 1 = 6
      OBVIOUS
    <2>2. 5 + 1 <= Len(t)
      BY <1>1, <2>1, Zenon
    <2>3. SubSeq(t, 5, 5) = High(v[2]) /\ SubSeq(t, 5 + 1, 5 + 1) = Low(v[2])
      BY <1>1, <1>2, <1>3, <2>1, <2>2, PairAt, Zenon
    <2> QED
      BY <2>1, <2>3, Zenon
  <1>7. /\ SubSeq(t, 7, 7) = High(v[1]) /\ SubSeq(t, 8, 8) = Low(v[1])
    <2>1. 7 \in Nat \ {0} /\ 7 + 1 <= 8 /\ 7 + 1 = 8
      OBVIOUS
    <2>2. 7 + 1 <= Len(t)
      BY <1>1, <2>1, Zenon
    <2>3. SubSeq(t, 7, 7) = High(v[1]) /\ SubSeq(t, 7 + 1, 7 + 1) = Low(v[1])
      BY <1>1, <1>2, <1>3, <2>1, <2>2, PairAt, Zenon
    <2> QED
      BY <2>1, <2>3, Zenon
  <1>8. "\n" \in STRING /\ Len("\n") = 1 /\ SubSeq("\n", 1, 1) = "\n"
    <2>1. "\n" \in STRING /\ Len("\n") = 1
      BY LiteralsAssumption, Zenon
    <2>2. 1 \in Nat \ {0} /\ 1 \in Int /\ 1 <= 1 + 1 /\ 1 <= 1
      OBVIOUS
    <2> QED
      BY <2>1, <2>2, TextParts, Zenon
  <1>9. (\A i \in 1 .. 8 : SubSeq(u, i, i) = SubSeq(t, i, i)) /\ SubSeq(u, 8 + 1, 8 + 1) = "\n"
    <2>1. IsJoint(u, t, "\n")
      BY <1>1, <1>8, Joint, Zenon
    <2>2. /\ \A i \in 1 .. 8 : i \in Nat \ {0} /\ i \in Int /\ i <= i + 1 /\ i <= 8
          /\ 1 \in Nat \ {0} /\ 1 \in Int /\ 1 <= 1 + 1 /\ 1 <= 1
      OBVIOUS
    <2> HIDE DEF u
    <2>3. \A i \in Nat \ {0} : \A j \in Int : i <= j + 1 =>
            /\ j <= 8 => SubSeq(u, i, j) = SubSeq(t, i, j)
            /\ j <= 1 => SubSeq(u, 8 + i, 8 + j) = SubSeq("\n", i, j)
      BY <1>1, <1>8, <2>1, Zenon DEF IsJoint
    <2> QED
      BY <1>8, <2>2, <2>3, Zenon
  <1> HIDE DEF u
  <1>10. (\A i \in 1 .. 8 : c(i) = SubSeq(u, i, i)) /\ c(9) = SubSeq(u, 9, 9)
    <2>1. HoldsLine(text, p, u)
      BY Zenon DEF u
    <2> QED
      BY <2>1, LineSizes, Zenon DEF HoldsLine
  <1>11. \A i \in 1 .. 8 : c(i) = SubSeq(t, i, i)
    BY <1>9, <1>10, Zenon
  <1>12. c(9) = "\n"
    BY <1>9, <1>10, LineSizes, Zenon
  <1> HIDE DEF c
  <1>13. /\ c(1) = High(v[4]) /\ c(2) = Low(v[4]) /\ c(3) = High(v[3]) /\ c(4) = Low(v[3])
         /\ c(5) = High(v[2]) /\ c(6) = Low(v[2]) /\ c(7) = High(v[1]) /\ c(8) = Low(v[1])
    BY <1>4, <1>5, <1>6, <1>7, <1>11, LineSizes, Zenon
  <1>14. /\ DigitsAt(text, p, v[4]) /\ DigitsAt(text, p + 2, v[3])
         /\ DigitsAt(text, p + 4, v[2]) /\ DigitsAt(text, p + 6, v[1])
    BY <1>13, AlongLine, Zenon DEF c, DigitsAt
  <1> QED
    BY <1>3, <1>12, <1>14, Zenon DEF IsLine, c

(* The blocks of four, from the a-th back to the first.                    *)
BlocksBack(s, a) == [k \in 1 .. a |-> Block(s, a + 1 - k, 4)]

LEMMA FrontAdded ==
  ASSUME NEW s, NEW a \in Nat, NEW l, NEW r, InBlocks(l, BlocksBack(s, a), a, 4),
         LET v == Block(s, a + 1, 4) IN FourInFront(r, v[1], v[2], v[3], v[4], l)
  PROVE  InBlocks(r, BlocksBack(s, a + 1), a + 1, 4)
  <1> DEFINE v == Block(s, a + 1, 4)
             B == BlocksBack(s, a)
             D == BlocksBack(s, a + 1)
  <1>1. Len(l) = a * 4 /\ \A m \in 1 .. a : \A k \in 1 .. 4 : l[(m - 1) * 4 + k] = B[m][k]
    BY Zenon DEF InBlocks
  <1>2. /\ Len(r) = 4 + Len(l) /\ r[1] = v[1] /\ r[2] = v[2] /\ r[3] = v[3] /\ r[4] = v[4]
        /\ \A i \in 1 .. Len(l) : r[4 + i] = l[i]
    BY Zenon DEF FourInFront
  <1>3. D[1] = v /\ \A m \in 1 .. a : D[m + 1] = B[m]
    <2> DEFINE b(k) == Block(s, k, 4)
    <2>1. B = [k \in 1 .. a |-> b(a + 1 - k)] /\ D = [k \in 1 .. a + 1 |-> b((a + 1) + 1 - k)]
      BY Zenon DEF BlocksBack
    <2> HIDE DEF b, B, D
    <2>2. \A m \in 1 .. a : m + 1 \in 1 .. a + 1 /\ (a + 1) + 1 - (m + 1) = a + 1 - m
      OBVIOUS
    <2>3. 1 \in 1 .. a + 1 /\ (a + 1) + 1 - 1 = a + 1
      OBVIOUS
    <2>4. D[1] = b(a + 1)
      BY <2>1, <2>3
    <2>5. \A m \in 1 .. a : B[m] = b(a + 1 - m)
      BY <2>1
    <2>6. \A m \in 1 .. a : D[m + 1] = b((a + 1) + 1 - (m + 1))
      BY <2>1, <2>2
    <2> QED
      BY <2>2, <2>4, <2>5, <2>6, Zenon DEF b
  <1> HIDE DEF v, B, D
  <1>4. Len(r) = (a + 1) * 4
    BY <1>1, <1>2
  <1>5. ASSUME NEW m \in 1 .. a + 1, NEW k \in 1 .. 4 PROVE r[(m - 1) * 4 + k] = D[m][k]
    <2>1. CASE m = 1
      <3>1. (m - 1) * 4 + k = k
        BY <2>1
      <3>2. r[k] = v[k]
        BY <1>2
      <3> QED
        BY <1>3, <2>1, <3>1, <3>2, Zenon
    <2>2. CASE m # 1
      <3> DEFINE n == m - 1
                 i == (n - 1) * 4 + k
      <3>1. n \in 1 .. a /\ n + 1 = m
        BY <2>2
      <3>2. i \in 1 .. a * 4
        BY <3>1, BlockPlaces, Zenon
      <3>3. (m - 1) * 4 + k = 4 + i
        BY <3>1
      <3> HIDE DEF n, i
      <3>4. r[4 + i] = l[i]
        BY <1>1, <1>2, <3>2, Zenon
      <3>5. l[i] = B[n][k]
        BY <1>1, <3>1, Zenon DEF i
      <3>6. D[m] = B[n]
        BY <1>3, <3>1, Zenon
      <3> QED
        BY <3>3, <3>4, <3>5, <3>6, Zenon
    <2> QED
      BY <2>1, <2>2, Zenon
  <1> QED
    BY <1>4, <1>5, Zenon DEF InBlocks, D

(* After each line of a listing x2b has the instructions read, last first. *)
ReadBack(text, s, a) ==
  \E l \in Seq(0 .. 255) : HasTaken(text, a * 9, l) /\ InBlocks(l, BlocksBack(s, a), a, 4)

LEMMA LineReadBack ==
  ASSUME StringsAreSequences, NEW n \in Nat, NEW s \in Seq(0 .. 255), Len(s) = n * 4, NEW a \in Nat, a + 1 <= n,
         NEW t, HexHolds(t, Block(s, a + 1, 4), 4), NEW cs, cs[a + 1] = t \o "\n",
         NEW text, CutsInto(text, cs, n, 9), ReadBack(text, s, a)
  PROVE  ReadBack(text, s, a + 1)
  <1> DEFINE v == Block(s, a + 1, 4)
             p == a * 9
             B == 0 .. 255
  <1>1. /\ a + 1 \in 1 .. n /\ (a + 1) - 1 = a /\ p \in Nat /\ (a + 1) * 9 = p + 9 /\ p + 9 <= n * 9
        /\ 4 \in Nat
    OBVIOUS
  <1>2. v \in [1 .. 4 -> B]
    BY <1>1, BlockIs, Zenon
  <1>3. v[1] \in B /\ v[2] \in B /\ v[3] \in B /\ v[4] \in B
    <2> HIDE DEF v, B
    <2> QED
      BY <1>2
  <1>4. Len(text) = n * 9 /\ HoldsLine(text, p, t \o "\n")
    BY <1>1, Zenon DEF CutsInto, HoldsLine
  <1>5. p + 9 <= Len(text)
    BY <1>1, <1>4, Zenon
  <1>6. IsLine(text, p, v[1], v[2], v[3], v[4])
    BY <1>1, <1>2, <1>4, <1>5, ListingLine, Zenon
  <1>7. PICK l \in Seq(B) : HasTaken(text, p, l) /\ InBlocks(l, BlocksBack(s, a), a, 4)
    BY Zenon DEF ReadBack
  <1> DEFINE r == Four(v[1], v[2], v[3], v[4], l)
  <1> HIDE DEF v, p
  <1>8. HasTaken(text, p + 9, r)
    BY <1>6, <1>7, LineTaken, Zenon
  <1> HIDE DEF B
  <1>9. r \in Seq(B) /\ FourInFront(r, v[1], v[2], v[3], v[4], l)
    BY <1>3, <1>7, FourAdded, Zenon
  <1> HIDE DEF r
  <1>10. InBlocks(r, BlocksBack(s, a + 1), a + 1, 4)
    BY <1>7, <1>9, FrontAdded, Zenon DEF v
  <1> QED
    BY <1>1, <1>8, <1>9, <1>10, Zenon DEF ReadBack, p, B

LEMMA LinesReadBack ==
  ASSUME StringsAreSequences, NEW n \in Nat, NEW s \in Seq(0 .. 255), Len(s) = n * 4,
         NEW text, HoldsBlocks(text, s, n, 4)
  PROVE  LET file == Join([i \in DOMAIN text |-> text[i] \o "\n"])
         IN  ReadBack(file, s, n) /\ Len(file) = n * 9
  <1> DEFINE feed(i) == text[i] \o "\n"
             cs == [i \in DOMAIN text |-> feed(i)]
             file == Join(cs)
             S == {a \in Nat : a <= n => ReadBack(file, s, a)}
  <1>1. /\ DOMAIN text = 1 .. n
        /\ \A a \in 1 .. n : HexHolds(text[a], Block(s, a, 4), 4)
    BY Zenon DEF HoldsBlocks
  <1>2. ASSUME NEW a \in 1 .. n PROVE feed(a) \in STRING /\ Len(feed(a)) = 9
    <2> DEFINE u == text[a]
    <2>1. u \in STRING /\ Len(u) = 2 * 4
      BY <1>1, Zenon DEF HexHolds
    <2>2. "\n" \in STRING /\ Len("\n") = 1
      BY LiteralsAssumption, Zenon
    <2> HIDE DEF u
    <2>3. u \o "\n" \in STRING /\ Len(u \o "\n") = 2 * 4 + 1
      BY <2>1, <2>2, TextJoined, Zenon
    <2>4. 2 * 4 + 1 = 9
      OBVIOUS
    <2> QED
      BY <2>3, <2>4, Zenon DEF u
  <1>3. cs = [i \in 1 .. n |-> feed(i)]
    BY <1>1, Zenon
  <1> HIDE DEF feed, cs
  <1>4. cs \in Seq(STRING) /\ Len(cs) = n /\ \A a \in 1 .. n : cs[a] = feed(a)
    <2>1. \A a \in 1 .. n : feed(a) \in STRING
      BY <1>2, Zenon
    <2> DEFINE T == STRING
    <2> HIDE DEF T
    <2>2. \A a \in 1 .. n : feed(a) \in T
      BY <2>1, Zenon DEF T
    <2>3. cs \in [1 .. n -> T] /\ \A a \in 1 .. n : cs[a] = feed(a)
      BY <1>3, <2>2
    <2>4. cs \in Seq(T) /\ Len(cs) = n
      BY <2>3, SeqDef, LenProperties
    <2> QED
      BY <2>3, <2>4, Zenon DEF T
  <1>5. CutsInto(file, cs, n, 9)
    <2>1. \A a \in 1 .. Len(cs) : Len(cs[a]) = 9
      BY <1>2, <1>4, Zenon
    <2>2. 9 \in Nat
      OBVIOUS
    <2> QED
      BY <1>4, <2>1, <2>2, JoinBlocks, Zenon
  <1> HIDE DEF file
  <1>6. file \in STRING /\ Len(file) = n * 9
    BY <1>5, Zenon DEF CutsInto
  <1>7. 0 \in S
    <2>1. 0 \in Nat /\ 0 * 9 = 0 /\ 0 * 4 = 0 /\ <<>> \in Seq(0 .. 255) /\ Len(<<>>) = 0
          /\ \A a \in 1 .. 0 : FALSE
      OBVIOUS
    <2>2. InBlocks(<<>>, BlocksBack(s, 0), 0, 4)
      BY <2>1, Zenon DEF InBlocks
    <2>3. HasTaken(file, 0, <<>>)
      BY <1>6, <2>1, TakingSteps, Zenon DEF HasTaken, TakeStart
    <2>4. ReadBack(file, s, 0)
      BY <2>1, <2>2, <2>3, Zenon DEF ReadBack
    <2> QED
      BY <2>1, <2>4, Zenon
  <1>8. ASSUME NEW a \in Nat, a \in S PROVE a + 1 \in S
    <2>0. a + 1 \in Nat
      OBVIOUS
    <2> SUFFICES ASSUME a + 1 <= n PROVE ReadBack(file, s, a + 1)
      BY <2>0, Zenon
    <2>1. a <= n /\ a + 1 \in 1 .. n
      OBVIOUS
    <2>2. ReadBack(file, s, a)
      BY <1>8, <2>1, Zenon
    <2>3. HexHolds(text[a + 1], Block(s, a + 1, 4), 4) /\ cs[a + 1] = text[a + 1] \o "\n"
      BY <1>1, <1>4, <2>1, Zenon DEF feed
    <2> QED
      BY <1>5, <2>2, <2>3, LineReadBack, Zenon
  <1> HIDE DEF S
  <1>9. n \in S
    BY <1>7, <1>8, Inductive, Zenon
  <1>10. n <= n
    OBVIOUS
  <1>11. ReadBack(file, s, n)
    BY <1>9, <1>10, Zenon DEF S
  <1> QED
    BY <1>6, <1>11, Zenon DEF file, cs, feed

LEMMA ReadBackFile ==
  ASSUME StringsAreSequences, NEW n \in Nat, NEW s \in Seq(0 .. 255), Len(s) = n * 4,
         NEW text, ReadBack(text, s, n), Len(text) = n * 9
  PROVE  \E b : /\ x2b(text) = [status |-> 0, bytes |-> b]
                /\ b = Concat([k \in 1 .. n |-> SubSeq(s, 4 * (n - k) + 1, 4 * (n - k) + 4)])
  <1> DEFINE part(k) == SubSeq(s, 4 * (n - k) + 1, 4 * (n - k) + 4)
             pieces == [k \in 1 .. n |-> part(k)]
             back == BlocksBack(s, n)
             whole == Concat(pieces)
             B == 0 .. 255
  <1> HIDE DEF B
  <1>1. PICK l \in Seq(B) : HasTaken(text, n * 9, l) /\ InBlocks(l, back, n, 4)
    BY Zenon DEF ReadBack, B
  <1>2. x2b(text) = [status |-> 0, bytes |-> l]
    <2>1. text \in STRING /\ Takings(text)[Len(text)] = Taking(0, "", l)
      BY <1>1, Zenon DEF HasTaken
    <2> QED
      BY <2>1, TakingSteps, Zenon
  <1>3. ASSUME NEW k \in 1 .. n
        PROVE  part(k) = Block(s, n + 1 - k, 4) /\ part(k) \in Seq(B) /\ Len(part(k)) = 4
    <2> DEFINE m == n + 1 - k
    <2>1. m \in 1 .. n /\ m - 1 = n - k
      OBVIOUS
    <2> HIDE DEF m
    <2>2. s \in Seq(B)
      BY Zenon DEF B
    <2>3. /\ SubSeq(s, 4 * (m - 1) + 1, 4 * (m - 1) + 4) = Block(s, m, 4)
          /\ Block(s, m, 4) \in Seq(B) /\ Len(Block(s, m, 4)) = 4
      BY <2>1, <2>2, PieceIs, Zenon
    <2>4. part(k) = Block(s, m, 4)
      BY <2>1, <2>3, Zenon
    <2> QED
      BY <2>3, <2>4, Zenon DEF m
  <1>4. back = [k \in 1 .. n |-> Block(s, n + 1 - k, 4)]
    BY Zenon DEF BlocksBack
  <1> HIDE DEF part, back
  <1>5. pieces \in Seq(Seq(B)) /\ Len(pieces) = n /\ \A k \in 1 .. n : Len(pieces[k]) = 4
    <2> DEFINE T == Seq(B)
    <2>1. \A k \in 1 .. n : part(k) \in T /\ Len(part(k)) = 4
      BY <1>3, Zenon
    <2> HIDE DEF T
    <2>2. pieces \in [1 .. n -> T] /\ \A k \in 1 .. n : pieces[k] = part(k)
      BY <2>1
    <2> HIDE DEF pieces
    <2>3. pieces \in Seq(T) /\ Len(pieces) = n
      BY <2>2, SeqDef, LenProperties
    <2> QED
      BY <2>1, <2>2, <2>3, Zenon DEF T
  <1>6. pieces = back
    <2> DEFINE b(k) == Block(s, n + 1 - k, 4)
    <2>1. \A k \in 1 .. n : part(k) = b(k)
      BY <1>3, Zenon
    <2>2. back = [k \in 1 .. n |-> b(k)]
      BY <1>4, Zenon
    <2> HIDE DEF b
    <2> QED
      BY <2>1, <2>2
  <1> HIDE DEF pieces
  <1>7. whole \in Seq(B) /\ InBlocks(whole, pieces, n, 4)
    <2>1. \A k \in 1 .. Len(pieces) : Len(pieces[k]) = 4
      BY <1>5, Zenon
    <2>2. 4 \in Nat
      OBVIOUS
    <2> QED
      BY <1>5, <2>1, <2>2, ConcatBlocks, Zenon
  <1> HIDE DEF whole
  <1>8. l = whole
    <2>1. InBlocks(l, pieces, n, 4) /\ 4 \in Nat \ {0}
      <3>1. 4 \in Nat \ {0}
        OBVIOUS
      <3> QED
        BY <1>1, <1>6, <3>1, Zenon
    <2> QED
      BY <1>1, <1>7, <2>1, SameBlocks
  <1> QED
    BY <1>2, <1>8, Zenon DEF whole, pieces, part

LEMMA ListingReadBack ==
  ASSUME StringsAreSequences, CountsInv, OutputInv
  PROVE  HexThroughX2b
  <1> DEFINE n == itr
             file == Join([i \in DOMAIN out.text |-> out.text[i] \o "\n"])
             back == Concat([k \in 1 .. n |-> SubSeq(prog, 4 * (n - k) + 1, 4 * (n - k) + 4)])
  <1> SUFFICES ASSUME message = Success, shEnv.st = "hex"
               PROVE  x2b(file).status = 0 /\ x2b(file).bytes = back
    BY Zenon DEF HexThroughX2b, Success
  <1>1. pc = "ended" /\ out = finalize(Written(n), shEnv.width)
    BY Zenon DEF OutputInv, Success
  <1>2. n \in Nat /\ prog \in Seq(0 .. 255) /\ Len(prog) = n * 4
    <2>1. n \in Nat
      BY LenProperties DEF CountsInv, itr
    <2>2. pc # "terminated"
      BY <1>1, Zenon
    <2>3. prog \in Seq(0 .. 255) /\ Len(prog) = 4 * n
      BY <2>2, Zenon DEF CountsInv, OutputInv
    <2>4. 4 * n = n * 4
      BY <2>1
    <2> QED
      BY <2>1, <2>3, <2>4, Zenon
  <1>3. out.text = Listing(n)
    BY <1>1, FinishedFile, Zenon DEF HexLines
  <1>4. HoldsBlocks(out.text, prog, n, 4)
    BY <1>2, <1>3, ListingHolds, Zenon
  <1> HIDE DEF n
  <1>5. ReadBack(file, prog, n) /\ Len(file) = n * 9
    BY <1>2, <1>4, LinesReadBack, Zenon
  <1> HIDE DEF file
  <1>6. PICK b : x2b(file) = [status |-> 0, bytes |-> b] /\ b = back
    BY <1>2, <1>5, ReadBackFile, Zenon
  <1> HIDE DEF back
  <1>7. x2b(file).status = 0 /\ x2b(file).bytes = b
    <2> DEFINE o == x2b(file)
    <2>1. o = [status |-> 0, bytes |-> b]
      BY <1>6, Zenon
    <2> HIDE DEF o
    <2>2. o.status = 0 /\ o.bytes = b
      BY <2>1
    <2> QED
      BY <2>2, Zenon DEF o
  <1> QED
    BY <1>6, <1>7, Zenon

(* What x2b makes of a finished hexadecimal listing holds the instructions *)
(* of the program in reverse order, each one intact                        *)
(* (AsmProps!HexThroughX2b).                                               *)
THEOREM HexThroughX2bHolds ==
  ASSUME StringsAreSequences
  PROVE  Spec => []HexThroughX2b
  <1>1. Init => CountsInv /\ TablesInv
    BY Initially
  <1>2. CountsInv /\ TablesInv /\ [Next]_vars => (CountsInv /\ TablesInv)'
    BY CountsStep
  <1>3. CountsInv /\ OutputInv => HexThroughX2b
    BY ListingReadBack
  <1> QED
    BY <1>1, <1>2, <1>3, OutputInvHolds, PTL DEF Spec
=============================================================================
