------------------------------ MODULE Options ------------------------------
(***************************************************************************)
(* The command line of the assembler and of the loader: class Env in       *)
(* src/class/include/env.h and src/class/src/env.cpp.  The assembler's     *)
(* Shell is a global, so a flag the constructor leaves out starts FALSE;   *)
(* the loader reads none of those.                                         *)
(***************************************************************************)
EXTENDS Integers, Sequences, Text

CONSTANT UnsignedMod  \* an unsigned is a number below this: 2^32

ASSUME UnsignedAssumption == UnsignedMod \in Nat \ {0}

(* What a number becomes in an unsigned, and in an int.                    *)
AsUnsigned(v) == v % UnsignedMod
AsInt(v) ==
  IF 2 * AsUnsigned(v) < UnsignedMod THEN AsUnsigned(v) ELSE AsUnsigned(v) - UnsignedMod

(* The vertical tab, a blank too, is no character of a TLA+ string.        *)
Blanks == {" ", "\t", "\n", "\f", "\r"}

(* The last of the characters of a set that follow the k-th one in a row.  *)
RunEnd(s, k, set) == Max({n \in k .. Len(s) : \A i \in k + 1 .. n : SubSeq(s, i, i) \in set})

CharAfter(s, k) == IF k < Len(s) THEN SubSeq(s, k + 1, k + 1) ELSE ""

NumberAfter(s, k) ==
  IF RunEnd(s, k, DecDigits) = k THEN 0
  ELSE numeric_interpret(SubSeq(s, k + 1, RunEnd(s, k, DecDigits))).val

(* Blanks, a sign or none, and decimal digits: 0 if there are no digits,   *)
(* and whatever follows them is not looked at.                             *)
atoi(s) ==
  LET after  == [k \in 0 .. Len(s) |-> NumberAfter(s, k)]
      signed == [k \in 0 .. Len(s) |->
                   CASE CharAfter(s, k) = "-" -> -after[k + 1]
                     [] CharAfter(s, k) = "+" -> after[k + 1]
                     [] OTHER -> after[k]]
  IN  AsInt(signed[RunEnd(s, 0, Blanks)])

StreamTypes == {"bin", "hex", "mif"}

Env ==
  [AsmInput |-> FALSE, asmInputs |-> <<>>, AsmOutput |-> FALSE, AsmOutputValue |-> FALSE,
   asmOutput |-> "", AsmStrMode |-> FALSE, AsmStrModeValue |-> FALSE, st |-> "bin",
   WordSize |-> FALSE, WordSizeValue |-> FALSE, width |-> 4,
   mode |-> "INTERACTIVE"]

(* An argument is looked at as an option even when it is the value of the  *)
(* one before it.  The word size is unsigned: of the numbers, only 0 is    *)
(* refused, and -1 asks for the widest words there are.                    *)
ReadOption(e, arg, more, next) ==
  IF arg = "-s"
  THEN [e EXCEPT !.AsmStrMode = TRUE,
                 !.AsmStrModeValue = IF more THEN next \in StreamTypes ELSE @,
                 !.st = IF more /\ next \in StreamTypes THEN next ELSE @]
  ELSE IF arg = "-b"
  THEN [e EXCEPT !.WordSize = TRUE,
                 !.width = IF more THEN AsUnsigned(atoi(next)) ELSE @,
                 !.WordSizeValue = IF more THEN AsUnsigned(atoi(next)) > 0 ELSE @]
  ELSE IF arg = "-i"
  THEN [e EXCEPT !.AsmInput = TRUE, !.mode = "MACHINE",
                 !.asmInputs = IF more THEN Append(@, next) ELSE @]
  ELSE IF arg = "-o"
  THEN [e EXCEPT !.AsmOutput = TRUE, !.AsmOutputValue = @ \/ more,
                 !.mode = "MACHINE", !.asmOutput = IF more THEN next ELSE @]
  ELSE e

characterize_Env(args) ==
  LET read[i \in 0 .. Len(args)] ==
        IF i = 0 THEN Env
        ELSE ReadOption(read[i - 1], args[i], i < Len(args), IF i < Len(args) THEN args[i + 1] ELSE "")
  IN  read[Len(args)]
=============================================================================
