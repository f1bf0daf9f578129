------------------------------ MODULE AsmProps ------------------------------
(***************************************************************************)
(* What the assembler promises, stated over module Assembler.              *)
(***************************************************************************)
EXTENDS Assembler, X2b

(* The two passes count the same addresses: the address at which pass 2    *)
(* assembles a line is the one pass 1 gave that line, although the one     *)
(* counts lines and the other the bytes the instructions really take.      *)
PassesAgree ==
  /\ equiv_pc = 4 * Len(lines)
  /\ asm_pc = 4 * itr /\ itr <= Len(lines)
  /\ pc # "terminated" => Len(prog) = asm_pc
  /\ pc = "pass 2" /\ itr < Len(lines) =>
       /\ asm_pc \in DOMAIN PC_to_line_number
       /\ line_number_to_PC[PC_to_line_number[asm_pc]] = asm_pc

(* Why they do: every kept line has its address in both tables.            *)
Listed(s) == Len(s) \in Nat /\ s = [i \in 1 .. Len(s) |-> s[i]]

CountsInv ==
  /\ Listed(lines) /\ inst_lengths \in Seq({4})
  /\ equiv_pc = 4 * Len(lines)
  /\ asm_pc = 4 * itr /\ itr <= Len(lines)
  /\ pc # "terminated" => Listed(prog) /\ Len(prog) = asm_pc

TablesInv ==
  /\ line_number \in Nat
  /\ DOMAIN line_number_to_PC \subseteq 1 .. line_number
  /\ DOMAIN PC_to_line_number = {4 * k : k \in 0 .. Len(lines) - 1}
  /\ \A a \in DOMAIN PC_to_line_number :
       /\ PC_to_line_number[a] \in DOMAIN line_number_to_PC
       /\ line_number_to_PC[PC_to_line_number[a]] = a

----------------------------------------------------------------------------
(* The source line by line, and what a line of it says.                    *)

Newlines(s) == {i \in 1 .. Len(s) : SubSeq(s, i, i) = "\n"}
LineEnds(s) == Newlines(s) \cup {Len(s)}

LineOf(s, n) ==
  LET to   == CHOOSE e \in LineEnds(s) : Cardinality({d \in LineEnds(s) : d < e}) = n - 1
      from == Max({0} \cup {d \in LineEnds(s) : d < to})
  IN SubSeq(s, from + 1, to)

SourceLine(n) == LineOf(run.source, n)
LineCount == Cardinality(LineEnds(run.source))

(* The buffer holds every line, every line ends in a newline and no word   *)
(* is quoted.                                                              *)
PlainSource ==
  /\ Len(run.source) \in Newlines(run.source)
  /\ \A n \in 1 .. LineCount :
       /\ Len(SourceLine(n)) <= LineMax
       /\ \A i \in 1 .. Len(SourceLine(n)) : SubSeq(SourceLine(n), i, i) \notin Quotes \cup {"\\"}

Words(n) == chop_string(SourceLine(n)).val
IsLabelled(n) == Words(n) # <<>> /\ Labelled(Words(n))
Instruction(n) == IF IsLabelled(n) THEN Tail(Words(n)) ELSE Words(n)
PlainLabel(n) ==
  IsLabelled(n) => \A i \in 1 .. Len(LabelOf(Words(n))) : SubSeq(LabelOf(Words(n)), i, i) # ":"
CodeLines == {n \in 1 .. LineCount : Instruction(n) # <<>>}
CodeBefore(n) == Cardinality({m \in CodeLines : m < n})

(* The n-th line's instruction is kept in its place, and its address leads *)
(* back to it.  (Of a label that holds a colon itself, only what is before *)
(* that is cut off.)                                                       *)
IsKept(n) ==
  /\ PlainLabel(n) => chop_string(lines[CodeBefore(n) + 1]) = Return(Instruction(n))
  /\ PC_to_line_number[4 * CodeBefore(n)] = n

(* Pass 1 hands pass 2 the program that was written: the kept lines are    *)
(* those of the source that hold an instruction, in order, each with the   *)
(* words of that instruction, whatever was cut off them.                   *)
SourceKept ==
  pc = "pass 2" /\ PlainSource =>
    Len(lines) = Cardinality(CodeLines) /\ \A n \in CodeLines : IsKept(n)

IsResolved(n) ==
  LET l == LabelOf(Words(n))
  IN /\ jump_syms[l] = 4 * CodeBefore(n)
     /\ \E i \in DOMAIN PC_to_syms[jump_syms[l]] : PC_to_syms[jump_syms[l]][i] = l

(* A label stands for the instruction that follows it in the source, and   *)
(* both directions of the table say so.                                    *)
LabelsResolve ==
  pc = "pass 2" /\ PlainSource => \A n \in 1 .. LineCount : IsLabelled(n) => IsResolved(n)

(* Why they do: pass 1 stands behind a line of the source, and holds for   *)
(* the lines before it.                                                    *)
AtLine(at) ==
  /\ inst_file = SubSeq(run.source, at + 1, Len(run.source))
  /\ line_number = Cardinality({d \in LineEnds(run.source) : d <= at})

LinesRead ==
  /\ Len(lines) = CodeBefore(line_number + 1)
  /\ \A n \in CodeLines : n <= line_number => CodeBefore(n) < Len(lines) /\ IsKept(n)
  /\ \A n \in 1 .. line_number : IsLabelled(n) =>
       /\ LabelOf(Words(n)) \in DOMAIN jump_syms
       /\ jump_syms[LabelOf(Words(n))] \in DOMAIN PC_to_syms /\ IsResolved(n)
  /\ \A a \in DOMAIN PC_to_syms : PC_to_syms[a] \in Seq(STRING)

SplitInv ==
  /\ run \in Cases
  /\ PlainSource /\ pc \in {"start", "pass 1", "pass 2"} =>
       /\ pc = "start" => line_number = 0
       /\ pc = "pass 1" => \E at \in {0} \cup LineEnds(run.source) : AtLine(at)
       /\ pc = "pass 2" => line_number = LineCount
       /\ LinesRead

----------------------------------------------------------------------------
(* What was assembled                                                      *)

Word(k) == UNION {Field(prog[4 * (k - 1) + n], 8, 8 * (n - 1)) : n \in 1 .. 4}

Low4(s) == Register(s, "").val % 16
Immediate(s, k) ==
  IF s \in DOMAIN jump_syms THEN (jump_syms[s] - 4 * k) \div 4 ELSE get_imm(s).val

(* The immediates that the field of an instruction can hold.               *)
Fits(op, v) ==
  CASE op \in {"xori", "andni"} -> v \in 0 .. 2^19 - 1
    [] op = "slbi" -> v \in 0 .. 2^16 - 1
    [] op \in i_inst1 \ {"xori", "andni"} -> v \in -(2^18) .. 2^18 - 1
    [] op \in i_inst2 \ {"slbi"} -> v \in -(2^22) .. 2^22 - 1
    [] OTHER -> v \in -(2^26) .. 2^26 - 1

Means(a, w, k) ==
  LET op == a[1]
  IN /\ opcodeOf(w) = op
     /\ op \in r_inst => <<rdOf(w), rsOf(w), rtOf(w)>> = <<Low4(a[2]), Low4(a[3]), Low4(a[4])>>
     /\ op \in i_inst1 =>
          /\ rtOf(w) = Low4(a[2])
          /\ rsOf(w) = Low4(IF op \in mem_inst THEN Unparenthesized(a[3]) ELSE a[3])
          /\ Fits(op, Immediate(a[4], k)) => immediateOf(w) = Immediate(a[4], k)
     /\ op \in i_inst2 =>
          /\ rsOf(w) = Low4(a[2])
          /\ Fits(op, get_imm(a[3]).val) => immediateOf(w) = get_imm(a[3]).val
     /\ op \in j_inst /\ a[2] \notin DOMAIN jump_syms =>
          (Fits(op, get_imm(a[2]).val) => immediateOf(w) = get_imm(a[2]).val)
     /\ op \in {"startf", "starti", "loadf"} => sigNumOf(w) = get_imm(a[2]).val % 2^18
     /\ op = "startf" => (filterOf(w) <=> get_imm(a[3]).val # 0)

(* The processor reads out of an instruction what its line says: the       *)
(* fields mips.cpp packs are the ones decode_stage.sv and execute_stage.sv *)
(* cut out, with the sign extension of each format.  Register numbers are  *)
(* taken modulo 16, immediates that do not fit and numbers read past their *)
(* digits are left out.                                                    *)
InstructionsRoundTrip ==
  pc = "open" =>
    \A k \in 1 .. itr : ~strayed[k] =>
      LET a == chop_string(lines[k]).val
      IN IF a = <<>> THEN opcodeOf(Word(k)) = "halt" ELSE Means(a, Word(k), k)

(* Why it does: the text is kept as text, and unless digits strayed into   *)
(* the k-th kept line its bytes are those of its words, assembled.         *)
SourceInv ==
  /\ pc = "start" => run \in Cases
  /\ inst_file \in STRING /\ lines \in Seq(STRING)
  /\ \A l \in DOMAIN jump_syms : jump_syms[l] \in Int

Encoded(k) ==
  /\ Returned(chop_string(lines[k]))
  /\ ~strayed[k] =>
       LET inst == assemble(chop_string(lines[k]).val, 4 * (k - 1), jump_syms, NoStrays)
       IN  Returned(inst) /\ \A n \in 1 .. 4 : prog[4 * (k - 1) + n] = get_nth_byte(inst.val, n - 1)

EncodedInv ==
  /\ Listed(strayed) /\ Len(strayed) = itr
  /\ pc \in {"start", "pass 1"} => itr = 0
  /\ pc # "terminated" => \A k \in 1 .. itr : Encoded(k)

(* The bytes a reader of the file gets back from each format.              *)
Byte(s) == numeric_interpret("0x" \o s).val
BytesIn(text) ==
  Concat([i \in DOMAIN text |-> [k \in DOMAIN HexPairs(text[i]) |-> Byte(HexPairs(text[i])[k])]])
FileBytes == IF shEnv.st = "bin" THEN out.bytes ELSE BytesIn(out.text)

(* A finished file holds the program and nothing else, in every format and *)
(* for every word size: a MIF file only adds zeros to fill its last word,  *)
(* and its depth is the number of its words.                               *)
OutputMatchesProgram ==
  message = "success" =>
    /\ Len(FileBytes) - Len(prog) \in
         IF shEnv.st = "mif" THEN 0 .. shEnv.width - 1 ELSE {0}
    /\ SubSeq(FileBytes, 1, Len(prog)) = prog
    /\ \A i \in Len(prog) + 1 .. Len(FileBytes) : FileBytes[i] = 0
    /\ out.header # <<>> => out.header[2] = Len(out.text)

(* Why it does: the first n instructions are in the stream, each one in    *)
(* the form of the format, and only a file with all of them is a success.  *)
Listing(n) == [k \in 1 .. n |-> dynamicHexBuilder(SubSeq(prog, 4 * (k - 1) + 1, 4 * (k - 1) + 4))]

Written(n) ==
  [name |-> out.name, total_bytes |-> 4 * n, header |-> <<>>,
   bytes |-> IF shEnv.st = "bin" THEN SubSeq(prog, 1, 4 * n) ELSE <<>>,
   text |-> IF shEnv.st = "hex" THEN Listing(n) ELSE <<>>,
   mif_insts |-> IF shEnv.st = "mif" THEN Listing(n) ELSE <<>>]

OptionsInv ==
  pc \in {"pass 1", "pass 2", "open", "write"} \/ message = "success" =>
    shEnv.st \in StreamTypes /\ shEnv.width \in Nat \ {0}

OutputInv ==
  /\ OptionsInv
  /\ pc # "terminated" => prog \in Seq(0 .. 255)
  /\ pc = "write" => \E n \in 0 .. itr : out = Written(n)
  /\ message = "success" => pc = "ended" /\ out = finalize(Written(itr), shEnv.width)

(* The loader takes binary files; x2b makes one of a hexadecimal listing.  *)
(* It holds the program's instructions in reverse order, each one intact.  *)
HexThroughX2b ==
  message = "success" /\ shEnv.st = "hex" =>
    LET file == x2b(Join([i \in DOMAIN out.text |-> out.text[i] \o "\n"]))
    IN /\ file.status = 0
       /\ file.bytes = Concat([k \in 1 .. itr |-> SubSeq(prog, 4 * (itr - k) + 1, 4 * (itr - k) + 4)])

(* mips.cpp:400 resolves the label of a jump, and "subroutine.s" calls a   *)
(* label with it: the processor, which adds the immediate to the address   *)
(* of the next instruction (execute_stage.sv:56), should go there.         *)
JumpsReachLabels ==
  pc = "open" =>
    \A k \in 1 .. itr :
      LET a == chop_string(lines[k]).val
      IN a # <<>> /\ a[1] \in j_inst /\ a[2] \in DOMAIN jump_syms =>
           k + immediateOf(Word(k)) = jump_syms[a[2]] \div 4
=============================================================================
