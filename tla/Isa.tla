--------------------------------- MODULE Isa ---------------------------------
(***************************************************************************)
(* The instruction set from both sides: MIPS_32::assemble, which turns the *)
(* words of a line into a 32-bit instruction (src/class/src/mips.cpp and   *)
(* mips.h), and the fields the processor takes that instruction apart into *)
(* (decode_stage.sv and execute_stage.sv).                                 *)
(*                                                                         *)
(* An instruction is the set of the positions of its 1 bits.  A mnemonic   *)
(* is its own string; Opcode gives its number.                             *)
(***************************************************************************)
EXTENDS Integers, Sequences, Text

(* The register names in the order of their numbers, from 0.               *)
REGISTERS ==
  <<"zero", "at", "v0", "v1", "a0", "a1", "a2", "a3", "t0", "t1", "t2", "t3", "t4", "t5", "t6",
    "t7", "s0", "s1", "s2", "s3", "s4", "s5", "s6", "s7", "t8", "t9", "k0", "k1", "gp", "sp",
    "fp", "ra">>

Opcode ==
  [halt |-> 0, nop |-> 1, startf |-> 2, starti |-> 3, j |-> 4, jr |-> 5, jal |-> 6, jalr |-> 7,
   addi |-> 8, subi |-> 9, xori |-> 10, andni |-> 11, beqz |-> 12, bnez |-> 13, bltz |-> 14,
   bgez |-> 15, st |-> 16, ld |-> 17, slbi |-> 18, stu |-> 19, lbi |-> 20, add |-> 24,
   sub |-> 25, xor |-> 26, andn |-> 27, seq |-> 28, slt |-> 29, sle |-> 30, loadf |-> 31]

r_inst   == {"add", "sub", "xor", "andn", "seq", "slt", "sle"}
i_inst1  == {"addi", "subi", "xori", "andni", "st", "ld", "stu"}
i_inst2  == {"lbi", "slbi", "beqz", "bnez", "bltz", "bgez", "jr", "jalr"}
j_inst   == {"j", "jal"}
mem_inst == {"st", "stu", "ld"}

----------------------------------------------------------------------------
(* Operands                                                                *)

INVALID == -1

friendly_to_numerical(s) ==
  IF \E i \in DOMAIN REGISTERS : s = "$" \o REGISTERS[i]
  THEN (CHOOSE i \in DOMAIN REGISTERS : s = "$" \o REGISTERS[i]) - 1
  ELSE INVALID

(* The digits are copied to a buffer of exactly their number, so atoi goes *)
(* on into whatever follows it on the heap: stray is the digits found      *)
(* there, "" if none.  No number is too large.                             *)
get_reg_num(s, stray) ==
  IF Len(s) <= 1 THEN Throw("bad_imm")
  ELSE IF SubSeq(s, 1, 1) # "$" THEN Throw("parse_unexpected")
  ELSE IF \E i \in 2 .. Len(s) : SubSeq(s, i, i) \notin DecDigits THEN Throw("bad_reg_format")
  ELSE numeric_interpret(SubSeq(s, 2, Len(s)) \o stray)

Register(s, stray) ==
  IF friendly_to_numerical(s) # INVALID
  THEN Return(friendly_to_numerical(s))
  ELSE get_reg_num(s, stray)

get_imm(s) == numeric_interpret(s)

(* The register of "(reg)"; an offset cannot be given here.                *)
Unparenthesized(s) ==
  Join([i \in 1 .. Len(s) |-> IF Chars(s)[i] \in {"(", ")"} THEN "" ELSE Chars(s)[i]])

BaseRegister(s, stray) ==
  IF SubSeq(s, 1, 1) # "(" \/ ~ \E i \in 1 .. Len(s) : SubSeq(s, i, i) = ")"
  THEN Throw("unmatched_parenthesis")
  ELSE Register(Unparenthesized(s), stray)

(* An operand: the field it sets and its value.                            *)
Set(field, result) == [field |-> field, err |-> result.err, val |-> result.val]

FirstArg(op, s, syms, stray) ==
  CASE op \in r_inst  -> Set("rd", Register(s, stray))
    [] op \in i_inst1 -> Set("rt", Register(s, stray))
    [] op \in i_inst2 -> Set("rs", Register(s, stray))
    [] op \in j_inst  ->
         Set("imm", IF s \in DOMAIN syms THEN Return(syms[s] \div 4) ELSE get_imm(s))
    [] OTHER -> Set("signum", get_imm(s))

SecondArg(op, s, stray) ==
  CASE op \in mem_inst -> Set("rs", BaseRegister(s, stray))
    [] op \in (r_inst \cup i_inst1) \ mem_inst -> Set("rs", Register(s, stray))
    [] op \in i_inst2  -> Set("imm", get_imm(s))
    [] OTHER -> Set("filter", get_imm(s))

(* Mutant: the offset counts from the branch itself.                       *)
offset_from_branch(current, target) == ((target - current) \div 4) % 2^30
(* Both are byte addresses; the shift right is of an unsigned word.        *)
offset_to_address_br(current, target) == ((target - current - 4) \div 4) % 2^30

ThirdArg(op, s, base, syms, stray) ==
  IF op \in r_inst
  THEN Set("rt", Register(s, stray))
  ELSE Set("imm", IF s \in DOMAIN syms THEN Return(offset_to_address_br(base, syms[s]))
                                       ELSE get_imm(s))

----------------------------------------------------------------------------
(* Encoding                                                                *)

(* The low width bits of v, placed from bit lo.                            *)
Field(v, width, lo) == {lo + i : i \in {k \in 0 .. width - 1 : (v \div 2^k) % 2 = 1}}

(* The low registers are the only ones these instructions name.  The check *)
(* of xori and andni is on rd, which they do not set, instead of rt.       *)
InvalidReg(op, rs, rt, rd) ==
  \/ op \in {"xor", "andn", "seq", "slt", "sle"} /\ (rs > 7 \/ rt > 7 \/ rd > 7)
  \/ op \in {"xori", "andni"} /\ (rs > 7 \/ rd > 7)
  \/ op \in mem_inst /\ rs > 7
  \/ op \in i_inst2 \ {"lbi", "slbi"} /\ rs > 7

Operands(op, rs, rt, rd, imm, filter, signum) ==
  CASE op \in r_inst  -> Field(rd, 4, 15) \cup Field(rt, 4, 19) \cup Field(rs, 4, 23)
    [] op \in i_inst1 -> Field(imm, 19, 0) \cup Field(rt, 4, 19) \cup Field(rs, 4, 23)
    [] op \in i_inst2 -> Field(imm, 23, 0) \cup Field(rs, 4, 23)
    [] op \in j_inst  -> Field(imm, 27, 0)
    [] op = "startf"  -> (IF filter # 0 THEN {8} ELSE {}) \cup Field(signum, 18, 9)
    [] op \in {"starti", "loadf"} -> Field(signum, 18, 9)
    [] op \in {"halt", "nop"}     -> {}

generic_mips32_encode(op, rs, rt, rd, imm, filter, signum) ==
  IF InvalidReg(op, rs, rt, rd)
  THEN Throw("invalid_reg")
  ELSE Return(Operands(op, rs, rt, rd, imm, filter, signum) \cup Field(Opcode[op], 5, 27))

ArgCount(op) ==
  CASE op \in r_inst \cup i_inst1 -> 4
    [] op \in i_inst2 \cup {"startf"} -> 3
    [] op \in j_inst \cup {"starti", "loadf"} -> 2
    [] op \in {"halt", "nop"} -> 1

(* What the operands set a field to, 0 if none does.                       *)
FieldValue(arg, f) ==
  IF \E k \in DOMAIN arg : arg[k].field = f
  THEN arg[CHOOSE k \in DOMAIN arg : arg[k].field = f].val
  ELSE 0

Encode(op, arg) ==
  LET bad == {k \in DOMAIN arg : arg[k].err # ""}
  IN IF bad # {}
     THEN Throw(arg[Min(bad)].err)
     ELSE generic_mips32_encode(op, FieldValue(arg, "rs"), FieldValue(arg, "rt"),
                                FieldValue(arg, "rd"), FieldValue(arg, "imm"),
                                FieldValue(arg, "filter"), FieldValue(arg, "signum"))

(* base is the address of the line, stray[k] what follows the digits of    *)
(* its k-th operand.  No words give the instruction 0.                     *)
ReadOperands(args, base, syms, stray) ==
  [k \in 1 .. Len(args) - 1 |->
     IF k = 1 THEN FirstArg(args[1], args[2], syms, stray[1])
     ELSE IF k = 2 THEN SecondArg(args[1], args[3], stray[2])
     ELSE ThirdArg(args[1], args[4], base, syms, stray[3])]

assemble(args, base, syms, stray) ==
  IF args = <<>> THEN Return({})
  ELSE IF args[1] \notin DOMAIN Opcode THEN Throw("bad_mnemonic")
  ELSE IF Len(args) # ArgCount(args[1]) THEN Throw("asm_bad_arg_count")
  ELSE Encode(args[1], ReadOperands(args, base, syms, stray))

(* The number that width bits of w make, the lowest of them at lo.         *)
Bits(w, width, lo) ==
  LET low[i \in 0 .. width] ==
        IF i = 0 THEN 0 ELSE low[i - 1] + (IF lo + i - 1 \in w THEN 2^(i - 1) ELSE 0)
  IN  low[width]

(* The bytes of an instruction, the low one first.                         *)
get_nth_byte(w, n) == Bits(w, 8, 8 * n)

----------------------------------------------------------------------------
(* What the processor makes of an instruction                              *)

SignExtend(v, width) == IF v >= 2^(width - 1) THEN v - 2^width ELSE v

opcodeOf(w) == CHOOSE op \in DOMAIN Opcode : Opcode[op] = Bits(w, 5, 27)

rsOf(w) == Bits(w, 4, 23)
rtOf(w) == Bits(w, 4, 19)
rdOf(w) == Bits(w, 4, 15)

immediateOf(w) ==
  CASE opcodeOf(w) \in {"xori", "andni"} -> Bits(w, 19, 0)
    [] opcodeOf(w) \in i_inst1 \ {"xori", "andni"} -> SignExtend(Bits(w, 19, 0), 19)
    [] opcodeOf(w) = "slbi" -> Bits(w, 16, 0)
    [] opcodeOf(w) \in i_inst2 \ {"slbi"} -> SignExtend(Bits(w, 23, 0), 23)
    [] opcodeOf(w) \in j_inst -> SignExtend(Bits(w, 27, 0), 27)

sigNumOf(w) == Bits(w, 18, 9)
filterOf(w) == 8 \in w
=============================================================================
