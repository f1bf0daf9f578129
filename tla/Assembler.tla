------------------------------ MODULE Assembler ------------------------------
(***************************************************************************)
(* The assembler class: Shell::Run in src/class/src/shell.cpp with the     *)
(* option reader (env.cpp), the symbol table (syms_table.cpp), the program *)
(* image (program.cpp) and the output stream (mtsstream.cpp).              *)
(*                                                                         *)
(* Pass 1 reads the source line by line, gives every instruction line an   *)
(* address and every label the address of what follows it.  Pass 2         *)
(* assembles the kept lines in order, counting addresses again, and only   *)
(* then is the output file opened and written.                             *)
(***************************************************************************)
EXTENDS Integers, Sequences, Text, Options, Isa

CONSTANTS
  Cases,        \* what the program may be run on: [args, source] records,
                \* source being the text of the file named by -i
  LineMax,      \* characters of one fgets (254 in the source)
  MaxProgram,   \* MAX_PROGRAM, in bytes
  Readable,     \* the names fopen can read
  Writable,     \* the names fopen can write
  StrayDigits   \* digits that may follow a register number on the heap

ASSUME CasesAssumption      == \A c \in Cases : c.args \in Seq(STRING) /\ c.source \in STRING
ASSUME LineMaxAssumption    == LineMax \in Nat \ {0}
ASSUME MaxProgramAssumption == MaxProgram \in Nat

VARIABLES
  run,           \* the args and the source of this run
  pc,            \* where Shell::Run is
  message,       \* what the run ended with
  shEnv,         \* the options
  inst_file,     \* what is left to read of the source
  line_number,
  equiv_pc,      \* pass 1's address
  lines,         \* the instruction lines, labels and newlines removed
  jump_syms,     \* label -> address
  PC_to_syms,    \* address -> its labels
  line_number_to_PC, PC_to_line_number,
  asm_pc,        \* pass 2's address
  prog,          \* the bytes assembled
  inst_lengths,
  strayed,       \* history: whether stray digits changed it, per instruction
  out            \* the output file and the stream that writes it

pass1Vars == <<inst_file, line_number, equiv_pc, lines, jump_syms, PC_to_syms,
               line_number_to_PC, PC_to_line_number>>
pass2Vars == <<asm_pc, prog, inst_lengths, strayed>>
vars == <<run, pc, message, shEnv, pass1Vars, pass2Vars, out>>

----------------------------------------------------------------------------
(* Options                                                                 *)

(* Why the run stops before it reads the source; "" if it does not.        *)
OptionError(e) ==
  CASE ~e.AsmInput -> "usage"
    [] e.AsmInput /\ e.asmInputs = <<>> -> "input file required"
    [] e.asmInputs # <<>> /\ e.asmInputs[1] \notin Readable -> "cannot be opened"
    [] OTHER ->
         CASE e.AsmOutput /\ ~e.AsmOutputValue -> "-o requires a filename"
           [] e.AsmStrMode /\ ~e.AsmStrModeValue -> "-s requires a mode"
           [] e.WordSize /\ ~e.WordSizeValue -> "-b requires an integer"
           [] OTHER -> ""

----------------------------------------------------------------------------
(* The run                                                                 *)

NoFile == [name |-> "", bytes |-> <<>>, text |-> <<>>, mif_insts |-> <<>>, total_bytes |-> 0,
           header |-> <<>>]

Init ==
  /\ run \in Cases
  /\ pc = "start" /\ message = "" /\ shEnv = Env
  /\ inst_file = "" /\ line_number = 0 /\ equiv_pc = 0 /\ lines = <<>>
  /\ jump_syms = <<>> /\ PC_to_syms = <<>>
  /\ line_number_to_PC = <<>> /\ PC_to_line_number = <<>>
  /\ asm_pc = 0 /\ prog = <<>> /\ inst_lengths = <<>> /\ strayed = <<>>
  /\ out = NoFile

Stop(m) == pc' = "ended" /\ message' = m

(* An exception nothing catches.                                           *)
Terminate == pc' = "terminated" /\ UNCHANGED message

Start ==
  /\ pc = "start"
  /\ shEnv' = characterize_Env(run.args)
  /\ \/ OptionError(shEnv') # "" /\ Stop(OptionError(shEnv')) /\ UNCHANGED inst_file
     \/ /\ OptionError(shEnv') = ""
        /\ pc' = "pass 1" /\ inst_file' = run.source /\ UNCHANGED message
  /\ UNCHANGED <<run, line_number, equiv_pc, lines, jump_syms, PC_to_syms, line_number_to_PC,
                 PC_to_line_number, pass2Vars, out>>

(* One fgets: through the newline, or a full buffer of a longer line.      *)
fgets(s) ==
  SubSeq(s, 1, Min({Len(s), LineMax} \cup {i \in 1 .. Len(s) : SubSeq(s, i, i) = "\n"}))

current_line == fgets(inst_file)
parts == chop_string(current_line)

Labelled(words) == SubSeq(words[1], Len(words[1]), Len(words[1])) = ":"
LabelOf(words) == pop_back(words[1])

(* Assignment to an element of a std::map.                                 *)
Put(map, key, v) == [k \in DOMAIN map \cup {key} |-> IF k = key THEN v ELSE map[k]]

(* Mutant: a second label of an address is not entered there.              *)
syms_insert_first(key) ==
  /\ jump_syms' = Put(jump_syms, key, equiv_pc)
  /\ PC_to_syms' = Put(PC_to_syms, equiv_pc, <<key>>)
syms_insert(key) ==
  /\ jump_syms' = Put(jump_syms, key, equiv_pc)
  /\ PC_to_syms' = IF equiv_pc \in DOMAIN PC_to_syms
                   THEN [PC_to_syms EXCEPT ![equiv_pc] = Append(@, key)]
                   ELSE Put(PC_to_syms, equiv_pc, <<key>>)

NextLine ==
  /\ pc = "pass 1" /\ inst_file # ""
  /\ inst_file' = SubSeq(inst_file, Len(current_line) + 1, Len(inst_file))
  /\ line_number' = line_number + 1
  /\ UNCHANGED <<run, shEnv, pass2Vars, out>>

SymbolsError ==
  /\ NextLine
  /\ \/ parts.err # "" /\ Stop(parts.err)
     \/ /\ parts.err = "" /\ parts.val # <<>> /\ Labelled(parts.val)
        /\ LabelOf(parts.val) \in DOMAIN jump_syms
        /\ Stop("multidef_symbol")
  /\ UNCHANGED <<equiv_pc, lines, jump_syms, PC_to_syms, line_number_to_PC, PC_to_line_number>>

(* Nothing but white space and comment, or nothing but a label.            *)
SkipLine ==
  /\ NextLine /\ parts.err = ""
  /\ \/ parts.val = <<>> /\ UNCHANGED <<jump_syms, PC_to_syms>>
     \/ /\ Len(parts.val) = 1 /\ Labelled(parts.val)
        /\ LabelOf(parts.val) \notin DOMAIN jump_syms
        /\ syms_insert(LabelOf(parts.val))
  /\ UNCHANGED <<pc, message, equiv_pc, lines, line_number_to_PC, PC_to_line_number>>

(* Mutant: the address is counted before it is recorded.                   *)
KeepLineLate(text) ==
  /\ equiv_pc' = equiv_pc + 4
  /\ lines' = Append(lines, pop_back(text))
  /\ line_number_to_PC' = Put(line_number_to_PC, line_number', equiv_pc')
  /\ PC_to_line_number' = Put(PC_to_line_number, equiv_pc', line_number')
  /\ UNCHANGED <<pc, message>>
(* The last character goes, a newline or not.                              *)
KeepLine(text) ==
  /\ lines' = Append(lines, pop_back(text))
  /\ line_number_to_PC' = Put(line_number_to_PC, line_number', equiv_pc)
  /\ PC_to_line_number' = Put(PC_to_line_number, equiv_pc, line_number')
  /\ equiv_pc' = equiv_pc + 4
  /\ UNCHANGED <<pc, message>>

TakeLine ==
  /\ NextLine /\ parts.err = "" /\ parts.val # <<>>
  /\ \/ /\ ~Labelled(parts.val)
        /\ KeepLine(current_line) /\ UNCHANGED <<jump_syms, PC_to_syms>>
     \/ /\ Labelled(parts.val) /\ Len(parts.val) > 1
        /\ LabelOf(parts.val) \notin DOMAIN jump_syms
        /\ syms_insert(LabelOf(parts.val))
        /\ KeepLine(trim_label(current_line))

EndPass1 ==
  /\ pc = "pass 1" /\ inst_file = ""
  /\ pc' = "pass 2"
  /\ UNCHANGED <<run, message, shEnv, pass1Vars, pass2Vars, out>>

itr == Len(inst_lengths)
NoStrays == [k \in 1 .. 3 |-> ""]
LittleEndian(w) == [n \in 1 .. 4 |-> get_nth_byte(w, n - 1)]

HasRoom == Len(prog) + 4 <= MaxProgram

(* chop_string runs before the try block, write_next after it.             *)
AsmFlash ==
  /\ pc = "pass 2" /\ itr < Len(lines)
  /\ LET args == chop_string(lines[itr + 1])
     IN \/ args.err # "" /\ Terminate /\ UNCHANGED pass2Vars
        \/ /\ args.err = ""
           /\ \E stray \in [1 .. 3 -> {""} \cup StrayDigits] :
                LET inst  == assemble(args.val, asm_pc, jump_syms, stray)
                    clean == assemble(args.val, asm_pc, jump_syms, NoStrays)
                IN \/ inst.err # "" /\ Stop(inst.err) /\ UNCHANGED pass2Vars
                   \/ /\ inst.err = "" /\ ~HasRoom
                      /\ Terminate /\ UNCHANGED <<asm_pc, inst_lengths, strayed>>
                      /\ prog' = SubSeq(prog \o LittleEndian(inst.val), 1, MaxProgram)
                   \/ /\ inst.err = "" /\ HasRoom
                      /\ prog' = prog \o LittleEndian(inst.val)
                      /\ asm_pc' = asm_pc + 4
                      /\ inst_lengths' = Append(inst_lengths, 4)
                      /\ strayed' = Append(strayed, inst # clean)
                      /\ UNCHANGED <<pc, message>>
  /\ UNCHANGED <<run, shEnv, pass1Vars, out>>

EndPass2 ==
  /\ pc = "pass 2" /\ itr = Len(lines)
  /\ pc' = "open"
  /\ UNCHANGED <<run, message, shEnv, pass1Vars, pass2Vars, out>>

default_name == CASE shEnv.st = "mif" -> "a.mif" [] shEnv.st = "hex" -> "a.hex" [] OTHER -> "a.bin"
fname == IF shEnv.AsmOutput THEN shEnv.asmOutput ELSE default_name

OpenOutput ==
  /\ pc = "open"
  /\ \/ fname \in Writable /\ out' = [NoFile EXCEPT !.name = fname] /\ pc' = "write"
        /\ UNCHANGED message
     \/ fname \notin Writable /\ Stop("illegal_file") /\ UNCHANGED out
  /\ UNCHANGED <<run, shEnv, pass1Vars, pass2Vars>>

append(o, ui) ==
  [o EXCEPT !.bytes = IF shEnv.st = "bin" THEN @ \o ui ELSE @,
            !.text = IF shEnv.st = "hex" THEN Append(@, dynamicHexBuilder(ui)) ELSE @,
            !.mif_insts = IF shEnv.st = "mif" THEN Append(@, dynamicHexBuilder(ui)) ELSE @,
            !.total_bytes = @ + Len(ui)]

WriteInst ==
  /\ pc = "write" /\ out.total_bytes < Len(prog)
  /\ out' = append(out, SubSeq(prog, out.total_bytes + 1, out.total_bytes + 4))
  /\ UNCHANGED <<run, pc, message, shEnv, pass1Vars, pass2Vars>>

(* The bytes of an instruction's text, the low one first.                  *)
HexPairs(s) ==
  [k \in 1 .. Len(s) \div 2 |-> SubSeq(s, Len(s) - 2 * k + 1, Len(s) - 2 * k + 2)]

(* A byte that is zero.                                                    *)
ASSUME ZeroAssumption == "00" = HexDigits[1] \o HexDigits[1]

(* Mutant: a last word that is not full is not written.                    *)
FullMifWords(insts, width) ==
  LET bytes == Concat([i \in DOMAIN insts |-> HexPairs(insts[i])])
  IN [a \in 1 .. Len(bytes) \div width |-> Join([i \in 1 .. width |-> bytes[a * width - i + 1]])]

(* Words of width bytes, low byte first, the last one filled up with 00.   *)
MifWords(insts, width) ==
  LET bytes == Concat([i \in DOMAIN insts |-> HexPairs(insts[i])])
      byte(i) == IF i <= Len(bytes) THEN bytes[i] ELSE "00"
  IN [a \in 1 .. (Len(bytes) + width - 1) \div width |->
        Join([i \in 1 .. width |-> byte(a * width - i + 1)])]

finalize(o, width) ==
  IF shEnv.st = "mif" /\ o.mif_insts # <<>>
  THEN [o EXCEPT !.header = <<AsInt(width * 8), o.total_bytes \div width
                                         + (IF o.total_bytes % width # 0 THEN 1 ELSE 0)>>,
                 !.text = MifWords(o.mif_insts, width)]
  ELSE o

FinishOutput ==
  /\ pc = "write" /\ out.total_bytes = Len(prog)
  /\ out' = finalize(out, shEnv.width)
  /\ Stop("success")
  /\ UNCHANGED <<run, shEnv, pass1Vars, pass2Vars>>

Next ==
  \/ Start
  \/ SymbolsError \/ SkipLine \/ TakeLine \/ EndPass1
  \/ AsmFlash \/ EndPass2
  \/ OpenOutput \/ WriteInst \/ FinishOutput

Spec == Init /\ [][Next]_vars
=============================================================================
