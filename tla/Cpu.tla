-------------------------------- MODULE Cpu ---------------------------------
(***************************************************************************)
(* Instruction flow of the single-cycle processor: fetch (instruction      *)
(* cache, program counter and its stalls), the control signals decode      *)
(* raises, and the exceptions that hold the program counter.  What the     *)
(* registers and the ALU compute is abstracted: an instruction is a record *)
(* of what it asks of the rest of the system, and the program is any       *)
(* sequence of them.                                                       *)
(*                                                                         *)
(*   NOP    instructions that touch neither memory nor the accelerator     *)
(*   TRAP   instructions with complexArithmeticEx, realImagLoadEx or       *)
(*          invalidJMPEx, which depend on the instruction alone            *)
(*   MISS   the NOP the instruction cache presents while it misses         *)
(***************************************************************************)
EXTENDS Params

CONSTANTS
  Program,    \* instructions the program contains
  LowAddrs,   \* addresses whose top four bits are all zero
  SignalAddrs \* addresses with an odd number of ones in bits 29:28

OpCodes == {"NOP", "HALT", "TRAP", "LD", "ST", "LOADF", "STARTF", "STARTI"}

Instr == [opc : OpCodes \cup {"MISS"}, addr : Addrs, val : Values,
          sig : SigNums, filter : BOOLEAN]

ASSUME CpuAssumption ==
  /\ Program # {}
  /\ Program \subseteq {i \in Instr : i.opc \in OpCodes}
  /\ LowAddrs \subseteq Addrs
  /\ SignalAddrs \subseteq Addrs \ LowAddrs

VARIABLES
  instr,        \* what the instruction cache presents at the current PC
  filterLoaded  \* set by the first LOADF

cpuVars == <<instr, filterLoaded>>

MissInstr == [opc |-> "MISS", addr |-> CHOOSE a \in Addrs : TRUE, val |-> 0,
              sig |-> 0, filter |-> FALSE]

CpuTypeOK ==
  /\ instr \in Program \cup {MissInstr}
  /\ filterLoaded \in BOOLEAN

-----------------------------------------------------------------------------
(* Control signals *)

cacheMissFetch == instr.opc = "MISS"
memRead == instr.opc = "LD"
memWrite == instr.opc = "ST"
halt == instr.opc = "HALT"

startF(calculating_) == instr.opc = "STARTF" /\ ~calculating_
startI(calculating_) == instr.opc = "STARTI" /\ ~calculating_
blockInstruction(calculating_) ==
  instr.opc \in {"STARTF", "STARTI"} /\ calculating_

-----------------------------------------------------------------------------
(* Exceptions.  No two of these conditions can hold of one instruction, so *)
(* the one-hot case of cause_register.sv always recognises them.           *)

memEx(calculating_) ==
  /\ memRead \/ memWrite
  /\ ~calculating_
  /\ instr.addr \in LowAddrs

fftNotCompleteEx(calculating_) ==
  /\ memRead \/ memWrite
  /\ calculating_
  /\ instr.addr \in SignalAddrs

invalidFilterEx == instr.opc = "STARTF" /\ instr.filter /\ ~filterLoaded

exception(calculating_) ==
  \/ instr.opc = "TRAP"
  \/ memEx(calculating_)
  \/ fftNotCompleteEx(calculating_)
  \/ invalidFilterEx

(* The program counter is written unless one of these holds it. *)
stallPC(calculating_, stallDMAMem_) ==
  \/ stallDMAMem_
  \/ blockInstruction(calculating_)
  \/ cacheMissFetch
  \/ exception(calculating_)

Retires(calculating_, stallDMAMem_) == ~halt /\ ~stallPC(calculating_, stallDMAMem_)

-----------------------------------------------------------------------------
(* The instruction cache is empty after reset, so the first fetch misses.  *)

CpuInit ==
  /\ instr = MissInstr
  /\ filterLoaded = FALSE

(* The block arrives: from the next cycle on the fetch hits. *)
Refill(mcInstrValid) ==
  /\ cacheMissFetch
  /\ IF mcInstrValid THEN instr' \in Program ELSE UNCHANGED instr

Hold(calculating_, stallDMAMem_) ==
  /\ ~cacheMissFetch
  /\ ~Retires(calculating_, stallDMAMem_)
  /\ UNCHANGED instr

(* The PC advances to an address that hits or misses. *)
Advance(calculating_, stallDMAMem_) ==
  /\ Retires(calculating_, stallDMAMem_)
  /\ instr' \in Program \cup {MissInstr}

CpuStep(calculating_, stallDMAMem_, mcInstrValid) ==
  /\ \/ Refill(mcInstrValid)
     \/ Hold(calculating_, stallDMAMem_)
     \/ Advance(calculating_, stallDMAMem_)
  /\ filterLoaded' = (filterLoaded \/ instr.opc = "LOADF")
=============================================================================
