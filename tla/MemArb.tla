------------------------------- MODULE MemArb -------------------------------
(***************************************************************************)
(* The memory arbiter (MEMFiles/mem_arb.sv): one request at a time, chosen *)
(* by fixed priority, is carried to the memory controller.  The module     *)
(* holds the request state machine and the signal block counter.  Every    *)
(* action is one rising clock edge; the combinational outputs are          *)
(* operators of the state and of this cycle's inputs.                      *)
(*                                                                         *)
(* The latch accelTransferDone (line 131) is transparent exactly while en  *)
(* is high, and it is read only then, so it is the operator of that name.  *)
(***************************************************************************)
EXTENDS Params

CONSTANTS
  NBLK,      \* blocks in one transform chunk: sigOffset wraps at NBLK (128)
  SIG_BASE,  \* sigBaseAddr of the one initialised signumTable row (32'h1000_0000)
  SIG_STRIDE \* distance of consecutive signal blocks, 1 << 11 (2048)

ASSUME ArbAssumption ==
  /\ NBLK \in Nat \ {0}
  /\ SIG_BASE \in Nat
  /\ SIG_STRIDE \in Nat

VARIABLES
  currState,  \* state of the request machine
  sigOffset   \* next block of the chunk

arbVars == <<currState, sigOffset>>

ArbStates ==
  {"INIT", "IDLE", "INSTR_RD", "INSTR_RD_DONE", "DATA_RD", "DATA_RD_DONE",
   "DATA_WR", "DATA_WR_DONE", "ACCEL_RD", "ACCEL_RD_DONE",
   "ACCEL_WR", "ACCEL_WR_DONE"}

ArbTypeOK ==
  /\ currState \in ArbStates
  /\ sigOffset \in 0 .. NBLK - 1

(* This cycle's requests, as the caches and the accelerator drive them. *)
Requests ==
  [instr : BOOLEAN, data : BOOLEAN, evict : BOOLEAN,
   accelRd : BOOLEAN, accelWr : BOOLEAN]

-----------------------------------------------------------------------------
(* Combinational outputs *)

ReadStates == {"INSTR_RD", "DATA_RD", "ACCEL_RD"}
WriteStates == {"DATA_WR", "ACCEL_WR"}

op == IF currState \in ReadStates THEN "READ"
      ELSE IF currState \in WriteStates THEN "WRITE" ELSE "IDLE_OP"

(* dataAddrAligned and instrAddrAligned are declared one bit wide, so only *)
(* bit 0 of the block-aligned address reaches io_addr.                     *)
AddrAligned(a) == ((a \div WORDS) * WORDS) % 2

AccelAddr == SIG_BASE + sigOffset * SIG_STRIDE

instrBlk2CacheValid(rd_valid) == currState = "INSTR_RD_DONE" /\ rd_valid
dataBlk2CacheValid(rd_valid) == currState = "DATA_RD_DONE" /\ rd_valid
dataEvictAck == currState = "DATA_WR_DONE"
accelRdBlkDone == currState = "ACCEL_RD_DONE"
accelWrBlkDone == currState = "ACCEL_WR_DONE"

(* Mutant: the block counter misses the write-back.                        *)
EnReadsOnly == currState = "ACCEL_RD_DONE"

en == currState \in {"ACCEL_RD_DONE", "ACCEL_WR_DONE"}
(* Mutant: the last block of the chunk is off by one.                      *)
TransferDoneEarly == sigOffset = NBLK - 2

accelTransferDone == sigOffset = NBLK - 1
(* Mutant: the first block written back completes the transform.           *)
CompleteEveryBlock == currState = "ACCEL_WR_DONE"

transformComplete == currState = "ACCEL_WR_DONE" /\ accelTransferDone

-----------------------------------------------------------------------------
(* The registers *)

ArbInit ==
  /\ currState = "INIT"
  /\ sigOffset = 0

SigCounter == sigOffset' = IF en THEN (sigOffset + 1) % NBLK ELSE sigOffset

Goto(s) == currState' = s

ArbStart == currState = "INIT" /\ Goto("IDLE")

(* IDLE: the accelerator first, then the data cache, then the fetch. *)
GrantAccel(r) ==
  /\ currState = "IDLE"
  /\ r.accelRd \/ r.accelWr
  /\ Goto(IF r.accelRd THEN "ACCEL_RD" ELSE "ACCEL_WR")

(* Mutant: a read for the data cache goes before the write-back.           *)
GrantReadFirst(r) ==
  /\ currState = "IDLE"
  /\ ~r.accelRd /\ ~r.accelWr
  /\ r.data \/ r.evict
  /\ Goto(IF r.data THEN "DATA_RD" ELSE "DATA_WR")

GrantData(r) ==
  /\ currState = "IDLE"
  /\ ~r.accelRd /\ ~r.accelWr
  /\ r.data \/ r.evict
  /\ Goto(IF r.evict THEN "DATA_WR" ELSE "DATA_RD")

GrantInstr(r) ==
  /\ currState = "IDLE"
  /\ ~r.accelRd /\ ~r.accelWr /\ ~r.data /\ ~r.evict
  /\ r.instr
  /\ Goto("INSTR_RD")

NoRequest(r) ==
  /\ currState = "IDLE"
  /\ ~r.accelRd /\ ~r.accelWr /\ ~r.data /\ ~r.evict /\ ~r.instr
  /\ UNCHANGED currState

(* The five transfer states hold op until the controller pulses tx_done. *)
Transfer(s, done, tx_done) ==
  currState = s /\ Goto(IF tx_done THEN done ELSE s)

InstrRd(tx_done) == Transfer("INSTR_RD", "INSTR_RD_DONE", tx_done)
DataRd(tx_done)  == Transfer("DATA_RD", "DATA_RD_DONE", tx_done)
DataWr(tx_done)  == Transfer("DATA_WR", "DATA_WR_DONE", tx_done)
AccelRd(tx_done) == Transfer("ACCEL_RD", "ACCEL_RD_DONE", tx_done)
AccelWr(tx_done) == Transfer("ACCEL_WR", "ACCEL_WR_DONE", tx_done)

InstrRdDone(rd_valid) ==
  currState = "INSTR_RD_DONE" /\ Goto(IF rd_valid THEN "IDLE" ELSE currState)

DataRdDone(rd_valid) ==
  currState = "DATA_RD_DONE" /\ Goto(IF rd_valid THEN "IDLE" ELSE currState)

DataWrDone == currState = "DATA_WR_DONE" /\ Goto("IDLE")

(* Mutant: the transfer of the chunk never ends.                           *)
AccelRdOnAndOn(rd_valid) ==
  /\ currState = "ACCEL_RD_DONE"
  /\ Goto(IF rd_valid THEN "ACCEL_RD" ELSE currState)

(* en and accelRdBlkDone are high in every cycle of this state, also while *)
(* it still waits for rd_valid.                                            *)
AccelRdDone(rd_valid) ==
  /\ currState = "ACCEL_RD_DONE"
  /\ Goto(IF ~rd_valid THEN currState
          ELSE IF accelTransferDone THEN "IDLE" ELSE "ACCEL_RD")

AccelWrDone ==
  /\ currState = "ACCEL_WR_DONE"
  /\ Goto(IF accelTransferDone THEN "IDLE" ELSE "ACCEL_WR")

ArbStep(r, tx_done, rd_valid) ==
  /\ SigCounter
  /\ \/ ArbStart
     \/ GrantAccel(r)
     \/ GrantData(r)
     \/ GrantInstr(r)
     \/ NoRequest(r)
     \/ InstrRd(tx_done)
     \/ InstrRdDone(rd_valid)
     \/ DataRd(tx_done)
     \/ DataRdDone(rd_valid)
     \/ DataWr(tx_done)
     \/ DataWrDone
     \/ AccelRd(tx_done)
     \/ AccelRdDone(rd_valid)
     \/ AccelWr(tx_done)
     \/ AccelWrDone
=============================================================================
