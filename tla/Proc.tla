-------------------------------- MODULE Proc --------------------------------
(***************************************************************************)
(* The processor of PROCFiles/proc.sv: CPU, accelerator and arbiter wired  *)
(* together and clocked together, with the memory controller as the        *)
(* testbench plays it (PROCFiles/proc_tb.sv): it pulses tx_done some cycles *)
(* after a request and, after a read, drives the block with rd_valid in    *)
(* the following cycle.  One step of the specification is one clock edge.  *)
(***************************************************************************)
EXTENDS MemArb, MemStage, FftAccel, Cpu

CONSTANT RdLatency  \* what rd_valid may be in a cycle that waits for it:
                    \* {TRUE} for the testbench, BOOLEAN for any controller

ASSUME ProcAssumption ==
  /\ NBLK * EPB = DEPTH
  /\ TRUE \in RdLatency
  /\ RdLatency \subseteq BOOLEAN

VARIABLES
  host,     \* host memory the caches reach: a block for each value of io_addr
  bus,      \* the block the controller fetched for a cache
  sigBlk,   \* the block of the signal it fetched for the accelerator
  retired,  \* history: the last load or store the cache completed
  starts    \* history: STARTF/STARTI pulses since reset, counted up to 2

hostVars == <<host, bus, sigBlk>>
vars == <<arbVars, msVars, fftVars, cpuVars, hostVars, retired, starts>>

-----------------------------------------------------------------------------
(* Wires *)

aluResult == instr.addr
stall == stallDMAMem(aluResult, memRead \/ memWrite)
startPulse == startF(calculating) \/ startI(calculating)
raised == exception(calculating)

Request ==
  [instr   |-> cacheMissFetch,
   data    |-> cacheMiss(aluResult),
   evict   |-> cacheEvict(aluResult),
   accelRd |-> startPulse,
   accelWr |-> outFull]

(* dataBlk2Cache is zero outside DATA_RD_DONE. *)
mcDataIn == IF currState = "DATA_RD_DONE" THEN bus ELSE ZeroBlock

(* A block of the signal: each entry is known by its position. *)
accelBlk2Buffer ==
  [j \in 0 .. EPB - 1 |-> [src |-> EPB * sigBlk + j, bf |-> 0]]

-----------------------------------------------------------------------------
(* The memory controller of the testbench *)

HostInit ==
  /\ host \in {[i \in 0 .. 1 |-> [w \in 0 .. WORDS - 1 |-> v]] : v \in Values}
  /\ bus = ZeroBlock
  /\ sigBlk = 0

HostStep(tx_done) ==
  /\ host' = IF tx_done /\ currState = "DATA_WR"
               THEN [host EXCEPT ![AddrAligned(aluResult)] = mcDataOut(aluResult)]
               ELSE host
  /\ bus' = IF tx_done /\ currState = "DATA_RD"
              THEN host[AddrAligned(aluResult)] ELSE bus
  /\ sigBlk' = IF tx_done /\ currState = "ACCEL_RD" THEN sigOffset ELSE sigBlk

-----------------------------------------------------------------------------
(* History *)

LoadCompletes == msState = "READ" /\ hit(aluResult)
StoreCompletes == msState = "WRITE" /\ hit(aluResult)
memoryOut == lines[Index(aluResult)].data[Offset(aluResult)]

Retire ==
  retired' = IF LoadCompletes
               THEN [opc |-> "LD", addr |-> aluResult, val |-> memoryOut]
             ELSE IF StoreCompletes
               THEN [opc |-> "ST", addr |-> aluResult, val |-> instr.val]
             ELSE retired

CountStarts == starts' = IF startPulse /\ starts < 2 THEN starts + 1 ELSE starts

-----------------------------------------------------------------------------
Init ==
  /\ ArbInit
  /\ MsInit
  /\ FftInit
  /\ CpuInit
  /\ HostInit
  /\ retired = [opc |-> "NOP"]
  /\ starts = 0

Clock(tx_done, rd_valid) ==
  /\ ArbStep(Request, tx_done, rd_valid)
  /\ MsStep(memRead, memWrite, aluResult, instr.val,
            dataEvictAck, mcDataIn, dataBlk2CacheValid(rd_valid))
  /\ FftStep(startF(calculating), startI(calculating), instr.sig,
             transformComplete, accelRdBlkDone, accelBlk2Buffer, accelWrBlkDone)
  /\ CpuStep(calculating, stall, instrBlk2CacheValid(rd_valid))
  /\ HostStep(tx_done)
  /\ Retire
  /\ CountStarts

(* The controller answers only what it was asked. *)
AwaitsData == currState \in {"INSTR_RD_DONE", "DATA_RD_DONE", "ACCEL_RD_DONE"}

Tick == \E rd_valid \in (IF AwaitsData THEN RdLatency ELSE {FALSE}) :
          Clock(FALSE, rd_valid)

Answer == op # "IDLE_OP" /\ Clock(TRUE, FALSE)

Next == Tick \/ Answer

(* The clock never stops, and the host answers every request. *)
Fairness == WF_vars(Tick) /\ WF_vars(Answer)

Spec == Init /\ [][Next]_vars
FairSpec == Spec /\ Fairness

TypeOK ==
  /\ ArbTypeOK
  /\ MsTypeOK
  /\ FftTypeOK
  /\ CpuTypeOK
  /\ host \in [0 .. 1 -> Block]
  /\ bus \in Block
  /\ sigBlk \in 0 .. NBLK - 1
  /\ retired \in [opc : {"NOP"}] \cup [opc : {"LD", "ST"}, addr : Addrs, val : Values]
  /\ starts \in 0 .. 2
=============================================================================
