----------------------------- MODULE ProcProps -----------------------------
(***************************************************************************)
(* What must hold of the processor of module Proc.                         *)
(***************************************************************************)
EXTENDS Proc

-----------------------------------------------------------------------------
(* Requests and services *)

(* The arbiter works for the party that is waiting for it: while it        *)
(* fetches, the fetch stage still misses; while it reads for the data      *)
(* cache, the memory stage loads the line or still waits for an eviction   *)
(* (WRITE asks for a read before it knows about the dirty victim); while   *)
(* it fills or drains a buffer, the accelerator is in the matching phase.  *)
ServiceMatchesRequest ==
  /\ currState \in {"INSTR_RD", "INSTR_RD_DONE"} => cacheMissFetch
  /\ currState \in {"DATA_RD", "DATA_RD_DONE"} => msState \in LoadStates \cup {"EVICT_WR"}
  /\ currState \in {"DATA_WR", "DATA_WR_DONE"} => msState \in EvictStates
  /\ currState \in {"ACCEL_RD", "ACCEL_RD_DONE"} => ctl \in IdleLoadStates
  /\ currState \in {"ACCEL_WR", "ACCEL_WR_DONE"} => ctl = "DONE"

(* startF/startI last one cycle and nothing remembers them, so a pulse     *)
(* must find the arbiter idle: the very next state reads the signal and    *)
(* has the accelerator waiting for it (mem_arb.sv:171, control.sv:63).     *)
StartNeverLost ==
  [][startPulse => currState' = "ACCEL_RD" /\ ctl' \in IdleLoadStates]_vars

(* The processor never advances past a load or store in a cycle in which   *)
(* the memory stage has not completed that access (fetch_stage.sv:56).     *)
AccessBeforeAdvance ==
  [][Retires(calculating, stall) =>
       /\ memRead => LoadCompletes
       /\ memWrite => StoreCompletes]_vars

-----------------------------------------------------------------------------
(* The data cache and its transfers *)

(* During a write-back the memory stage drives the dirty victim: evict     *)
(* still holds, so blkOut is the victim's data and not zero.               *)
VictimOnBus == currState = "DATA_WR" => evict(aluResult)

(* A dirty line is replaced only after host holds its data at the address  *)
(* the arbiter issued for the write-back (memory_stage.sv:140-148).        *)
DirtyNeverDropped ==
  [][\A i \in 0 .. LINES - 1 :
       lines[i].dirty /\ lines'[i].tag # lines[i].tag =>
         host[AddrAligned(aluResult)] = lines[i].data]_vars

-----------------------------------------------------------------------------
(* The accelerator's buffers and counters *)

(* sigOffset has no reset between transfers: it counts the block the       *)
(* buffer's own index is at, and is back at zero between transfers.        *)
OffsetsInStep ==
  /\ currState \in {"ACCEL_RD", "ACCEL_RD_DONE"} => inIndex = EPB * sigOffset
  /\ currState \in {"ACCEL_WR", "ACCEL_WR_DONE"} => outOutIndex = EPB * sigOffset
  /\ ~(currState \in {"ACCEL_RD", "ACCEL_RD_DONE", "ACCEL_WR", "ACCEL_WR_DONE"}) =>
       sigOffset = 0

(* a_buf_in is never filled while it is being emptied.                     *)
NoFillWhileEmptying == accelRdBlkDone => ~inFull /\ ~inFullInt

(* When a_buf_in reports full it holds the whole signal in order.          *)
SignalBuffered == inFull => \A k \in Slots : inBuf[k] = [src |-> k, bf |-> 0]

(* What is written back is the RAM, slot by slot, and the blocks are at    *)
(* the addresses they were read from (with OffsetsInStep).                 *)
WriteBackInOrder ==
  currState \in {"ACCEL_WR", "ACCEL_WR_DONE"} => outFull /\ outBuf = ram

(* Every load of the RAM is a permutation of the signal: the buffer starts *)
(* a cycle late and the counter writes slot 0 twice, but no entry is lost  *)
(* and none is loaded in two slots, in any sequence of transforms.         *)
NoEntryLost ==
  ctl \in CalcStates => {ram[k].src : k \in Slots} = Slots

(* The first forward transform after reset works on the signal in order.   *)
FirstTransformInOrder ==
  ctl = "CALCULATINGF" /\ starts = 1 => \A k \in Slots : ram[k].src = k

(* A result went through one butterfly a stage, except for the two slots   *)
(* the butterfly of cycle 0 of the first stage works on.                   *)
OneButterflyPerStage ==
  ctl = "LOADOUT" => \A k \in Slots \ {0, HALF} : ram[k].bf = LOGN

(* The signal number the arbiter looks up stays put for a whole transform. *)
SigNumHeld ==
  [][calculating /\ calculating' => sigNumMC' = sigNumMC]_sigNumMC

-----------------------------------------------------------------------------
(* The memory the program sees *)

(* A line is the current copy of its block unless it is being loaded.      *)
Cached(a) == hit(a) /\ ~(msState \in LoadStates /\ Index(a) = Index(aluResult))

MemOf == [a \in Addrs |-> IF Cached(a) THEN lines[Index(a)].data[Offset(a)]
                          ELSE host[AddrAligned(a)][Offset(a)]]

Abstract == INSTANCE Memory WITH mem <- MemOf

(* While no two blocks in use share a cache line, cache, arbiter and host   *)
(* together are a memory: every load returns the word last stored at its   *)
(* address, and an access in progress changes no word of it.               *)
ActsAsMemory == Abstract!MemorySpec

-----------------------------------------------------------------------------
(* Progress, under FairSpec *)

(* No fetch waits for ever, whatever the data cache and the accelerator,   *)
(* which go first, ask for.                                                *)
FetchServed == cacheMissFetch ~> ~cacheMissFetch

(* No load or store waits for ever.                                        *)
AccessServed == msState # "IDLE" ~> msState = "IDLE"

(* Every transform ends, so blocked STARTF/STARTI instructions proceed.    *)
TransformEnds == calculating ~> ~calculating
=============================================================================
