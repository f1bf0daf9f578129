------------------------------ MODULE ProcInv ------------------------------
(***************************************************************************)
(* The inductive invariant behind the properties of ProcProps that concern *)
(* who waits for whom.  Each part says what one component may assume of    *)
(* the others; none is inductive without the rest.                         *)
(***************************************************************************)
EXTENDS ProcProps

(* Until the first fetch is granted nothing has been fetched; a fetch in   *)
(* progress means the fetch stage still misses.                            *)
FetchInv ==
  currState \in {"INIT", "INSTR_RD", "INSTR_RD_DONE"} => cacheMissFetch

(* The memory stage is busy only with the instruction that is presented,   *)
(* and while it evicts, the line it is about to replace stays dirty.       *)
StageInv ==
  /\ msState \in {"READ", "EVICT_RD", "LOAD_RD", "WAIT_RD"} => memRead
  /\ msState \in {"WRITE", "EVICT_WR", "LOAD_WR", "WAIT_WR"} => memWrite
  /\ msState \in EvictStates => evict(aluResult)

DataInv ==
  /\ currState \in {"DATA_RD", "DATA_RD_DONE"} => msState \in LoadStates \cup {"EVICT_WR"}
  /\ currState \in {"DATA_WR", "DATA_WR_DONE"} => msState \in EvictStates

(* A dirty line has been written back by the time it is about to be        *)
(* overwritten: since the arbiter acknowledged the write, host has it.     *)
WriteBackInv ==
  /\ \A i \in 0 .. LINES - 1 : lines[i].dirty => lines[i].valid
  /\ \/ currState = "DATA_WR_DONE"
     \/ msState \in LoadStates /\ lines[Index(aluResult)].dirty
     => host[AddrAligned(aluResult)] = lines[Index(aluResult)].data

(* The signal is read for an accelerator that waits for it, block by block *)
(* into a buffer that is not yet full; it is written back for one that     *)
(* waits for that, from a buffer that is full to the last block.           *)
AccelRdInv ==
  IF currState \in {"ACCEL_RD", "ACCEL_RD_DONE"}
    THEN ctl \in IdleLoadStates /\ ~inFull /\ inIndex = EPB * sigOffset
    ELSE inIndex = 0

AccelWrInv ==
  IF currState \in {"ACCEL_WR", "ACCEL_WR_DONE"}
    THEN ctl = "DONE" /\ outFull /\ outOutIndex = EPB * sigOffset
    ELSE outOutIndex = 0

OffsetInv ==
  ~(currState \in {"ACCEL_RD", "ACCEL_RD_DONE", "ACCEL_WR", "ACCEL_WR_DONE"}) =>
    sigOffset = 0

OutFullInv == outFull => ctl \in {"LOADOUT", "DONE"}

(* The input buffer empties itself while the RAM is loaded.  The read      *)
(* index rests at 0 before the first transform and at 1 ever after, and    *)
(* the two ways of starting a load differ by a cycle, so during the load   *)
(* the index is level with the RAM's counter, one ahead or one behind; in  *)
(* each case the buffer is empty when the load ends.                       *)
InFullInv ==
  /\ inFull =>
       \/ ctl \in IdleLoadStates /\ ~inFullInt /\ inOutIndex \in {0, 1}
       \/ /\ ctl = "LOADF" /\ inFullInt /\ ~loadExternalDone
          /\ inOutIndex \in {loadRamCounter, loadRamCounter + 1}
       \/ /\ ctl = "LOADI" /\ inFullInt /\ ~loadExternalDone /\ loadRamCounter > 0
          /\ inOutIndex \in {loadRamCounter - 1, loadRamCounter}
       \/ /\ ctl = "LOADI" /\ inFullInt /\ loadExternalDone
          /\ inOutIndex = DEPTH - 1
  /\ ~inFull => inOutIndex \in {0, 1}
  /\ inFullInt => ctl \in {"LOADF", "LOADI", "CALCULATINGI"} /\ (inFull \/ inOutIndex = 0)

LoadCounterInv ==
  /\ ~(ctl \in {"LOADF", "LOADI"}) => loadRamCounter = 0 /\ ~loadExternalDone
  /\ loadExternalDone => loadRamCounter = 0

(* The block on accelBlk2Buffer is the one the buffer is about to take; the *)
(* entries below the fill index, or all of them, are the signal's.         *)
Entry(k) == [src |-> k, bf |-> 0]

SignalInv ==
  /\ currState = "ACCEL_RD_DONE" => sigBlk = sigOffset
  /\ \A k \in 0 .. inIndex - 1 : inBuf[k] = Entry(k)
  /\ SignalBuffered

(* The RAM is copied slot by slot with the buffer's own index in step, and *)
(* neither changes once the copy is complete.                              *)
DrainInv ==
  /\ loadFifoCounter = outIndex
  /\ outLoadDone => ctl = "LOADOUT" /\ outFull
  /\ ctl # "LOADOUT" \/ outFull => outIndex = 0
  /\ \A k \in 0 .. outIndex - 1 : outBuf[k] = ram[k]
  /\ outFull => outBuf = ram

(* The processor's and the caches' part needs no promise about when the    *)
(* controller answers; the accelerator's part needs blocks to arrive with  *)
(* the first rd_valid.                                                     *)
CacheInv ==
  /\ TypeOK
  /\ FetchInv
  /\ StageInv
  /\ DataInv
  /\ WriteBackInv

AccelInv ==
  /\ AccelRdInv
  /\ AccelWrInv
  /\ OffsetInv
  /\ OutFullInv
  /\ InFullInv
  /\ LoadCounterInv
  /\ SignalInv
  /\ DrainInv

IInv == CacheInv /\ AccelInv

(* When no two blocks in use share a line of the cache, a line is never    *)
(* evicted: a valid one is the block that the program uses at its index.   *)
(* What the controller delivers to the cache is what host holds.           *)
NoSharedLine == \A a, b \in Addrs : Index(a) = Index(b) => BlockOf(a) = BlockOf(b)

LinesInv ==
  /\ \A i \in 0 .. LINES - 1 :
       lines[i].valid => \E a \in Addrs : Index(a) = i /\ Tag(a) = lines[i].tag
  /\ ~(msState \in EvictStates)
  /\ currState = "DATA_RD_DONE" => bus = host[AddrAligned(aluResult)]
=============================================================================
