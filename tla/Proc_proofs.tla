---------------------------- MODULE Proc_proofs ----------------------------
(***************************************************************************)
(* Proofs about the processor, for every value of the constants.           *)
(***************************************************************************)
EXTENDS ProcInv, Numbers_proofs

-----------------------------------------------------------------------------
(* Arithmetic and sets *)

(* A counter that wraps stays in its range.                                *)
LEMMA ModRange ==
  ASSUME NEW n \in Nat \ {0}, NEW x \in Nat
  PROVE  x % n \in 0 .. n - 1
  OBVIOUS

(* Adding one chunk to a wrapping index below its end, and at its end.     *)
LEMMA ModStep ==
  ASSUME NEW n \in Nat \ {0}, NEW x \in 0 .. n - 1
  PROVE  (x + 1) % n = IF x = n - 1 THEN 0 ELSE x + 1
  OBVIOUS

LEMMA BlockStep ==
  ASSUME NEW off \in 0 .. NBLK - 1
  PROVE  /\ (EPB * off = DEPTH - EPB) <=> (off = NBLK - 1)
         /\ (EPB * off + EPB) % DEPTH = EPB * ((off + 1) % NBLK)
  <1> USE ABufAssumption, ArbAssumption, ProcAssumption
  <1>1. CASE off = NBLK - 1
    <2>1. EPB * off + EPB = DEPTH
      BY <1>1
    <2>2. (off + 1) % NBLK = 0
      BY <1>1, ModStep
    <2> QED
      BY <1>1, <2>1, <2>2
  <1>2. CASE off < NBLK - 1
    <2>1. EPB * off + EPB < DEPTH
      <3>1. EPB * (off + 2) <= EPB * NBLK
        BY <1>2
      <3> QED BY <3>1
    <2>2. (off + 1) % NBLK = off + 1
      BY <1>2, ModStep
    <2> QED
      BY <1>2, <2>1, <2>2
  <1> QED
    BY <1>1, <1>2

-----------------------------------------------------------------------------
(* Types *)

LEMMA ArbType ==
  ASSUME ArbTypeOK, NEW r, NEW tx_done, NEW rd_valid,
         ArbStep(r, tx_done, rd_valid)
  PROVE  ArbTypeOK'
  <1>1. currState' \in ArbStates
    BY DEF ArbTypeOK, ArbStates, ArbStep, ArbStart, GrantAccel, GrantData,
           GrantInstr, NoRequest, InstrRd, InstrRdDone, DataRd, DataRdDone,
           DataWr, DataWrDone, AccelRd, AccelRdDone, AccelWr, AccelWrDone,
           Transfer, Goto
  <1>2. sigOffset' \in 0 .. NBLK - 1
    BY ArbAssumption, ModRange DEF ArbTypeOK, ArbStep, SigCounter
  <1> QED
    BY <1>1, <1>2 DEF ArbTypeOK

LEMMA BlockTypes == ZeroBlock \in Block /\ 0 \in Values
  BY ParamsAssumption DEF ZeroBlock, Block

(* Splitting an address.                                                   *)
LEMMA AddressTypes ==
  ASSUME NEW a \in Addrs
  PROVE  /\ Offset(a) \in 0 .. WORDS - 1
         /\ Index(a) \in 0 .. LINES - 1
         /\ Tag(a) \in Nat
  <1>1. a \in Nat /\ a \div WORDS \in Nat
    BY ParamsAssumption
  <1>2. WORDS * LINES \in Nat \ {0}
    BY ParamsAssumption, MemStageAssumption
  <1>3. a \div (WORDS * LINES) \in Nat
    <2> DEFINE n == WORDS * LINES
    <2>1. n \in Nat \ {0}
      BY <1>2
    <2> HIDE DEF n
    <2>2. a \div n \in Nat
      BY <1>1, <2>1
    <2> QED
      BY <2>2 DEF n
  <1> QED
    BY <1>1, <1>3, ModRange, ParamsAssumption, MemStageAssumption DEF Offset, Index, Tag

LEMMA LineTypes ==
  ASSUME NEW line \in Line, NEW offset \in 0 .. WORDS - 1, NEW v \in Values
  PROVE  Written(line, offset, v) \in Line
  BY DEF Line, Block, Written

LEMMA MsType ==
  ASSUME MsTypeOK, NEW memRd, NEW memWr, NEW a \in Addrs, NEW v \in Values,
         NEW done, NEW blk \in Block, NEW valid,
         MsStep(memRd, memWr, a, v, done, blk, valid)
  PROVE  MsTypeOK'
  <1>1. msState' \in MsStates
    BY DEF MsTypeOK, MsStates, MsStep, Begin, ReadCache, WriteCache, EvictRd,
           EvictWr, LoadRd, LoadWr, WaitRd, WaitWr, Evict, Load, Wait, MsGoto
  <1>2. CASE WriteCache(a, v)
    <2>1. lines[Index(a)] \in Line /\ Written(lines[Index(a)], Offset(a), v) \in Line
      BY AddressTypes, LineTypes DEF MsTypeOK
    <2> QED
      BY <1>1, <1>2, <2>1 DEF MsTypeOK, WriteCache
  <1>3. CASE Load("LOAD_RD", "WAIT_RD", a, blk, valid) \/ Load("LOAD_WR", "WAIT_WR", a, blk, valid)
    <2>1. [valid |-> TRUE, dirty |-> FALSE, tag |-> Tag(a), data |-> blk] \in Line
      BY AddressTypes DEF Line
    <2> QED
      BY <1>1, <1>3, <2>1 DEF Load, MsTypeOK
  <1>4. CASE lines' = lines
    BY <1>1, <1>4 DEF MsTypeOK
  <1> QED
    BY <1>2, <1>3, <1>4 DEF MsStep, Begin, ReadCache, EvictRd, EvictWr, LoadRd,
                            LoadWr, WaitRd, WaitWr, Evict, Wait

(* The constants of the accelerator, as numbers.                           *)
LEMMA Sizes ==
  /\ DEPTH \in Nat /\ DEPTH > 3
  /\ EPB \in Nat \ {0}
  /\ HALF \in Nat /\ HALF > 1
  /\ LOGN \in Nat /\ LOGN > 1
  /\ NBLK \in Nat \ {0}
  BY ABufAssumption, HalfAssumption, FftAssumption, LognAssumption, ArbAssumption

(* An index that wraps stays an index.                                     *)
LEMMA SlotStep ==
  ASSUME NEW x \in Slots, NEW n \in Nat
  PROVE  (x + n) % DEPTH \in Slots
  <1>1. x + n \in Nat /\ DEPTH \in Nat \ {0}
    BY Sizes DEF Slots
  <1> QED
    BY <1>1, ModRange DEF Slots

LEMMA SlotsBelow ==
  ASSUME NEW n \in 0 .. DEPTH - 1, NEW e \in Nat, n <= e
  PROVE  \A k \in 0 .. n - 1 : k \in Slots /\ k < e
  BY Sizes DEF Slots

LEMMA CtlType ==
  ASSUME ctl \in CtlStates, NEW sF, NEW sI, NEW tc, CtlStep(sF, sI, tc)
  PROVE  ctl' \in CtlStates
  BY DEF CtlStates, CtlStep, CtlIdle, AwaitSignal, LoadRam, Calculate, LoadOut,
         CtlDone, CtlGoto

LEMMA CounterTypes ==
  ASSUME FftTypeOK, CycleCounter, StageCounter, LoadRamCounter, LoadFifoCounter
  PROVE  /\ cycleCount' \in 0 .. HALF - 1
         /\ stageCount' \in 0 .. LOGN
         /\ doneCalculating' \in BOOLEAN
         /\ loadRamCounter' \in Slots
         /\ loadExternalDone' \in BOOLEAN
         /\ loadFifoCounter' \in Slots
         /\ outLoadDone' \in BOOLEAN
  <1>1. cycleCount' \in 0 .. HALF - 1
    BY Sizes DEF CycleCounter, FftTypeOK
  <1>2. stageCount' \in 0 .. LOGN /\ doneCalculating' \in BOOLEAN
    <2>1. stageCount \in 0 .. LOGN /\ doneCalculating \in BOOLEAN
      BY DEF FftTypeOK
    <2>2. CASE doneCalculating
      BY <2>1, <2>2 DEF StageCounter
    <2>3. CASE ~doneCalculating /\ stageCount = LOGN
      BY <2>1, <2>3, Sizes DEF StageCounter
    <2>4. CASE ~doneCalculating /\ stageCount # LOGN
      <3>1. doneCalculating' = doneCalculating
        BY <2>4 DEF StageCounter
      <3>2. stageCount' \in {stageCount, stageCount + 1}
        BY <2>4 DEF StageCounter
      <3>3. stageCount' \in 0 .. LOGN
        BY <2>1, <2>4, <3>2, Sizes
      <3> QED
        BY <2>1, <3>1, <3>3
    <2> QED
      BY <2>2, <2>3, <2>4
  <1>3. loadRamCounter' \in Slots /\ loadExternalDone' \in BOOLEAN
    <2>1. loadRamCounter \in Slots /\ loadExternalDone \in BOOLEAN
      BY DEF FftTypeOK
    <2>2. loadRamCounter' \in Slots
      BY <2>1, Sizes DEF LoadRamCounter, SlotCounter, Slots
    <2>3. loadExternalDone' \in BOOLEAN
      BY <2>1 DEF LoadRamCounter, SlotCounter
    <2> QED
      BY <2>2, <2>3
  <1>4. loadFifoCounter' \in Slots /\ outLoadDone' \in BOOLEAN
    <2>1. loadFifoCounter \in Slots /\ outLoadDone \in BOOLEAN
      BY DEF FftTypeOK
    <2>2. loadFifoCounter' \in Slots
      BY <2>1, Sizes DEF LoadFifoCounter, SlotCounter, Slots
    <2>3. outLoadDone' \in BOOLEAN
      BY <2>1 DEF LoadFifoCounter, SlotCounter
    <2> QED
      BY <2>2, <2>3
  <1> QED
    BY <1>1, <1>2, <1>3, <1>4

LEMMA RamType ==
  ASSUME FftTypeOK, RamStep
  PROVE  ram' \in [Slots -> Cell]
  <1>1. accelDataOut \in Cell
    BY DEF FftTypeOK, accelDataOut
  <1>2. \A k \in Slots : ram[k] \in Cell /\ Butterflied(ram[k]) \in Cell
    BY DEF FftTypeOK, Cell, Butterflied
  <1> QED
    BY <1>1, <1>2 DEF RamStep, FftTypeOK

LEMMA InType ==
  ASSUME FftTypeOK, NEW wrEn, NEW blk \in [0 .. EPB - 1 -> Cell], InStep(wrEn, blk)
  PROVE  /\ inBuf' \in [Slots -> Cell]
         /\ inIndex' \in Slots
         /\ inOutIndex' \in Slots
         /\ inFull' \in BOOLEAN
         /\ inFullInt' \in BOOLEAN
  <1>1. inBuf' \in [Slots -> Cell]
    <2>1. \A k \in Slots : k \in inIndex .. inIndex + EPB - 1 => k - inIndex \in 0 .. EPB - 1
      BY Sizes DEF Slots, FftTypeOK
    <2> QED
      BY <2>1 DEF InStep, FftTypeOK
  <1>2. inIndex' \in Slots
    <2>1. inIndex \in Slots
      BY DEF FftTypeOK
    <2> QED
      BY <2>1, SlotStep, Sizes DEF InStep
  <1>3. inOutIndex' \in Slots
    <2>1. inOutIndex \in Slots
      BY DEF FftTypeOK
    <2> QED
      BY <2>1, SlotStep, Sizes DEF InStep
  <1>4. inFull' \in BOOLEAN /\ inFullInt' \in BOOLEAN
    BY DEF InStep, OneOf, FftTypeOK
  <1> QED
    BY <1>1, <1>2, <1>3, <1>4

LEMMA OutType ==
  ASSUME FftTypeOK, NEW wrEn, NEW entry \in Cell, NEW ack, OutStep(wrEn, entry, ack)
  PROVE  /\ outBuf' \in [Slots -> Cell]
         /\ outIndex' \in Slots
         /\ outOutIndex' \in Slots
         /\ outFull' \in BOOLEAN
  <1>1. outBuf' \in [Slots -> Cell]
    BY DEF OutStep, FftTypeOK
  <1>2. outIndex' \in Slots
    <2>1. outIndex \in Slots
      BY DEF FftTypeOK
    <2> QED
      BY <2>1, SlotStep, Sizes DEF OutStep
  <1>3. outOutIndex' \in Slots
    <2>1. outOutIndex \in Slots
      BY DEF FftTypeOK
    <2> QED
      BY <2>1, SlotStep, Sizes DEF OutStep
  <1>4. outFull' \in BOOLEAN
    BY DEF OutStep, OneOf, FftTypeOK
  <1> QED
    BY <1>1, <1>2, <1>3, <1>4

LEMMA FftType ==
  ASSUME FftTypeOK, NEW sF, NEW sI, NEW sig \in SigNums, NEW tc, NEW load,
         NEW blk \in [0 .. EPB - 1 -> Cell], NEW ack,
         FftStep(sF, sI, sig, tc, load, blk, ack)
  PROVE  FftTypeOK'
  <1>1. ctl' \in CtlStates
    BY CtlType DEF FftTypeOK, FftStep
  <1>2. sigNumMC' \in SigNums
    BY ParamsAssumption DEF FftTypeOK, FftStep, SigNumReg
  <1>3. ram[loadFifoCounter] \in Cell
    BY DEF FftTypeOK
  <1> QED
    BY <1>1, <1>2, <1>3, CounterTypes, RamType, InType, OutType DEF FftTypeOK, FftStep

LEMMA CpuType ==
  ASSUME CpuTypeOK, NEW calc, NEW stl, NEW valid, CpuStep(calc, stl, valid)
  PROVE  CpuTypeOK'
  BY DEF CpuTypeOK, CpuStep, Refill, Hold, Advance

(* What the rest of the processor may assume of the presented instruction. *)
LEMMA InstrTypes ==
  ASSUME CpuTypeOK
  PROVE  /\ instr \in Instr
         /\ aluResult \in Addrs
         /\ instr.val \in Values
         /\ instr.sig \in SigNums
  <1>1. Program \subseteq Instr
    BY CpuAssumption
  <1>2. MissInstr \in Instr
    BY ParamsAssumption DEF MissInstr, Instr
  <1>3. instr \in Instr
    BY <1>1, <1>2 DEF CpuTypeOK
  <1> QED
    BY <1>3 DEF Instr, aluResult

LEMMA WireTypes ==
  ASSUME TypeOK
  PROVE  /\ AddrAligned(aluResult) \in 0 .. 1
         /\ mcDataIn \in Block
         /\ mcDataOut(aluResult) \in Block
         /\ memoryOut \in Values
         /\ accelBlk2Buffer \in [0 .. EPB - 1 -> Cell]
  <1>1. aluResult \in Addrs /\ aluResult \in Nat
    BY InstrTypes, ParamsAssumption DEF TypeOK
  <1>2. AddrAligned(aluResult) \in 0 .. 1
    <2>1. (aluResult \div WORDS) * WORDS \in Nat
      BY <1>1, ParamsAssumption
    <2> QED
      BY <2>1, ModRange DEF AddrAligned
  <1>3. lines[Index(aluResult)] \in Line
    BY <1>1, AddressTypes DEF TypeOK, MsTypeOK
  <1>4. mcDataIn \in Block
    BY BlockTypes DEF TypeOK, mcDataIn
  <1>5. mcDataOut(aluResult) \in Block
    BY <1>3, BlockTypes DEF mcDataOut, blkOut, Line
  <1>6. memoryOut \in Values
    BY <1>1, <1>3, AddressTypes DEF memoryOut, Line, Block
  <1>7. accelBlk2Buffer \in [0 .. EPB - 1 -> Cell]
    <2>1. \A j \in 0 .. EPB - 1 : EPB * sigBlk + j \in Int
      BY Sizes DEF TypeOK
    <2> QED
      BY <2>1 DEF accelBlk2Buffer, Cell
  <1> QED
    BY <1>2, <1>4, <1>5, <1>6, <1>7

LEMMA HostType ==
  ASSUME TypeOK, NEW tx_done, HostStep(tx_done), Retire, CountStarts
  PROVE  /\ host' \in [0 .. 1 -> Block]
         /\ bus' \in Block
         /\ sigBlk' \in 0 .. NBLK - 1
         /\ retired' \in [opc : {"NOP"}] \cup [opc : {"LD", "ST"}, addr : Addrs, val : Values]
         /\ starts' \in 0 .. 2
  <1>1. host' \in [0 .. 1 -> Block] /\ bus' \in Block
    BY WireTypes DEF TypeOK, HostStep
  <1>2. sigBlk' \in 0 .. NBLK - 1
    BY DEF TypeOK, ArbTypeOK, HostStep
  <1>3. retired' \in [opc : {"NOP"}] \cup [opc : {"LD", "ST"}, addr : Addrs, val : Values]
    <2>1. CASE LoadCompletes
      BY <2>1, WireTypes, InstrTypes DEF TypeOK, Retire
    <2>2. CASE ~LoadCompletes /\ StoreCompletes
      BY <2>2, WireTypes, InstrTypes DEF TypeOK, Retire
    <2>3. CASE ~LoadCompletes /\ ~StoreCompletes
      BY <2>3 DEF TypeOK, Retire
    <2> QED
      BY <2>1, <2>2, <2>3
  <1>4. starts' \in 0 .. 2
    BY DEF TypeOK, CountStarts
  <1> QED
    BY <1>1, <1>2, <1>3, <1>4

LEMMA InitTypes == Init => TypeOK
  <1> SUFFICES ASSUME Init PROVE TypeOK
    OBVIOUS
  <1>1. ArbTypeOK
    BY Sizes DEF Init, ArbInit, ArbTypeOK, ArbStates
  <1>2. MsTypeOK
    BY BlockTypes DEF Init, MsInit, MsTypeOK, MsStates, Line
  <1>3. ResetCell \in Cell
    BY DEF ResetCell, Cell
  <1>4. FftTypeOK
    <2>1. 0 \in Slots /\ 0 \in 0 .. HALF - 1 /\ 0 \in 0 .. LOGN
      BY Sizes DEF Slots
    <2>2. [k \in Slots |-> ResetCell] \in [Slots -> Cell]
      BY <1>3
    <2> QED
      BY <2>1, <2>2, ParamsAssumption DEF Init, FftInit, ABufInit, FftTypeOK, CtlStates
  <1>5. CpuTypeOK
    BY DEF Init, CpuInit, CpuTypeOK
  <1>6. host \in [0 .. 1 -> Block] /\ bus \in Block /\ sigBlk \in 0 .. NBLK - 1
    BY BlockTypes, Sizes DEF Init, HostInit, Block
  <1>7. retired \in [opc : {"NOP"}] /\ starts \in 0 .. 2
    BY DEF Init
  <1> QED
    BY <1>1, <1>2, <1>4, <1>5, <1>6, <1>7 DEF TypeOK

LEMMA ClockTypes ==
  ASSUME TypeOK, NEW tx_done, NEW rd_valid, Clock(tx_done, rd_valid)
  PROVE  TypeOK'
  <1> USE DEF Clock
  <1>1. ArbTypeOK'
    BY ArbType DEF TypeOK
  <1>2. MsTypeOK'
    BY MsType, WireTypes, InstrTypes DEF TypeOK
  <1>3. FftTypeOK'
    BY FftType, WireTypes, InstrTypes DEF TypeOK
  <1>4. CpuTypeOK'
    BY CpuType DEF TypeOK
  <1> QED
    BY <1>1, <1>2, <1>3, <1>4, HostType DEF TypeOK

LEMMA StutterTypes == ASSUME TypeOK, UNCHANGED vars PROVE TypeOK'
  BY DEF TypeOK, vars, arbVars, msVars, fftVars, counterVars, inVars, outVars,
         cpuVars, hostVars, ArbTypeOK, MsTypeOK, FftTypeOK, CpuTypeOK

(* Every register of the processor holds a value of its type, whatever the *)
(* controller's timing.                                                    *)
THEOREM TypeCorrect == Spec => []TypeOK
  <1>1. ASSUME TypeOK, [Next]_vars PROVE TypeOK'
    BY <1>1, ClockTypes, StutterTypes DEF Next, Tick, Answer
  <1> QED
    BY <1>1, InitTypes, PTL DEF Spec

-----------------------------------------------------------------------------
(* The coupling of the machines.  A clock edge of the testbench's protocol *)
(* delivers rd_valid exactly in the cycles that wait for it.               *)

LEMMA InitInv == Init => IInv
  <1> SUFFICES ASSUME Init PROVE IInv
    OBVIOUS
  <1>1. FetchInv /\ StageInv /\ DataInv /\ OffsetInv
    BY DEF Init, ArbInit, MsInit, CpuInit, MissInstr, FetchInv, StageInv, DataInv,
           OffsetInv, cacheMissFetch, EvictStates
  <1>2. WriteBackInv
    BY DEF Init, ArbInit, MsInit, WriteBackInv, LoadStates
  <1>3. AccelRdInv /\ AccelWrInv /\ OutFullInv /\ InFullInv /\ LoadCounterInv
    BY DEF Init, ArbInit, FftInit, ABufInit, AccelRdInv, AccelWrInv, OutFullInv,
           InFullInv, LoadCounterInv
  <1>4. SignalInv /\ DrainInv
    BY DEF Init, ArbInit, FftInit, ABufInit, SignalInv, SignalBuffered, DrainInv
  <1> QED
    BY <1>1, <1>2, <1>3, <1>4, InitTypes DEF IInv, CacheInv, AccelInv

LEMMA FetchStep ==
  ASSUME CacheInv, NEW tx_done, NEW rd_valid, Clock(tx_done, rd_valid)
  PROVE  FetchInv'
  <1> USE DEF FetchInv
  <1>1. ArbStep(Request, tx_done, rd_valid) /\ FetchInv
    BY DEF Clock, CacheInv
  <1>2. CASE GrantInstr(Request)
    <2>1. cacheMissFetch /\ ~instrBlk2CacheValid(rd_valid)
      BY <1>2 DEF GrantInstr, Request, instrBlk2CacheValid
    <2> QED
      BY <2>1 DEF Clock, CpuStep, Refill, Hold, Advance, Retires, stallPC, cacheMissFetch
  <1>3. CASE InstrRd(tx_done) \/ InstrRdDone(rd_valid)
    <2>1. currState' \in {"IDLE", "INSTR_RD", "INSTR_RD_DONE"} /\ cacheMissFetch
      BY <1>1, <1>3 DEF InstrRd, InstrRdDone, Transfer, Goto
    <2>2. currState' # "IDLE" => ~instrBlk2CacheValid(rd_valid)
      BY <1>3 DEF InstrRd, InstrRdDone, Transfer, Goto, instrBlk2CacheValid
    <2> QED
      BY <2>1, <2>2 DEF Clock, CpuStep, Refill, Hold, Advance, Retires, stallPC, cacheMissFetch
  <1>4. CASE ~(currState' \in {"INIT", "INSTR_RD", "INSTR_RD_DONE"})
    BY <1>4
  <1> QED
    BY <1>1, <1>2, <1>3, <1>4
       DEF ArbStep, ArbStart, GrantAccel, GrantData, NoRequest, DataRd, DataRdDone,
           DataWr, DataWrDone, AccelRd, AccelRdDone, AccelWr, AccelWrDone, Transfer, Goto

(* While the memory stage is busy the processor stays at its instruction.  *)
LEMMA HeldInstr ==
  ASSUME CacheInv, NEW tx_done, NEW rd_valid, Clock(tx_done, rd_valid), msState' # "IDLE"
  PROVE  instr' = instr /\ ~cacheMissFetch
  <1>1. StageInv /\ MsTypeOK
    BY DEF CacheInv, TypeOK
  <1>2. MsStep(memRead, memWrite, aluResult, instr.val, dataEvictAck, mcDataIn,
               dataBlk2CacheValid(rd_valid))
    BY DEF Clock
  <1>3. stall /\ (memRead \/ memWrite)
    <2>1. CASE msState = "IDLE"
      BY <1>2, <2>1 DEF MsStep, Begin, ReadCache, WriteCache, EvictRd, EvictWr, LoadRd,
                        LoadWr, WaitRd, WaitWr, Evict, Load, Wait, MsGoto, stall, stallDMAMem
    <2>2. CASE msState \in {"READ", "WRITE"}
      BY <1>1, <1>2, <2>2
         DEF StageInv, MsStep, Begin, ReadCache, WriteCache, EvictRd, EvictWr, LoadRd,
             LoadWr, WaitRd, WaitWr, Evict, Load, Wait, MsGoto, stall, stallDMAMem, miss
    <2>3. CASE msState \in EvictStates \cup LoadStates \cup WaitStates
      BY <1>1, <2>3 DEF StageInv, EvictStates, LoadStates, WaitStates, stall, stallDMAMem
    <2> QED
      BY <1>1, <2>1, <2>2, <2>3 DEF MsTypeOK, MsStates, EvictStates, LoadStates, WaitStates
  <1>4. ~cacheMissFetch
    BY <1>3 DEF memRead, memWrite, cacheMissFetch
  <1> QED
    BY <1>3, <1>4 DEF Clock, CpuStep, Refill, Hold, Advance, Retires, stallPC

LEMMA StageStep ==
  ASSUME CacheInv, NEW tx_done, NEW rd_valid, Clock(tx_done, rd_valid)
  PROVE  StageInv'
  <1>1. StageInv /\ MsTypeOK
    BY DEF CacheInv, TypeOK
  <1>2. MsStep(memRead, memWrite, aluResult, instr.val, dataEvictAck, mcDataIn,
               dataBlk2CacheValid(rd_valid))
    BY DEF Clock
  <1>3. CASE msState' = "IDLE"
    BY <1>3 DEF StageInv, EvictStates
  <1>4. CASE msState' # "IDLE"
    <2>1. instr' = instr
      BY <1>4, HeldInstr
    <2>2. /\ msState' \in {"READ", "EVICT_RD", "LOAD_RD", "WAIT_RD"} => memRead
          /\ msState' \in {"WRITE", "EVICT_WR", "LOAD_WR", "WAIT_WR"} => memWrite
      BY <1>1, <1>2
         DEF StageInv, MsStep, Begin, ReadCache, WriteCache, EvictRd, EvictWr, LoadRd,
             LoadWr, WaitRd, WaitWr, Evict, Load, Wait, MsGoto
    <2>3. msState' \in EvictStates => evict(aluResult) /\ lines' = lines
      BY <1>1, <1>2
         DEF StageInv, EvictStates, MsStep, Begin, ReadCache, WriteCache, EvictRd, EvictWr,
             LoadRd, LoadWr, WaitRd, WaitWr, Evict, Load, Wait, MsGoto
    <2> QED
      BY <2>1, <2>2, <2>3
         DEF StageInv, memRead, memWrite, aluResult, evict, miss, hit
  <1> QED
    BY <1>3, <1>4

LEMMA DataStep ==
  ASSUME CacheInv, NEW tx_done, NEW rd_valid, Clock(tx_done, rd_valid)
  PROVE  DataInv'
  <1>1. DataInv /\ StageInv /\ MsTypeOK
    BY DEF CacheInv, TypeOK
  <1>2. /\ MsStep(memRead, memWrite, aluResult, instr.val, dataEvictAck, mcDataIn,
                  dataBlk2CacheValid(rd_valid))
        /\ ArbStep(Request, tx_done, rd_valid)
    BY DEF Clock
  <1> USE DEF MsStep, Begin, ReadCache, WriteCache, EvictRd, EvictWr, LoadRd, LoadWr,
              WaitRd, WaitWr, Evict, Load, Wait, MsGoto, EvictStates, LoadStates
  <1>3. CASE GrantData(Request)
    <2>1. ~dataEvictAck /\ ~dataBlk2CacheValid(rd_valid)
      BY <1>3 DEF GrantData, dataEvictAck, dataBlk2CacheValid
    <2>2. CASE cacheEvict(aluResult)
      <3>1. currState' = "DATA_WR"
        BY <1>3, <2>2 DEF GrantData, Request, Goto
      <3>2. msState' \in EvictStates
        BY <1>2, <2>1, <2>2 DEF cacheEvict, evict, miss
      <3> QED
        BY <3>1, <3>2 DEF DataInv
    <2>3. CASE ~cacheEvict(aluResult)
      <3>1. currState' = "DATA_RD" /\ cacheMiss(aluResult)
        BY <1>3, <2>3 DEF GrantData, Request, Goto
      <3>2. msState' \in LoadStates \cup {"EVICT_WR"}
        BY <1>2, <2>1, <2>3, <3>1 DEF cacheEvict, cacheMiss, miss
      <3> QED
        BY <3>1, <3>2 DEF DataInv
    <2> QED
      BY <2>2, <2>3
  <1>4. CASE DataRd(tx_done) \/ DataRdDone(rd_valid)
    <2>1. currState' # "IDLE" =>
            ~dataEvictAck /\ ~dataBlk2CacheValid(rd_valid) /\ currState' \in {"DATA_RD", "DATA_RD_DONE"}
      BY <1>4 DEF DataRd, DataRdDone, Transfer, Goto, dataEvictAck, dataBlk2CacheValid
    <2>2. msState \in LoadStates \cup {"EVICT_WR"}
      BY <1>1, <1>4 DEF DataInv, DataRd, DataRdDone, Transfer
    <2> QED
      BY <1>2, <2>1, <2>2 DEF DataInv
  <1>5. CASE DataWr(tx_done)
    <2>1. ~dataEvictAck /\ currState' \in {"DATA_WR", "DATA_WR_DONE"} /\ msState \in EvictStates
      BY <1>1, <1>5 DEF DataInv, DataWr, Transfer, Goto, dataEvictAck
    <2> QED
      BY <1>2, <2>1 DEF DataInv
  <1>6. CASE ~(currState' \in {"DATA_RD", "DATA_RD_DONE", "DATA_WR", "DATA_WR_DONE"})
    BY <1>6 DEF DataInv
  <1> QED
    BY <1>2, <1>3, <1>4, <1>5, <1>6
       DEF ArbStep, ArbStart, GrantAccel, GrantInstr, NoRequest, InstrRd, InstrRdDone,
           DataWrDone, AccelRd, AccelRdDone, AccelWr, AccelWrDone, Transfer, Goto

LEMMA WriteBackStep ==
  ASSUME CacheInv, NEW tx_done, NEW rd_valid, Clock(tx_done, rd_valid)
  PROVE  WriteBackInv'
  <1>1. WriteBackInv /\ DataInv /\ StageInv /\ MsTypeOK
    BY DEF CacheInv, TypeOK
  <1>2. /\ MsStep(memRead, memWrite, aluResult, instr.val, dataEvictAck, mcDataIn,
                  dataBlk2CacheValid(rd_valid))
        /\ ArbStep(Request, tx_done, rd_valid)
        /\ HostStep(tx_done)
    BY DEF Clock
  <1>3. Index(aluResult) \in 0 .. LINES - 1 /\ lines \in [0 .. LINES - 1 -> Line]
        /\ lines[Index(aluResult)] \in Line /\ aluResult \in Addrs
    BY <1>1, AddressTypes, InstrTypes DEF CacheInv, TypeOK, MsTypeOK
  <1>4. AddrAligned(aluResult) \in 0 .. 1 /\ host \in [0 .. 1 -> Block]
    BY WireTypes DEF CacheInv, TypeOK
  <1>5. \A i \in 0 .. LINES - 1 : lines'[i].dirty => lines'[i].valid
    <2>1. CASE lines' = lines
      BY <1>1, <2>1 DEF WriteBackInv
    <2>2. CASE WriteCache(aluResult, instr.val) /\ hit(aluResult)
      <3>1. Written(lines[Index(aluResult)], Offset(aluResult), instr.val).valid
        BY <1>3, <2>2 DEF Written, hit, Line
      <3> QED
        BY <1>1, <1>3, <2>2, <3>1 DEF WriteCache, WriteBackInv
    <2>3. CASE \E from, to : Load(from, to, aluResult, mcDataIn, dataBlk2CacheValid(rd_valid))
      BY <1>1, <1>3, <2>3 DEF Load, WriteBackInv
    <2> QED
      BY <1>2, <2>1, <2>2, <2>3
         DEF MsStep, Begin, ReadCache, WriteCache, EvictRd, EvictWr, LoadRd, LoadWr,
             WaitRd, WaitWr, Evict, Wait
  <1>6. ASSUME currState' = "DATA_WR_DONE"
        PROVE  host'[AddrAligned(aluResult)'] = lines'[Index(aluResult)'].data
    <2>1. currState = "DATA_WR" /\ tx_done /\ msState \in EvictStates
      BY <1>1, <1>2, <1>6
         DEF ArbStep, ArbStart, GrantAccel, GrantData, GrantInstr, NoRequest, InstrRd,
             InstrRdDone, DataRd, DataRdDone, DataWr, DataWrDone, AccelRd, AccelRdDone,
             AccelWr, AccelWrDone, Transfer, Goto, DataInv
    <2>2. msState' # "IDLE" /\ lines' = lines
      BY <1>2, <2>1
         DEF MsStep, Begin, ReadCache, WriteCache, EvictRd, EvictWr, LoadRd, LoadWr,
             WaitRd, WaitWr, Evict, Load, Wait, MsGoto, EvictStates, dataEvictAck
    <2>3. aluResult' = aluResult
      BY <2>2, HeldInstr DEF aluResult
    <2>4. host'[AddrAligned(aluResult)] = lines[Index(aluResult)].data
      BY <1>1, <1>2, <1>4, <2>1 DEF HostStep, mcDataOut, blkOut, StageInv
    <2> QED
      BY <2>2, <2>3, <2>4 DEF AddrAligned, Index
  <1>7. ASSUME msState' \in LoadStates, lines'[Index(aluResult)'].dirty
        PROVE  host'[AddrAligned(aluResult)'] = lines'[Index(aluResult)'].data
    <2>1. aluResult' = aluResult
      BY <1>7, HeldInstr DEF aluResult, LoadStates
    <2>2. lines'[Index(aluResult)].dirty
      BY <1>7, <2>1 DEF Index
    <2>3. ~(LoadRd(aluResult, mcDataIn, dataBlk2CacheValid(rd_valid))
              \/ LoadWr(aluResult, mcDataIn, dataBlk2CacheValid(rd_valid)))
      <3>1. ASSUME NEW from, NEW to,
                   Load(from, to, aluResult, mcDataIn, dataBlk2CacheValid(rd_valid))
            PROVE  FALSE
        <4> DEFINE new == [valid |-> TRUE, dirty |-> FALSE, tag |-> Tag(aluResult),
                           data |-> mcDataIn]
        <4>1. ~new.dirty
          OBVIOUS
        <4> HIDE DEF new
        <4>2. lines'[Index(aluResult)] = new
          BY <1>3, <3>1 DEF Load, new
        <4> QED
          BY <2>2, <4>1, <4>2
      <3> QED
        BY <3>1 DEF LoadRd, LoadWr
    <2>4. ~(ReadCache(aluResult) \/ WriteCache(aluResult, instr.val))
      BY <1>1, <1>3, <1>7, <2>2
         DEF ReadCache, WriteCache, MsGoto, LoadStates, evict, miss, WriteBackInv
    <2>5. EvictRd(dataEvictAck) \/ EvictWr(dataEvictAck)
      BY <1>2, <1>7, <2>3, <2>4
         DEF MsStep, Begin, WaitRd, WaitWr, Wait, MsGoto, LoadStates
    <2>6. currState = "DATA_WR_DONE" /\ lines' = lines
      BY <1>7, <2>5 DEF EvictRd, EvictWr, Evict, MsGoto, LoadStates, dataEvictAck
    <2>7. host' = host
      BY <1>2, <2>6 DEF HostStep
    <2> QED
      BY <1>1, <2>1, <2>6, <2>7 DEF WriteBackInv, AddrAligned, Index
  <1> QED
    BY <1>5, <1>6, <1>7 DEF WriteBackInv

(* The accelerator's side of a clock edge, as plain facts.                 *)
LEMMA InNext ==
  ASSUME TypeOK, NEW tx_done, NEW rd_valid, Clock(tx_done, rd_valid)
  PROVE  /\ inIndex' = IF currState = "ACCEL_RD_DONE" THEN (inIndex + EPB) % DEPTH ELSE inIndex
         /\ inFullInt' = inFull
         /\ inOutIndex' = IF ~inFullInt THEN inOutIndex
                          ELSE IF inOutIndex = DEPTH - 1 THEN 0 ELSE inOutIndex + 1
         /\ currState # "ACCEL_RD_DONE" =>
              inFull' = (inFull /\ ~(inFullInt /\ inOutIndex = DEPTH - 1))
         /\ currState = "ACCEL_RD_DONE" /\ ~inFull /\ inIndex # DEPTH - EPB => ~inFull'
  <1>1. InStep(accelRdBlkDone, accelBlk2Buffer)
    BY DEF Clock, FftStep
  <1>2. inFull \in BOOLEAN /\ inFullInt \in BOOLEAN /\ inOutIndex \in 0 .. DEPTH - 1
    BY DEF TypeOK, FftTypeOK, Slots
  <1>3. inOutIndex' = IF ~inFullInt THEN inOutIndex
                      ELSE IF inOutIndex = DEPTH - 1 THEN 0 ELSE inOutIndex + 1
    BY <1>1, <1>2, ModStep, Sizes DEF InStep
  <1>4. currState # "ACCEL_RD_DONE" =>
          inFull' = (inFull /\ ~(inFullInt /\ inOutIndex = DEPTH - 1))
    BY <1>1, <1>2 DEF InStep, OneOf, accelRdBlkDone
  <1>5. currState = "ACCEL_RD_DONE" /\ ~inFull /\ inIndex # DEPTH - EPB => ~inFull'
    BY <1>1, <1>2 DEF InStep, OneOf, accelRdBlkDone
  <1> QED
    BY <1>1, <1>3, <1>4, <1>5 DEF InStep, accelRdBlkDone

LEMMA OutNext ==
  ASSUME TypeOK, NEW tx_done, NEW rd_valid, Clock(tx_done, rd_valid)
  PROVE  /\ outOutIndex' = IF outFull /\ currState = "ACCEL_WR_DONE"
                             THEN (outOutIndex + EPB) % DEPTH ELSE outOutIndex
         /\ ~loadOutBuffer =>
              outFull' = (outFull /\ ~(currState = "ACCEL_WR_DONE" /\ outOutIndex = DEPTH - EPB))
  <1>1. OutStep(loadOutBuffer, ram[loadFifoCounter], accelWrBlkDone)
    BY DEF Clock, FftStep
  <1>2. outFull \in BOOLEAN
    BY DEF TypeOK, FftTypeOK
  <1> QED
    BY <1>1, <1>2 DEF OutStep, OneOf, accelWrBlkDone

LEMMA CtlNext ==
  ASSUME TypeOK, NEW tx_done, NEW rd_valid, Clock(tx_done, rd_valid)
  PROVE  /\ ctl = "IDLE" /\ startPulse => ctl' \in IdleLoadStates
         /\ ctl = "IDLE" /\ ~startPulse => ctl' = "IDLE"
         /\ ctl = "IDLE_LOADF" => ctl' = IF inFull THEN "LOADF" ELSE ctl
         /\ ctl = "IDLE_LOADI" => ctl' = IF inFull THEN "LOADI" ELSE ctl
         /\ ctl = "LOADF" => ctl' = IF loadExternalDone THEN "CALCULATINGF" ELSE ctl
         /\ ctl = "LOADI" => ctl' = IF loadExternalDone THEN "CALCULATINGI" ELSE ctl
         /\ ctl \in CalcStates => ctl' \in {ctl, "LOADOUT"}
         /\ ctl = "LOADOUT" => ctl' = IF outFull THEN "DONE" ELSE ctl
         /\ ctl = "DONE" => ctl' = IF transformComplete THEN "IDLE" ELSE ctl
  <1>1. CtlStep(startF(calculating), startI(calculating), transformComplete)
    BY DEF Clock, FftStep
  <1> QED
    BY <1>1 DEF CtlStep, CtlIdle, AwaitSignal, LoadRam, Calculate, LoadOut, CtlDone,
                CtlGoto, startPulse, IdleLoadStates, CalcStates

LEMMA LoadCounterNext ==
  ASSUME TypeOK, NEW tx_done, NEW rd_valid, Clock(tx_done, rd_valid)
  PROVE  /\ loadExternalDone => ~loadExternalDone' /\ loadRamCounter' = loadRamCounter
         /\ ~loadExternalDone /\ loadRamCounter = DEPTH - 1 =>
              loadExternalDone' /\ loadRamCounter' = 0
         /\ ~loadExternalDone /\ loadRamCounter # DEPTH - 1 =>
              /\ ~loadExternalDone'
              /\ loadRamCounter' = IF loadExternal THEN loadRamCounter + 1 ELSE loadRamCounter
  <1>1. LoadRamCounter
    BY DEF Clock, FftStep
  <1>2. loadExternalDone \in BOOLEAN
    BY DEF TypeOK, FftTypeOK
  <1> QED
    BY <1>1, <1>2 DEF LoadRamCounter, SlotCounter

(* The arbiter's accelerator states, one case for each way into or out of  *)
(* them; rd_valid answers in the first cycle that waits for it.            *)
LEMMA ArbNext ==
  ASSUME IInv, NEW tx_done, NEW rd_valid, Clock(tx_done, rd_valid), rd_valid = AwaitsData
  PROVE  \/ /\ currState = "IDLE" /\ startPulse /\ currState' = "ACCEL_RD"
            /\ sigOffset' = sigOffset
         \/ /\ currState = "IDLE" /\ ~startPulse /\ outFull /\ currState' = "ACCEL_WR"
            /\ sigOffset' = sigOffset
         \/ /\ currState = "ACCEL_RD" /\ currState' \in {"ACCEL_RD", "ACCEL_RD_DONE"}
            /\ sigOffset' = sigOffset
         \/ /\ currState = "ACCEL_WR" /\ currState' \in {"ACCEL_WR", "ACCEL_WR_DONE"}
            /\ sigOffset' = sigOffset
         \/ /\ currState = "ACCEL_RD_DONE"
            /\ currState' = IF sigOffset = NBLK - 1 THEN "IDLE" ELSE "ACCEL_RD"
            /\ sigOffset' = (sigOffset + 1) % NBLK
         \/ /\ currState = "ACCEL_WR_DONE"
            /\ currState' = IF sigOffset = NBLK - 1 THEN "IDLE" ELSE "ACCEL_WR"
            /\ sigOffset' = (sigOffset + 1) % NBLK
         \/ /\ ~(currState \in {"ACCEL_RD", "ACCEL_RD_DONE", "ACCEL_WR", "ACCEL_WR_DONE"})
            /\ ~(currState' \in {"ACCEL_RD", "ACCEL_RD_DONE", "ACCEL_WR", "ACCEL_WR_DONE"})
            /\ ~(currState = "IDLE" /\ (startPulse \/ outFull))
            /\ sigOffset' = sigOffset
  <1>1. ArbStep(Request, tx_done, rd_valid)
    BY DEF Clock
  <1>2. Request.accelRd = startPulse /\ Request.accelWr = outFull
    BY DEF Request
  <1>3. sigOffset' = IF en THEN (sigOffset + 1) % NBLK ELSE sigOffset
    BY <1>1 DEF ArbStep, SigCounter
  <1>4. CASE GrantAccel(Request)
    BY <1>2, <1>3, <1>4 DEF GrantAccel, Goto, en
  <1>5. CASE AccelRd(tx_done) \/ AccelWr(tx_done)
    BY <1>3, <1>5 DEF AccelRd, AccelWr, Transfer, Goto, en
  <1>6. CASE AccelRdDone(rd_valid)
    BY <1>3, <1>6 DEF AccelRdDone, Goto, en, AwaitsData, accelTransferDone
  <1>7. CASE AccelWrDone
    BY <1>3, <1>7 DEF AccelWrDone, Goto, en, accelTransferDone
  <1>8. CASE GrantData(Request) \/ GrantInstr(Request) \/ NoRequest(Request)
    BY <1>2, <1>3, <1>8 DEF GrantData, GrantInstr, NoRequest, Goto, en
  <1>9. CASE \/ ArbStart \/ InstrRd(tx_done) \/ InstrRdDone(rd_valid) \/ DataRd(tx_done)
             \/ DataRdDone(rd_valid) \/ DataWr(tx_done) \/ DataWrDone
    BY <1>3, <1>9 DEF ArbStart, InstrRd, InstrRdDone, DataRd, DataRdDone, DataWr,
                      DataWrDone, Transfer, Goto, en
  <1> QED
    BY <1>1, <1>4, <1>5, <1>6, <1>7, <1>8, <1>9 DEF ArbStep

LEMMA AccelRdStep ==
  ASSUME IInv, NEW tx_done, NEW rd_valid, Clock(tx_done, rd_valid), rd_valid = AwaitsData
  PROVE  AccelRdInv'
  <1>1. TypeOK /\ AccelRdInv /\ OffsetInv /\ InFullInv /\ sigOffset \in 0 .. NBLK - 1
    BY DEF IInv, CacheInv, AccelInv, TypeOK, ArbTypeOK
  <1>2. CASE currState = "IDLE" /\ startPulse
    <2>1. currState' = "ACCEL_RD" /\ sigOffset' = 0 /\ inIndex' = 0
      BY <1>1, <1>2, ArbNext, InNext DEF OffsetInv, AccelRdInv
    <2>2. ctl = "IDLE"
      BY <1>2 DEF startPulse, startF, startI, calculating
    <2>3. ctl' \in IdleLoadStates /\ ~inFull
      BY <1>1, <1>2, <2>2, CtlNext DEF InFullInv, IdleLoadStates
    <2>4. ~inFull'
      BY <1>1, <1>2, <2>3, InNext
    <2> QED
      BY <2>1, <2>3, <2>4, Sizes DEF AccelRdInv
  <1>3. CASE currState = "ACCEL_RD"
    <2>1. ctl \in IdleLoadStates /\ ~inFull /\ inIndex = EPB * sigOffset
      BY <1>1, <1>3 DEF AccelRdInv
    <2>2. ctl' \in IdleLoadStates
      BY <1>1, <2>1, CtlNext DEF IdleLoadStates
    <2> QED
      BY <1>1, <1>3, <2>1, <2>2, ArbNext, InNext DEF AccelRdInv
  <1>4. CASE currState = "ACCEL_RD_DONE"
    <2>1. ctl \in IdleLoadStates /\ ~inFull /\ inIndex = EPB * sigOffset
      BY <1>1, <1>4 DEF AccelRdInv
    <2>2. ctl' \in IdleLoadStates
      BY <1>1, <2>1, CtlNext DEF IdleLoadStates
    <2>3. inIndex' = EPB * sigOffset'
      BY <1>1, <1>4, <2>1, ArbNext, InNext, BlockStep
    <2>4. CASE sigOffset = NBLK - 1
      <3>1. currState' = "IDLE" /\ sigOffset' = 0
        BY <1>1, <1>4, <2>4, ArbNext, ModStep, Sizes
      <3> QED
        BY <2>3, <3>1, Sizes DEF AccelRdInv
    <2>5. CASE sigOffset # NBLK - 1
      <3>1. currState' = "ACCEL_RD" /\ ~inFull'
        BY <1>1, <1>4, <2>1, <2>5, ArbNext, InNext, BlockStep
      <3> QED
        BY <2>2, <2>3, <3>1 DEF AccelRdInv
    <2> QED
      BY <2>4, <2>5
  <1>5. CASE /\ ~(currState \in {"ACCEL_RD", "ACCEL_RD_DONE"})
             /\ ~(currState = "IDLE" /\ startPulse)
    <2>1. ~(currState' \in {"ACCEL_RD", "ACCEL_RD_DONE"})
      BY <1>5, ArbNext
    <2> QED
      BY <1>1, <1>5, <2>1, InNext DEF AccelRdInv
  <1> QED
    BY <1>2, <1>3, <1>4, <1>5

LEMMA AccelWrStep ==
  ASSUME IInv, NEW tx_done, NEW rd_valid, Clock(tx_done, rd_valid), rd_valid = AwaitsData
  PROVE  AccelWrInv'
  <1>1. TypeOK /\ AccelWrInv /\ OffsetInv /\ OutFullInv /\ sigOffset \in 0 .. NBLK - 1
    BY DEF IInv, CacheInv, AccelInv, TypeOK, ArbTypeOK
  <1>2. CASE currState = "IDLE" /\ ~startPulse /\ outFull
    <2>1. currState' = "ACCEL_WR" /\ sigOffset' = 0 /\ outOutIndex' = 0
      BY <1>1, <1>2, ArbNext, OutNext DEF OffsetInv, AccelWrInv
    <2>2. ctl' = "DONE"
      BY <1>1, <1>2, CtlNext DEF OutFullInv, transformComplete
    <2>3. outFull'
      BY <1>1, <1>2, OutNext DEF loadOutBuffer
    <2> QED
      BY <2>1, <2>2, <2>3, Sizes DEF AccelWrInv
  <1>3. CASE currState = "ACCEL_WR"
    <2>1. ctl = "DONE" /\ outFull /\ outOutIndex = EPB * sigOffset
      BY <1>1, <1>3 DEF AccelWrInv
    <2>2. ctl' = "DONE" /\ outFull' /\ outOutIndex' = outOutIndex
      BY <1>1, <1>3, <2>1, CtlNext, OutNext DEF transformComplete, loadOutBuffer
    <2> QED
      BY <1>3, <2>1, <2>2, ArbNext DEF AccelWrInv
  <1>4. CASE currState = "ACCEL_WR_DONE"
    <2>1. ctl = "DONE" /\ outFull /\ outOutIndex = EPB * sigOffset
      BY <1>1, <1>4 DEF AccelWrInv
    <2>2. outOutIndex' = EPB * sigOffset'
      BY <1>1, <1>4, <2>1, ArbNext, OutNext, BlockStep
    <2>3. CASE sigOffset = NBLK - 1
      <3>1. currState' = "IDLE" /\ sigOffset' = 0
        BY <1>1, <1>4, <2>3, ArbNext, ModStep, Sizes
      <3> QED
        BY <2>2, <3>1, Sizes DEF AccelWrInv
    <2>4. CASE sigOffset # NBLK - 1
      <3>1. currState' = "ACCEL_WR"
        BY <1>4, <2>4, ArbNext
      <3>2. ctl' = "DONE"
        BY <1>1, <2>1, <2>4, CtlNext DEF transformComplete, accelTransferDone
      <3>3. outFull'
        BY <1>1, <2>1, <2>4, OutNext, BlockStep DEF loadOutBuffer
      <3> QED
        BY <2>2, <3>1, <3>2, <3>3 DEF AccelWrInv
    <2> QED
      BY <2>3, <2>4
  <1>5. CASE /\ ~(currState \in {"ACCEL_WR", "ACCEL_WR_DONE"})
             /\ ~(currState = "IDLE" /\ ~startPulse /\ outFull)
    <2>1. ~(currState' \in {"ACCEL_WR", "ACCEL_WR_DONE"})
      BY <1>5, ArbNext
    <2> QED
      BY <1>1, <1>5, <2>1, OutNext DEF AccelWrInv
  <1> QED
    BY <1>2, <1>3, <1>4, <1>5

LEMMA OffsetStep ==
  ASSUME IInv, NEW tx_done, NEW rd_valid, Clock(tx_done, rd_valid), rd_valid = AwaitsData
  PROVE  OffsetInv'
  <1>1. OffsetInv /\ sigOffset \in 0 .. NBLK - 1
    BY DEF IInv, CacheInv, AccelInv, TypeOK, ArbTypeOK
  <1>2. sigOffset = NBLK - 1 => (sigOffset + 1) % NBLK = 0
    BY <1>1, ModStep, Sizes
  <1> QED
    BY <1>1, <1>2, ArbNext DEF OffsetInv

LEMMA OutFullStep ==
  ASSUME IInv, NEW tx_done, NEW rd_valid, Clock(tx_done, rd_valid), rd_valid = AwaitsData
  PROVE  OutFullInv'
  <1>1. TypeOK /\ AccelWrInv /\ OutFullInv /\ sigOffset \in 0 .. NBLK - 1
    BY DEF IInv, CacheInv, AccelInv, TypeOK, ArbTypeOK
  <1>2. CASE ctl = "LOADOUT"
    BY <1>1, <1>2, CtlNext DEF OutFullInv
  <1>3. CASE ctl = "DONE" /\ ~transformComplete
    BY <1>1, <1>3, CtlNext DEF OutFullInv
  <1>4. CASE ctl = "DONE" /\ transformComplete
    <2>1. currState = "ACCEL_WR_DONE" /\ outOutIndex = DEPTH - EPB
      BY <1>1, <1>4, BlockStep DEF AccelWrInv, transformComplete, accelTransferDone
    <2> QED
      BY <1>1, <1>4, <2>1, OutNext DEF OutFullInv, loadOutBuffer
  <1>5. CASE ctl \notin {"LOADOUT", "DONE"}
    BY <1>1, <1>5, OutNext DEF OutFullInv, loadOutBuffer
  <1> QED
    BY <1>2, <1>3, <1>4, <1>5

LEMMA LoadCounterStep ==
  ASSUME IInv, NEW tx_done, NEW rd_valid, Clock(tx_done, rd_valid)
  PROVE  LoadCounterInv'
  <1>1. TypeOK /\ LoadCounterInv /\ ctl \in CtlStates
    BY DEF IInv, CacheInv, AccelInv, TypeOK, FftTypeOK
  <1>2. CASE ~(ctl \in {"LOADF", "LOADI"})
    <2>1. loadRamCounter = 0 /\ ~loadExternalDone /\ DEPTH - 1 # 0
      BY <1>1, <1>2, Sizes DEF LoadCounterInv
    <2>2. CASE ctl = "IDLE_LOADI" /\ inFull
      BY <1>1, <2>1, <2>2, CtlNext, LoadCounterNext DEF LoadCounterInv
    <2>3. CASE ~(ctl = "IDLE_LOADI" /\ inFull)
      BY <1>1, <1>2, <2>1, <2>3, LoadCounterNext DEF LoadCounterInv, loadExternal
    <2> QED
      BY <2>2, <2>3
  <1>3. CASE ctl \in {"LOADF", "LOADI"}
    <2>1. CASE loadExternalDone
      BY <1>1, <2>1, LoadCounterNext DEF LoadCounterInv
    <2>2. CASE ~loadExternalDone
      <3>1. ctl' \in {"LOADF", "LOADI"}
        BY <1>1, <1>3, <2>2, CtlNext
      <3> QED
        BY <1>1, <2>2, <3>1, LoadCounterNext DEF LoadCounterInv
    <2> QED
      BY <2>1, <2>2
  <1> QED
    BY <1>2, <1>3

LEMMA InFullStep ==
  ASSUME IInv, NEW tx_done, NEW rd_valid, Clock(tx_done, rd_valid), rd_valid = AwaitsData
  PROVE  InFullInv'
  <1>1. /\ TypeOK /\ AccelRdInv /\ InFullInv /\ LoadCounterInv
        /\ inOutIndex \in 0 .. DEPTH - 1 /\ loadRamCounter \in 0 .. DEPTH - 1
    BY DEF IInv, CacheInv, AccelInv, TypeOK, FftTypeOK, Slots
  <1>0. inFullInt' => ctl' \in {"LOADF", "LOADI", "CALCULATINGI"} /\ (inFull' \/ inOutIndex' = 0)
    <2>1. inFullInt' => inFull
      BY <1>1, InNext
    <2>2. inFull => ctl' \in {"LOADF", "LOADI", "CALCULATINGI"}
      BY <1>1, CtlNext DEF InFullInv, IdleLoadStates
    <2>3. inFull => inFull' \/ inOutIndex' = 0
      BY <1>1, InNext DEF AccelRdInv
    <2> QED
      BY <2>1, <2>2, <2>3
  <1>2. CASE ~inFull
    <2>1. ~inFullInt' /\ inOutIndex' \in {0, 1}
      BY <1>1, <1>2, InNext, Sizes DEF InFullInv
    <2>2. inFull' => ctl' \in IdleLoadStates
      <3>1. inFull' => ctl \in IdleLoadStates
        BY <1>1, <1>2, InNext DEF AccelRdInv
      <3> QED
        BY <1>1, <1>2, <3>1, CtlNext DEF IdleLoadStates
    <2> QED
      BY <1>0, <2>1, <2>2 DEF InFullInv
  <1>3. CASE inFull
    <2>1. /\ inFullInt'
          /\ inFull' = ~(inFullInt /\ inOutIndex = DEPTH - 1)
      BY <1>1, <1>3, InNext DEF AccelRdInv
    <2>2. CASE inFullInt /\ inOutIndex = DEPTH - 1
      BY <1>0, <1>1, <2>1, <2>2, InNext DEF InFullInv
    <2>0. ~(inFullInt /\ inOutIndex = DEPTH - 1) => inFull'
      BY <2>1
    <2>3. CASE ctl = "IDLE_LOADF" /\ ~inFullInt /\ inOutIndex \in {0, 1}
      <3>1. ctl' = "LOADF" /\ inOutIndex' = inOutIndex
        BY <1>1, <1>3, <2>3, CtlNext, InNext
      <3>2. loadRamCounter' = 0 /\ ~loadExternalDone'
        BY <1>1, <2>3, LoadCounterNext, Sizes DEF LoadCounterInv, loadExternal
      <3>3. inOutIndex' \in {loadRamCounter', loadRamCounter' + 1}
        BY <2>3, <3>1, <3>2
      <3> QED
        BY <1>0, <2>1, <2>3, <2>0, <3>1, <3>2, <3>3 DEF InFullInv
    <2>4. CASE ctl = "IDLE_LOADI" /\ ~inFullInt /\ inOutIndex \in {0, 1}
      <3>1. ctl' = "LOADI" /\ inOutIndex' = inOutIndex
        BY <1>1, <1>3, <2>4, CtlNext, InNext
      <3>2. loadRamCounter' = 1 /\ ~loadExternalDone'
        BY <1>1, <1>3, <2>4, LoadCounterNext, Sizes DEF LoadCounterInv, loadExternal
      <3>3. /\ loadRamCounter' > 0
            /\ inOutIndex' \in {loadRamCounter' - 1, loadRamCounter'}
        BY <2>4, <3>1, <3>2
      <3> QED
        BY <1>0, <2>1, <2>4, <2>0, <3>1, <3>2, <3>3 DEF InFullInv
    <2>5. CASE /\ ctl = "LOADF" /\ inFullInt /\ ~loadExternalDone
               /\ inOutIndex \in {loadRamCounter, loadRamCounter + 1}
               /\ inOutIndex # DEPTH - 1
      <3>1. ctl' = "LOADF" /\ inOutIndex' = inOutIndex + 1
        BY <1>1, <2>5, CtlNext, InNext
      <3>2. loadRamCounter # DEPTH - 1
        BY <1>1, <2>5, Sizes
      <3>3. loadRamCounter' = loadRamCounter + 1 /\ ~loadExternalDone'
        BY <1>1, <2>5, <3>2, LoadCounterNext DEF loadExternal
      <3> QED
        BY <1>0, <1>1, <2>1, <2>5, <3>1, <3>3 DEF InFullInv
    <2>6. CASE /\ ctl = "LOADI" /\ inFullInt /\ ~loadExternalDone /\ loadRamCounter > 0
               /\ inOutIndex \in {loadRamCounter - 1, loadRamCounter}
               /\ inOutIndex # DEPTH - 1
      <3>1. ctl' = "LOADI" /\ inOutIndex' = inOutIndex + 1
        BY <1>1, <2>6, CtlNext, InNext
      <3>2. CASE loadRamCounter = DEPTH - 1
        <4>1. inOutIndex' = DEPTH - 1
          BY <1>1, <2>6, <3>1, <3>2, Sizes
        <4>2. loadExternalDone'
          BY <1>1, <2>6, <3>2, LoadCounterNext
        <4> QED
          BY <1>0, <2>1, <2>6, <3>1, <4>1, <4>2 DEF InFullInv
      <3>3. CASE loadRamCounter # DEPTH - 1
        <4>1. loadRamCounter' = loadRamCounter + 1 /\ ~loadExternalDone'
          BY <1>1, <2>6, <3>3, LoadCounterNext DEF loadExternal
        <4>2. /\ loadRamCounter' > 0
              /\ inOutIndex' \in {loadRamCounter' - 1, loadRamCounter'}
          BY <1>1, <2>6, <3>1, <4>1
        <4> QED
          BY <1>0, <2>1, <2>6, <2>0, <3>1, <4>1, <4>2 DEF InFullInv
      <3> QED
        BY <3>2, <3>3
    <2> QED
      BY <1>0, <1>1, <1>3, <2>2, <2>3, <2>4, <2>5, <2>6 DEF InFullInv, IdleLoadStates
  <1> QED
    BY <1>1, <1>2, <1>3 DEF TypeOK, FftTypeOK

LEMMA SignalStep ==
  ASSUME IInv, NEW tx_done, NEW rd_valid, Clock(tx_done, rd_valid), rd_valid = AwaitsData
  PROVE  SignalInv'
  <1>1. /\ TypeOK /\ AccelRdInv /\ SignalInv /\ sigOffset \in 0 .. NBLK - 1
        /\ inBuf \in [Slots -> Cell] /\ inIndex \in 0 .. DEPTH - 1
    BY DEF IInv, CacheInv, AccelInv, TypeOK, ArbTypeOK, FftTypeOK, Slots
  <1>2. currState' = "ACCEL_RD_DONE" => sigBlk' = sigOffset'
    <2>1. currState' = "ACCEL_RD_DONE" => currState = "ACCEL_RD" /\ sigOffset' = sigOffset
      BY ArbNext
    <2>2. currState = "ACCEL_RD" /\ currState' = "ACCEL_RD_DONE" => tx_done
      BY DEF Clock, ArbStep, ArbStart, GrantAccel, GrantData, GrantInstr, NoRequest, InstrRd,
             InstrRdDone, DataRd, DataRdDone, DataWr, DataWrDone, AccelRd, AccelRdDone,
             AccelWr, AccelWrDone, Transfer, Goto
    <2> QED
      BY <2>1, <2>2 DEF Clock, HostStep
  <1>3. InStep(accelRdBlkDone, accelBlk2Buffer)
    BY DEF Clock, FftStep
  <1>4. CASE currState # "ACCEL_RD_DONE"
    <2>1. inBuf' = inBuf /\ inIndex' = inIndex
      BY <1>3, <1>4 DEF InStep, accelRdBlkDone
    <2>2. inFull' => inFull
      BY <1>1, <1>4, InNext
    <2> QED
      BY <1>1, <1>2, <2>1, <2>2 DEF SignalInv, SignalBuffered
  <1>5. CASE currState = "ACCEL_RD_DONE"
    <2>1. ~inFull /\ inIndex = EPB * sigOffset /\ sigBlk = sigOffset
      BY <1>1, <1>5 DEF AccelRdInv, SignalInv
    <2>2. ASSUME NEW k \in Slots, k < inIndex + EPB
          PROVE  inBuf'[k] = Entry(k)
      <3>1. CASE k < inIndex
        <4>1. k \in 0 .. inIndex - 1 /\ k \notin inIndex .. inIndex + EPB - 1
          BY <1>1, <3>1, Sizes DEF Slots
        <4> QED
          BY <1>1, <1>3, <1>5, <4>1 DEF InStep, accelRdBlkDone, SignalInv
      <3>2. CASE k >= inIndex
        <4>1. k \in inIndex .. inIndex + EPB - 1 /\ k - inIndex \in 0 .. EPB - 1
          BY <1>1, <2>2, <3>2, Sizes DEF Slots
        <4>2. inBuf'[k] = accelBlk2Buffer[k - inIndex]
          BY <1>3, <1>5, <4>1 DEF InStep, accelRdBlkDone
        <4>3. EPB * sigBlk + (k - inIndex) = k
          BY <1>1, <2>1, Sizes DEF Slots
        <4> QED
          BY <4>1, <4>2, <4>3 DEF accelBlk2Buffer, Entry
      <3> QED
        BY <1>1, <3>1, <3>2, Sizes DEF Slots
    <2>3. inIndex' = inIndex + EPB \/ inIndex' = 0
      <3>1. inIndex' = EPB * ((sigOffset + 1) % NBLK)
        BY <1>1, <1>5, <2>1, InNext, BlockStep
      <3>2. (sigOffset + 1) % NBLK \in {0, sigOffset + 1}
        BY <1>1, ModStep, Sizes
      <3> QED
        BY <1>1, <2>1, <3>1, <3>2, Sizes
    <2>4. inIndex' \in 0 .. DEPTH - 1
      BY <1>1, <1>3, InType, WireTypes DEF TypeOK, Slots
    <2>5. \A k \in 0 .. inIndex' - 1 : inBuf'[k] = Entry(k)
      <3>0. inIndex' <= inIndex + EPB /\ inIndex + EPB \in Nat
        BY <1>1, <2>3, Sizes
      <3>1. \A k \in 0 .. inIndex' - 1 : k \in Slots /\ k < inIndex + EPB
        BY <2>4, <3>0, SlotsBelow
      <3> QED
        BY <2>2, <3>1
    <2>6. SignalBuffered'
      <3>1. inFull' => inIndex = DEPTH - EPB
        BY <1>1, <1>5, <2>1, InNext
      <3>2. inFull' => \A k \in Slots : k < inIndex + EPB
        BY <3>1, Sizes DEF Slots
      <3> QED
        BY <2>2, <3>2 DEF SignalBuffered, Entry
    <2> QED
      BY <1>2, <2>5, <2>6 DEF SignalInv, Entry
  <1> QED
    BY <1>4, <1>5

LEMMA DrainStep ==
  ASSUME IInv, NEW tx_done, NEW rd_valid, Clock(tx_done, rd_valid), rd_valid = AwaitsData
  PROVE  DrainInv'
  <1>1. /\ TypeOK /\ DrainInv /\ OutFullInv /\ OutFullInv'
        /\ outIndex \in 0 .. DEPTH - 1
        /\ outLoadDone \in BOOLEAN /\ outFull \in BOOLEAN
        /\ outBuf \in [Slots -> Cell] /\ ram \in [Slots -> Cell]
    BY OutFullStep DEF IInv, CacheInv, AccelInv, TypeOK, FftTypeOK, Slots
  <1>2. /\ OutStep(loadOutBuffer, ram[loadFifoCounter], accelWrBlkDone)
        /\ LoadFifoCounter /\ RamStep
    BY DEF Clock, FftStep
  <1>3. CASE ctl = "LOADOUT" /\ ~outFull
    <2>1. loadOutBuffer /\ ~outLoadDone /\ ctl' = "LOADOUT" /\ ram' = ram
      BY <1>1, <1>2, <1>3, CtlNext DEF loadOutBuffer, DrainInv, RamStep, loadExternal,
                                       loadInternal, CalcStates
    <2>2. /\ outIndex' = IF outIndex = DEPTH - 1 THEN 0 ELSE outIndex + 1
          /\ loadFifoCounter' = outIndex'
      <3>1. outIndex' = (outIndex + 1) % DEPTH
        BY <1>2, <2>1 DEF OutStep
      <3>2. outIndex' = IF outIndex = DEPTH - 1 THEN 0 ELSE outIndex + 1
        BY <1>1, <3>1, ModStep, Sizes
      <3>3. loadFifoCounter' = IF outIndex = DEPTH - 1 THEN 0 ELSE outIndex + 1
        BY <1>1, <1>2, <2>1 DEF LoadFifoCounter, SlotCounter, DrainInv
      <3> QED
        BY <3>2, <3>3
    <2>3. /\ outLoadDone' <=> outIndex = DEPTH - 1
          /\ outFull' <=> outIndex = DEPTH - 1
      BY <1>1, <1>2, <1>3, <2>1
         DEF OutStep, OneOf, LoadFifoCounter, SlotCounter, DrainInv
    <2>4. outBuf' = [outBuf EXCEPT ![outIndex] = ram[outIndex]]
      BY <1>1, <1>2, <2>1 DEF OutStep, DrainInv
    <2>5. ASSUME NEW k \in 0 .. outIndex PROVE outBuf'[k] = ram'[k]
      <3>1. k \in Slots /\ (k = outIndex \/ k \in 0 .. outIndex - 1)
        BY <1>1, Sizes DEF Slots
      <3> QED
        BY <1>1, <2>1, <2>4, <3>1 DEF DrainInv
    <2>6. \A k \in 0 .. outIndex' - 1 : outBuf'[k] = ram'[k]
      <3>1. 0 .. outIndex' - 1 \subseteq 0 .. outIndex
        BY <1>1, <2>2
      <3> QED
        BY <2>5, <3>1
    <2>7. outFull' => outBuf' = ram'
      <3>1. ASSUME outIndex = DEPTH - 1 PROVE \A k \in Slots : outBuf'[k] = ram'[k]
        BY <2>5, <3>1 DEF Slots
      <3>2. outBuf' \in [Slots -> Cell] /\ ram' \in [Slots -> Cell]
        BY <1>1, <2>1, <2>4
      <3> QED
        BY <2>3, <3>1, <3>2
    <2>8. outFull' => outIndex' = 0
      BY <2>2, <2>3
    <2> QED
      BY <2>1, <2>2, <2>3, <2>6, <2>7, <2>8 DEF DrainInv
  <1>4. CASE ~(ctl = "LOADOUT" /\ ~outFull)
    <2>1. ~loadOutBuffer /\ outIndex = 0 /\ loadFifoCounter = 0 /\ DEPTH - 1 # 0
      BY <1>1, <1>4, Sizes DEF loadOutBuffer, DrainInv
    <2>2. outIndex' = 0 /\ outBuf' = outBuf
      BY <1>2, <2>1 DEF OutStep
    <2>3. loadFifoCounter' = 0 /\ ~outLoadDone'
      BY <1>1, <1>2, <2>1 DEF LoadFifoCounter, SlotCounter
    <2>4. outFull' => outFull /\ ctl \in {"LOADOUT", "DONE"}
      BY <1>1, <2>1, OutNext DEF OutFullInv
    <2>5. outFull' => outBuf' = ram'
      BY <1>1, <1>2, <2>2, <2>4 DEF DrainInv, RamStep, loadExternal, loadInternal, CalcStates
    <2> QED
      BY <2>2, <2>3, <2>5 DEF DrainInv
  <1> QED
    BY <1>3, <1>4

LEMMA StutterCache == ASSUME CacheInv, UNCHANGED vars PROVE CacheInv'
  <1>1. FetchInv' /\ StageInv' /\ DataInv' /\ WriteBackInv'
    BY DEF CacheInv, FetchInv, StageInv, DataInv, WriteBackInv, cacheMissFetch, memRead,
           memWrite, evict, miss, hit, aluResult, vars, arbVars, msVars, cpuVars, hostVars
  <1> QED
    BY <1>1, StutterTypes DEF CacheInv

LEMMA StutterAccel == ASSUME AccelInv, UNCHANGED vars PROVE AccelInv'
  BY DEF AccelInv, AccelRdInv, AccelWrInv, OffsetInv, OutFullInv, InFullInv,
         LoadCounterInv, SignalInv, SignalBuffered, DrainInv, vars, arbVars, fftVars,
         counterVars, inVars, outVars, hostVars

LEMMA NextCache == ASSUME CacheInv, [Next]_vars PROVE CacheInv'
  <1>1. ASSUME NEW tx_done, NEW rd_valid, Clock(tx_done, rd_valid) PROVE CacheInv'
    BY <1>1, ClockTypes, FetchStep, StageStep, DataStep, WriteBackStep DEF CacheInv
  <1> QED
    BY <1>1, StutterCache DEF Next, Tick, Answer

(* The controller of the testbench delivers a block in the cycle after     *)
(* tx_done, never later.                                                   *)
LEMMA PromptAnswer ==
  ASSUME RdLatency = {TRUE}, Next
  PROVE  \E tx_done, rd_valid \in BOOLEAN :
           Clock(tx_done, rd_valid) /\ rd_valid = AwaitsData
  <1>1. AwaitsData \in BOOLEAN
    BY DEF AwaitsData
  <1>2. CASE Tick
    <2>1. PICK rd_valid \in (IF AwaitsData THEN RdLatency ELSE {FALSE}) : Clock(FALSE, rd_valid)
      BY <1>2 DEF Tick
    <2>2. rd_valid = AwaitsData /\ rd_valid \in BOOLEAN
      BY <1>1, <2>1
    <2> QED
      BY <2>1, <2>2
  <1>3. CASE Answer
    <2>1. ~AwaitsData /\ Clock(TRUE, FALSE)
      BY <1>3 DEF Answer, op, ReadStates, WriteStates, AwaitsData
    <2> QED
      BY <1>1, <2>1
  <1> QED
    BY <1>2, <1>3 DEF Next

LEMMA NextAccel ==
  ASSUME RdLatency = {TRUE}, IInv, [Next]_vars
  PROVE  AccelInv'
  <1>1. ASSUME NEW tx_done, NEW rd_valid, Clock(tx_done, rd_valid), rd_valid = AwaitsData
        PROVE  AccelInv'
    <2>1. CacheInv
      BY DEF IInv
    <2> QED
      BY <1>1, <2>1, AccelRdStep, AccelWrStep, OffsetStep, OutFullStep, InFullStep,
         LoadCounterStep, SignalStep, DrainStep DEF AccelInv
  <1>2. CASE UNCHANGED vars
    BY <1>2, StutterAccel DEF IInv
  <1> QED
    BY <1>1, <1>2, PromptAnswer

-----------------------------------------------------------------------------
(* The theorems *)

(* Fetch, memory stage, data cache and arbiter agree on who waits for what *)
(* in every reachable state, however slowly the controller answers.        *)
THEOREM CacheInvariant == Spec => []CacheInv
  <1>1. Init => CacheInv
    BY InitInv DEF IInv
  <1> QED
    BY <1>1, NextCache, PTL DEF Spec

(* With the testbench's controller the accelerator, its buffers and the    *)
(* arbiter's block counter are in step too.                                *)
THEOREM Invariant ==
  ASSUME RdLatency = {TRUE}
  PROVE  Spec => []IInv
  <1>1. ASSUME IInv, [Next]_vars PROVE IInv'
    BY <1>1, NextCache, NextAccel DEF IInv
  <1> QED
    BY <1>1, InitInv, PTL DEF Spec

(* The victim of a write-back is what the memory stage drives, for every   *)
(* controller.                                                             *)
THEOREM VictimDriven == Spec => []VictimOnBus
  <1>1. CacheInv => VictimOnBus
    BY DEF CacheInv, DataInv, StageInv, VictimOnBus
  <1> QED
    BY <1>1, CacheInvariant, PTL

(* No load or store is passed before the memory stage completed it.        *)
THEOREM AccessesComplete == Spec => AccessBeforeAdvance
  <1>1. ASSUME CacheInv, [Next]_vars, Retires(calculating, stall)
        PROVE  (memRead => LoadCompletes) /\ (memWrite => StoreCompletes)
    <2>1. ~stall /\ StageInv /\ msState \in MsStates
      BY <1>1 DEF CacheInv, TypeOK, MsTypeOK, Retires, stallPC
    <2> QED
      BY <2>1 DEF StageInv, MsStates, stall, stallDMAMem, memRead, memWrite, LoadCompletes,
                  StoreCompletes, miss, EvictStates, LoadStates, WaitStates
  <1> QED
    BY <1>1, CacheInvariant, PTL DEF Spec, AccessBeforeAdvance

(* A dirty line is replaced only after the host holds its data.            *)
THEOREM DirtyKept == Spec => DirtyNeverDropped
  <1>1. ASSUME CacheInv, [Next]_vars, NEW i \in 0 .. LINES - 1,
               lines[i].dirty, lines'[i].tag # lines[i].tag
        PROVE  host[AddrAligned(aluResult)] = lines[i].data
    <2>1. /\ WriteBackInv /\ lines \in [0 .. LINES - 1 -> Line]
          /\ Index(aluResult) \in 0 .. LINES - 1
      BY <1>1, InstrTypes, AddressTypes DEF CacheInv, TypeOK, MsTypeOK
    <2>2. PICK tx_done, rd_valid : Clock(tx_done, rd_valid)
      BY <1>1 DEF Next, Tick, Answer, vars, msVars
    <2>3. MsStep(memRead, memWrite, aluResult, instr.val, dataEvictAck, mcDataIn,
                 dataBlk2CacheValid(rd_valid))
      BY <2>2 DEF Clock
    <2>4. lines' # lines
      BY <1>1
    <2>5. ~WriteCache(aluResult, instr.val)
      <3>1. Written(lines[Index(aluResult)], Offset(aluResult), instr.val).tag
              = lines[Index(aluResult)].tag
        BY <2>1 DEF Written, Line
      <3> QED
        BY <1>1, <2>1, <3>1 DEF WriteCache
    <2>6. \E from, to : /\ Load(from, to, aluResult, mcDataIn, dataBlk2CacheValid(rd_valid))
                        /\ from \in LoadStates
      BY <2>3, <2>4, <2>5
         DEF MsStep, Begin, ReadCache, EvictRd, EvictWr, LoadRd, LoadWr, WaitRd, WaitWr,
             Evict, Wait, LoadStates
    <2>7. msState \in LoadStates /\ i = Index(aluResult)
      BY <1>1, <2>1, <2>6 DEF Load
    <2> QED
      BY <1>1, <2>1, <2>7 DEF WriteBackInv
  <1>2. ASSUME CacheInv, [Next]_vars
        PROVE  \A i \in 0 .. LINES - 1 :
                 lines[i].dirty /\ lines'[i].tag # lines[i].tag =>
                   host[AddrAligned(aluResult)] = lines[i].data
    BY <1>1, <1>2
  <1> QED
    BY <1>2, CacheInvariant, PTL DEF Spec, DirtyNeverDropped

(* The arbiter works for the party that is waiting for it.                 *)
THEOREM ServiceMatches ==
  ASSUME RdLatency = {TRUE}
  PROVE  Spec => []ServiceMatchesRequest
  <1>1. IInv => ServiceMatchesRequest
    BY DEF IInv, CacheInv, AccelInv, FetchInv, DataInv, AccelRdInv, AccelWrInv,
           ServiceMatchesRequest
  <1> QED
    BY <1>1, Invariant, PTL

(* Every start pulse finds the arbiter idle, so no transform is lost.      *)
THEOREM StartsServed ==
  ASSUME RdLatency = {TRUE}
  PROVE  Spec => StartNeverLost
  <1>1. ASSUME IInv, [Next]_vars, startPulse
        PROVE  \/ currState' = "ACCEL_RD" /\ ctl' \in IdleLoadStates
               \/ UNCHANGED vars
    <2>1. ctl = "IDLE" /\ ~cacheMissFetch /\ ~memRead /\ ~memWrite
      BY <1>1 DEF startPulse, startF, startI, calculating, cacheMissFetch, memRead, memWrite
    <2>2. currState \notin {"INIT", "INSTR_RD", "INSTR_RD_DONE"}
      BY <1>1, <2>1 DEF IInv, CacheInv, FetchInv
    <2>3. currState \notin {"DATA_RD", "DATA_RD_DONE", "DATA_WR", "DATA_WR_DONE"}
      BY <1>1, <2>1 DEF IInv, CacheInv, DataInv, StageInv, LoadStates, EvictStates
    <2>4. currState \notin {"ACCEL_RD", "ACCEL_RD_DONE", "ACCEL_WR", "ACCEL_WR_DONE"}
      BY <1>1, <2>1 DEF IInv, AccelInv, AccelRdInv, AccelWrInv, IdleLoadStates
    <2>5. currState = "IDLE" /\ TypeOK
      BY <1>1, <2>2, <2>3, <2>4 DEF IInv, CacheInv, TypeOK, ArbTypeOK, ArbStates
    <2>6. CASE Next
      <3>1. PICK tx_done, rd_valid : Clock(tx_done, rd_valid) /\ rd_valid = AwaitsData
        BY <2>6, PromptAnswer
      <3> QED
        BY <1>1, <2>1, <2>5, <3>1, ArbNext, CtlNext
    <2> QED
      BY <1>1, <2>6
  <1> QED
    BY <1>1, Invariant, PTL DEF Spec, StartNeverLost

(* The signal number stays put while the accelerator works on it.          *)
THEOREM SignalHeld == Spec => SigNumHeld
  <1>1. ASSUME TypeOK, [Next]_vars, calculating, calculating'
        PROVE  sigNumMC' = sigNumMC
    <2>1. CASE UNCHANGED vars
      BY <2>1 DEF vars, fftVars, counterVars
    <2>2. CASE Next
      <3>1. PICK tx_done, rd_valid : Clock(tx_done, rd_valid)
        BY <2>2 DEF Next, Tick, Answer
      <3>2. ~aDone(transformComplete)
        BY <1>1, <3>1, CtlNext DEF aDone, calculating
      <3>3. ~startPulse
        BY <1>1 DEF startPulse, startF, startI
      <3> QED
        BY <3>1, <3>2, <3>3 DEF Clock, FftStep, SigNumReg, startPulse
    <2> QED
      BY <1>1, <2>1, <2>2
  <1> QED
    BY <1>1, TypeCorrect, PTL DEF Spec, SigNumHeld

(* The shared block counter is the block the buffer's own index is at, and *)
(* rests at zero between transfers.                                        *)
THEOREM OffsetsAgree ==
  ASSUME RdLatency = {TRUE}
  PROVE  Spec => []OffsetsInStep
  <1>1. IInv => OffsetsInStep
    BY DEF IInv, AccelInv, AccelRdInv, AccelWrInv, OffsetInv, OffsetsInStep
  <1> QED
    BY <1>1, Invariant, PTL

(* The input buffer is not filled while it is being emptied.               *)
THEOREM FillsWhenEmpty ==
  ASSUME RdLatency = {TRUE}
  PROVE  Spec => []NoFillWhileEmptying
  <1>1. IInv => NoFillWhileEmptying
    BY DEF IInv, AccelInv, AccelRdInv, InFullInv, NoFillWhileEmptying, accelRdBlkDone,
           IdleLoadStates
  <1> QED
    BY <1>1, Invariant, PTL

(* A full input buffer holds the whole signal in order.                    *)
THEOREM SignalComplete ==
  ASSUME RdLatency = {TRUE}
  PROVE  Spec => []SignalBuffered
  <1>1. IInv => SignalBuffered
    BY DEF IInv, AccelInv, SignalInv
  <1> QED
    BY <1>1, Invariant, PTL

(* What is written back is the RAM, slot by slot.                          *)
THEOREM ResultComplete ==
  ASSUME RdLatency = {TRUE}
  PROVE  Spec => []WriteBackInOrder
  <1>1. IInv => WriteBackInOrder
    BY DEF IInv, AccelInv, AccelWrInv, DrainInv, WriteBackInOrder
  <1> QED
    BY <1>1, Invariant, PTL

-----------------------------------------------------------------------------
(* The memory the program sees *)

(* Addresses of one block share its line, its tag and its place in host.   *)
LEMMA BlockAddresses ==
  ASSUME NEW a \in Addrs, NEW b \in Addrs, BlockOf(a) = BlockOf(b)
  PROVE  /\ Index(a) = Index(b)
         /\ Tag(a) = Tag(b)
         /\ AddrAligned(a) = AddrAligned(b)
         /\ Offset(a) = Offset(b) => a = b
  <1>1. a \in Nat /\ b \in Nat /\ WORDS \in Nat \ {0} /\ LINES \in Nat \ {0}
    BY ParamsAssumption, MemStageAssumption
  <1>2. \A x \in Nat : x \div (WORDS * LINES) = (x \div WORDS) \div LINES
    BY <1>1, Nested
  <1>3. Offset(a) = Offset(b) => a = b
    BY <1>1, Divides DEF Offset, BlockOf
  <1> QED
    BY <1>1, <1>2, <1>3 DEF Index, Tag, AddrAligned, BlockOf

(* Every address of a block in use names the same line, and a valid line   *)
(* is a hit.                                                               *)
LEMMA OneBlockALine ==
  ASSUME NoSharedLine, LinesInv, TypeOK, NEW a \in Addrs
  PROVE  /\ hit(a) = lines[Index(a)].valid
         /\ ~evict(a)
  <1>1. Index(a) \in 0 .. LINES - 1 /\ lines[Index(a)] \in Line
    BY AddressTypes DEF TypeOK, MsTypeOK
  <1>2. lines[Index(a)].valid => lines[Index(a)].tag = Tag(a)
    <2>1. ASSUME lines[Index(a)].valid PROVE lines[Index(a)].tag = Tag(a)
      <3>1. PICK b \in Addrs : Index(b) = Index(a) /\ Tag(b) = lines[Index(a)].tag
        BY <1>1, <2>1 DEF LinesInv
      <3>2. BlockOf(b) = BlockOf(a)
        BY <3>1 DEF NoSharedLine
      <3> QED
        BY <3>1, <3>2, BlockAddresses
    <2> QED
      BY <2>1
  <1>3. lines[Index(a)].valid \in BOOLEAN
    BY <1>1 DEF Line
  <1> QED
    BY <1>2, <1>3 DEF hit, evict, miss

(* What a clock edge may assume of the cache side, as plain facts: there   *)
(* is no write-back, host stays as it is, and so does the instruction of   *)
(* an access in progress.                                                  *)
LEMMA EdgeFacts ==
  ASSUME NoSharedLine, CacheInv, LinesInv, NEW tx_done, NEW rd_valid,
         Clock(tx_done, rd_valid)
  PROVE  /\ aluResult \in Addrs /\ aluResult' \in Addrs
         /\ Index(aluResult) \in 0 .. LINES - 1
         /\ lines \in [0 .. LINES - 1 -> Line]
         /\ ~evict(aluResult)
         /\ ~(currState \in {"DATA_WR", "DATA_WR_DONE"})
         /\ host' = host
         /\ msState' # "IDLE" => aluResult' = aluResult
         /\ MsStep(memRead, memWrite, aluResult, instr.val, FALSE, mcDataIn,
                   dataBlk2CacheValid(rd_valid))
  <1>1. TypeOK /\ TypeOK' /\ DataInv
    BY NextCache, ClockTypes DEF CacheInv
  <1>2. aluResult \in Addrs /\ aluResult' \in Addrs
    <2>1. aluResult \in Addrs
      BY <1>1, InstrTypes DEF TypeOK
    <2>2. instr' \in Program \cup {MissInstr}
      BY <1>1 DEF TypeOK, CpuTypeOK
    <2>3. \A i \in Program \cup {MissInstr} : i.addr \in Addrs
      BY CpuAssumption, ParamsAssumption DEF Instr, MissInstr
    <2> QED
      BY <2>1, <2>2, <2>3 DEF aluResult
  <1>3. ~(currState \in {"DATA_WR", "DATA_WR_DONE"})
    BY <1>1 DEF DataInv, LinesInv
  <1>4. host' = host /\ dataEvictAck = FALSE
    BY <1>3 DEF Clock, HostStep, dataEvictAck
  <1>5. msState' # "IDLE" => aluResult' = aluResult
    BY HeldInstr DEF aluResult
  <1>6. MsStep(memRead, memWrite, aluResult, instr.val, FALSE, mcDataIn,
               dataBlk2CacheValid(rd_valid))
    BY <1>4 DEF Clock
  <1> QED
    BY <1>1, <1>2, <1>3, <1>4, <1>5, <1>6, OneBlockALine, AddressTypes DEF TypeOK, MsTypeOK

(* The memory stage's edge, one case for each thing that can happen to a   *)
(* line when nothing is evicted.                                           *)
LEMMA LineEdge ==
  ASSUME NoSharedLine, CacheInv, LinesInv, NEW tx_done, NEW rd_valid,
         Clock(tx_done, rd_valid)
  PROVE  \/ /\ lines' = lines
            /\ ~(msState \in LoadStates) /\ ~(msState' \in LoadStates \cup EvictStates)
            /\ ~StoreCompletes
         \/ /\ lines' = lines
            /\ msState \in {"READ", "WRITE"} /\ ~hit(aluResult) /\ msState' \in LoadStates
         \/ /\ StoreCompletes /\ msState' = "IDLE"
            /\ lines' = [lines EXCEPT ![Index(aluResult)] =
                           Written(@, Offset(aluResult), instr.val)]
         \/ /\ msState \in LoadStates
            /\ msState' \in IF dataBlk2CacheValid(rd_valid) THEN WaitStates ELSE LoadStates
            /\ lines' = [lines EXCEPT ![Index(aluResult)] =
                           [valid |-> TRUE, dirty |-> FALSE, tag |-> Tag(aluResult),
                            data |-> mcDataIn]]
  <1> USE EdgeFacts DEF MsGoto, LoadStates, EvictStates, WaitStates
  <1>1. MsStep(memRead, memWrite, aluResult, instr.val, FALSE, mcDataIn,
               dataBlk2CacheValid(rd_valid)) /\ ~evict(aluResult)
        /\ ~(msState \in {"EVICT_RD", "EVICT_WR"})
    BY DEF LinesInv
  <1>2. CASE ReadCache(aluResult) \/ WriteCache(aluResult, instr.val)
    BY <1>1, <1>2 DEF ReadCache, WriteCache, StoreCompletes
  <1>3. CASE \/ LoadRd(aluResult, mcDataIn, dataBlk2CacheValid(rd_valid))
             \/ LoadWr(aluResult, mcDataIn, dataBlk2CacheValid(rd_valid))
    BY <1>3 DEF LoadRd, LoadWr, Load
  <1>4. CASE Begin(memRead, memWrite) \/ WaitRd \/ WaitWr
    BY <1>4 DEF Begin, WaitRd, WaitWr, Wait, StoreCompletes
  <1> QED
    BY <1>1, <1>2, <1>3, <1>4 DEF MsStep, EvictRd, EvictWr, Evict

LEMMA LinesStep ==
  ASSUME NoSharedLine, CacheInv, LinesInv, NEW tx_done, NEW rd_valid,
         Clock(tx_done, rd_valid)
  PROVE  LinesInv'
  <1>1. /\ aluResult \in Addrs /\ Index(aluResult) \in 0 .. LINES - 1
        /\ lines \in [0 .. LINES - 1 -> Line]
        /\ host' = host
        /\ ~(currState \in {"DATA_WR", "DATA_WR_DONE"})
        /\ msState' # "IDLE" => aluResult' = aluResult
    BY EdgeFacts
  <1>2. ASSUME NEW i \in 0 .. LINES - 1, lines'[i].valid
        PROVE  \E a \in Addrs : Index(a) = i /\ Tag(a) = lines'[i].tag
    <2>1. CASE lines' = lines
      BY <1>2, <2>1 DEF LinesInv
    <2>2. CASE lines' = [lines EXCEPT ![Index(aluResult)] =
                           Written(@, Offset(aluResult), instr.val)]
      <3>1. /\ Written(lines[Index(aluResult)], Offset(aluResult), instr.val).tag
                 = lines[Index(aluResult)].tag
            /\ Written(lines[Index(aluResult)], Offset(aluResult), instr.val).valid
                 = lines[Index(aluResult)].valid
        BY <1>1 DEF Written, Line
      <3>2. lines'[i].tag = lines[i].tag /\ lines[i].valid
        BY <1>1, <1>2, <2>2, <3>1
      <3> QED
        BY <3>2 DEF LinesInv
    <2>3. CASE lines' = [lines EXCEPT ![Index(aluResult)] =
                           [valid |-> TRUE, dirty |-> FALSE, tag |-> Tag(aluResult),
                            data |-> mcDataIn]]
      <3>1. CASE i = Index(aluResult)
        BY <1>1, <2>3, <3>1
      <3>2. CASE i # Index(aluResult)
        BY <1>1, <1>2, <2>3, <3>2 DEF LinesInv
      <3> QED
        BY <3>1, <3>2
    <2> QED
      BY <2>1, <2>2, <2>3, LineEdge
  <1>3. ~(msState' \in EvictStates)
    BY LineEdge DEF EvictStates, LoadStates, WaitStates
  <1>4. ASSUME currState' = "DATA_RD_DONE"
        PROVE  bus' = host'[AddrAligned(aluResult)']
    <2>1. DataInv' /\ DataInv
      BY NextCache, DataStep DEF CacheInv
    <2>2. msState' # "IDLE"
      BY <1>4, <2>1 DEF DataInv, LoadStates
    <2>3. AddrAligned(aluResult)' = AddrAligned(aluResult)
      BY <1>1, <2>2 DEF AddrAligned
    <2>4. ArbStep(Request, tx_done, rd_valid) /\ HostStep(tx_done)
      BY DEF Clock
    <2>5. \/ currState = "DATA_RD" /\ tx_done
          \/ currState = "DATA_RD_DONE"
      BY <1>4, <2>4
         DEF ArbStep, ArbStart, GrantAccel, GrantData, GrantInstr, NoRequest, InstrRd,
             InstrRdDone, DataRd, DataRdDone, DataWr, DataWrDone, AccelRd, AccelRdDone,
             AccelWr, AccelWrDone, Transfer, Goto
    <2> QED
      BY <1>1, <2>3, <2>4, <2>5 DEF HostStep, LinesInv
  <1> QED
    BY <1>2, <1>3, <1>4 DEF LinesInv

LEMMA LinesStutter == ASSUME LinesInv, UNCHANGED vars PROVE LinesInv'
  BY DEF LinesInv, aluResult, vars, arbVars, msVars, cpuVars, hostVars

(* The word at an address, as MemOf maps it.                               *)
Word(a) == IF Cached(a) THEN lines[Index(a)].data[Offset(a)]
           ELSE host[AddrAligned(a)][Offset(a)]

(* A clock edge changes the word at an address only if it completes a      *)
(* store there.                                                            *)
LEMMA WordStep ==
  ASSUME NoSharedLine, CacheInv, LinesInv, NEW tx_done, NEW rd_valid,
         Clock(tx_done, rd_valid), NEW a \in Addrs
  PROVE  Word(a)' = IF StoreCompletes /\ a = aluResult THEN instr.val ELSE Word(a)
  <1>1. /\ aluResult \in Addrs /\ aluResult' \in Addrs
        /\ Index(aluResult) \in 0 .. LINES - 1
        /\ lines \in [0 .. LINES - 1 -> Line]
        /\ host' = host
        /\ msState' # "IDLE" => aluResult' = aluResult
    BY EdgeFacts
  <1>2. /\ Index(a) \in 0 .. LINES - 1 /\ Offset(a) \in 0 .. WORDS - 1
        /\ Offset(aluResult) \in 0 .. WORDS - 1
        /\ lines[Index(a)] \in Line
    BY <1>1, AddressTypes
  <1>3. /\ hit(a) = lines[Index(a)].valid
        /\ hit(a)' = lines'[Index(a)].valid
    <2>1. LinesInv' /\ TypeOK /\ TypeOK'
      BY LinesStep, NextCache, ClockTypes DEF CacheInv
    <2>2. hit(a) = lines[Index(a)].valid
      BY <2>1, OneBlockALine
    <2>3. hit(a)' = lines'[Index(a)].valid
      <3>1. lines'[Index(a)].valid => lines'[Index(a)].tag = Tag(a)
        <4>1. ASSUME lines'[Index(a)].valid PROVE lines'[Index(a)].tag = Tag(a)
          <5>1. PICK b \in Addrs : Index(b) = Index(a) /\ Tag(b) = lines'[Index(a)].tag
            BY <1>2, <2>1, <4>1 DEF LinesInv
          <5>2. BlockOf(b) = BlockOf(a)
            BY <5>1 DEF NoSharedLine
          <5> QED
            BY <5>1, <5>2, BlockAddresses
        <4> QED
          BY <4>1
      <3>2. lines'[Index(a)].valid \in BOOLEAN
        BY <1>2, <2>1 DEF TypeOK, MsTypeOK, Line
      <3> QED
        BY <3>1, <3>2 DEF hit
    <2> QED
      BY <2>2, <2>3
  <1>4. Index(a) = Index(aluResult) =>
          /\ AddrAligned(a) = AddrAligned(aluResult)
          /\ Offset(a) = Offset(aluResult) => a = aluResult
    BY <1>1, BlockAddresses DEF NoSharedLine
  <1>5. Word(a)' = IF Cached(a)' THEN lines'[Index(a)].data[Offset(a)]
                   ELSE host[AddrAligned(a)][Offset(a)]
    BY <1>1 DEF Word
  <1>6. CASE /\ lines' = lines
             /\ ~(msState \in LoadStates) /\ ~(msState' \in LoadStates \cup EvictStates)
             /\ ~StoreCompletes
    <2>1. (Cached(a) <=> hit(a)) /\ (Cached(a)' <=> hit(a))
      BY <1>3, <1>6 DEF Cached
    <2> QED
      BY <1>5, <1>6, <2>1 DEF Word
  <1>7. CASE /\ lines' = lines
             /\ msState \in {"READ", "WRITE"} /\ ~hit(aluResult) /\ msState' \in LoadStates
    <2>1. ~StoreCompletes /\ aluResult' = aluResult
      BY <1>1, <1>7 DEF StoreCompletes, LoadStates
    <2>2. Cached(a) <=> hit(a)
      BY <1>7 DEF Cached, LoadStates
    <2>3. Cached(a)' <=> (hit(a) /\ Index(a) # Index(aluResult))
      BY <1>3, <1>7, <2>1 DEF Cached
    <2>4. Index(a) = Index(aluResult) => ~hit(a)
      BY <1>1, <1>3, <1>7, OneBlockALine DEF CacheInv
    <2> QED
      BY <1>5, <1>7, <2>1, <2>2, <2>3, <2>4 DEF Word
  <1>8. CASE /\ StoreCompletes /\ msState' = "IDLE"
             /\ lines' = [lines EXCEPT ![Index(aluResult)] =
                            Written(@, Offset(aluResult), instr.val)]
    <2> DEFINE line == lines[Index(aluResult)]
               new == Written(line, Offset(aluResult), instr.val)
    <2>1. line \in Line /\ hit(aluResult)
      BY <1>1, <1>8 DEF StoreCompletes
    <2>2. /\ new.valid = line.valid
          /\ new.data[Offset(a)] = IF Offset(a) = Offset(aluResult) THEN instr.val
                                   ELSE line.data[Offset(a)]
      BY <1>2, <2>1 DEF Written, Line, Block
    <2>3. (Cached(a) <=> hit(a)) /\ (Cached(a)' <=> hit(a)')
      BY <1>8 DEF Cached, StoreCompletes, LoadStates
    <2> HIDE DEF new
    <2>4. CASE Index(a) = Index(aluResult)
      <3>1. lines'[Index(a)] = new
        BY <1>1, <1>8, <2>4 DEF new
      <3>2. hit(a) /\ hit(a)'
        BY <1>1, <1>3, <2>1, <2>2, <2>4, <3>1, OneBlockALine DEF CacheInv
      <3>3. Word(a)' = new.data[Offset(a)] /\ Word(a) = line.data[Offset(a)]
        BY <1>5, <2>3, <2>4, <3>1, <3>2 DEF Word
      <3>4. a = aluResult <=> Offset(a) = Offset(aluResult)
        BY <1>4, <2>4
      <3> QED
        BY <1>8, <2>2, <3>3, <3>4
    <2>5. CASE Index(a) # Index(aluResult)
      <3>1. lines'[Index(a)] = lines[Index(a)] /\ a # aluResult
        BY <1>1, <1>2, <1>8, <2>5
      <3> QED
        BY <1>3, <1>5, <2>3, <3>1 DEF Word
    <2> QED
      BY <2>4, <2>5
  <1>9. CASE /\ msState \in LoadStates
             /\ msState' \in IF dataBlk2CacheValid(rd_valid) THEN WaitStates ELSE LoadStates
             /\ lines' = [lines EXCEPT ![Index(aluResult)] =
                            [valid |-> TRUE, dirty |-> FALSE, tag |-> Tag(aluResult),
                             data |-> mcDataIn]]
    <2> DEFINE new == [valid |-> TRUE, dirty |-> FALSE, tag |-> Tag(aluResult),
                       data |-> mcDataIn]
    <2>1. ~StoreCompletes /\ msState' # "IDLE" /\ aluResult' = aluResult
      BY <1>1, <1>9 DEF StoreCompletes, LoadStates, WaitStates
    <2>2. new.valid = TRUE /\ new.data = mcDataIn
      OBVIOUS
    <2> HIDE DEF new
    <2>3. CASE Index(a) = Index(aluResult)
      <3>1. ~Cached(a)
        BY <1>9, <2>3 DEF Cached
      <3>2. CASE ~dataBlk2CacheValid(rd_valid)
        <4>1. ~Cached(a)'
          BY <1>9, <2>1, <2>3, <3>2 DEF Cached
        <4> QED
          BY <1>5, <2>1, <3>1, <4>1 DEF Word
      <3>3. CASE dataBlk2CacheValid(rd_valid)
        <4>1. lines'[Index(a)] = new
          BY <1>1, <1>9, <2>3 DEF new
        <4>2. Cached(a)'
          BY <1>3, <1>9, <2>2, <3>3, <4>1 DEF Cached, WaitStates, LoadStates
        <4>3. mcDataIn = host[AddrAligned(a)]
          BY <1>4, <2>3, <3>3 DEF dataBlk2CacheValid, mcDataIn, LinesInv
        <4> QED
          BY <1>5, <2>1, <2>2, <3>1, <4>1, <4>2, <4>3 DEF Word
      <3> QED
        BY <3>2, <3>3
    <2>4. CASE Index(a) # Index(aluResult)
      <3>1. lines'[Index(a)] = lines[Index(a)]
        BY <1>1, <1>2, <1>9, <2>4
      <3>2. (Cached(a) <=> hit(a)) /\ (Cached(a)' <=> hit(a)')
        BY <2>1, <2>4 DEF Cached
      <3> QED
        BY <1>3, <1>5, <2>1, <3>1, <3>2 DEF Word
    <2> QED
      BY <2>3, <2>4
  <1> QED
    BY <1>6, <1>7, <1>8, <1>9, LineEdge

(* Cache, memory stage, arbiter and host are one memory to the program,    *)
(* whatever the controller's delays and the transfers of the accelerator,  *)
(* while no two blocks in use share a line.  With two that do they are     *)
(* not: a victim is written to the address of its successor.               *)
THEOREM CacheIsMemory ==
  ASSUME NoSharedLine
  PROVE  Spec => ActsAsMemory
  <1>1. ASSUME Init PROVE LinesInv /\ Abstract!MemoryInit
    <2>1. LinesInv
      BY <1>1 DEF Init, ArbInit, MsInit, LinesInv, EvictStates
    <2>2. TypeOK
      BY <1>1, InitTypes
    <2>3. ASSUME NEW a \in Addrs PROVE ~Cached(a) /\ host[AddrAligned(a)][Offset(a)] \in Values
      <3>1. Index(a) \in 0 .. LINES - 1 /\ Offset(a) \in 0 .. WORDS - 1
        BY AddressTypes
      <3>2. AddrAligned(a) \in 0 .. 1
        <4>1. (a \div WORDS) * WORDS \in Nat
          BY ParamsAssumption
        <4> QED
          BY <4>1, ModRange DEF AddrAligned
      <3>3. host[AddrAligned(a)] \in Block
        BY <2>2, <3>2 DEF TypeOK
      <3> QED
        BY <1>1, <3>1, <3>3 DEF Init, MsInit, Cached, hit, Block
    <2>4. MemOf \in [Addrs -> Values] /\ retired = [opc |-> "NOP"]
      BY <1>1, <2>3 DEF MemOf, Init
    <2> QED
      BY <2>1, <2>4 DEF Abstract!MemoryInit
  <1>2. ASSUME CacheInv, LinesInv, NEW tx_done, NEW rd_valid, Clock(tx_done, rd_valid)
        PROVE  Abstract!MemoryNext \/ UNCHANGED <<MemOf, retired>>
    <2>1. /\ MemOf = [a \in Addrs |-> Word(a)]
          /\ MemOf' = [a \in Addrs |-> Word(a)']
      BY DEF MemOf, Word
    <2>2. \A a \in Addrs :
            Word(a)' = IF StoreCompletes /\ a = aluResult THEN instr.val ELSE Word(a)
      BY <1>2, WordStep
    <2>3. aluResult \in Addrs /\ instr.val \in Values
      BY <1>2, InstrTypes DEF CacheInv, TypeOK
    <2>4. Retire
      BY <1>2 DEF Clock
    <2>5. CASE StoreCompletes
      <3>1. ~LoadCompletes
        BY <2>5 DEF StoreCompletes, LoadCompletes
      <3>2. MemOf' = [MemOf EXCEPT ![aluResult] = instr.val]
        BY <2>1, <2>2, <2>3, <2>5
      <3>3. retired' = [opc |-> "ST", addr |-> aluResult, val |-> instr.val]
        BY <2>4, <2>5, <3>1 DEF Retire
      <3> QED
        BY <2>3, <3>2, <3>3 DEF Abstract!MemoryNext, Abstract!Store
    <2>6. CASE LoadCompletes
      <3>1. ~StoreCompletes
        BY <2>6 DEF StoreCompletes, LoadCompletes
      <3>2. MemOf' = MemOf
        BY <2>1, <2>2, <3>1
      <3>3. Cached(aluResult)
        BY <2>6 DEF LoadCompletes, Cached, LoadStates
      <3>4. MemOf[aluResult] = memoryOut
        BY <2>3, <3>3 DEF MemOf, memoryOut
      <3>5. retired' = [opc |-> "LD", addr |-> aluResult, val |-> MemOf[aluResult]]
        BY <2>4, <2>6, <3>4 DEF Retire
      <3> QED
        BY <2>3, <3>2, <3>5 DEF Abstract!MemoryNext, Abstract!Fetch
    <2>7. CASE ~StoreCompletes /\ ~LoadCompletes
      BY <2>1, <2>2, <2>4, <2>7 DEF Retire
    <2> QED
      BY <2>5, <2>6, <2>7
  <1>3. ASSUME CacheInv, LinesInv, [Next]_vars
        PROVE  LinesInv' /\ [Abstract!MemoryNext]_<<MemOf, retired>>
    <2>1. CASE UNCHANGED vars
      <3>1. UNCHANGED <<MemOf, retired>>
        BY <2>1 DEF MemOf, Cached, hit, aluResult, vars, msVars, cpuVars, hostVars
      <3> QED
        BY <1>3, <2>1, <3>1, LinesStutter
    <2>2. CASE Next
      BY <1>2, <1>3, <2>2, LinesStep DEF Next, Tick, Answer
    <2> QED
      BY <1>3, <2>1, <2>2
  <1>4. Init => LinesInv /\ Abstract!MemoryInit
    BY <1>1
  <1>5. CacheInv /\ LinesInv /\ [Next]_vars =>
          LinesInv' /\ [Abstract!MemoryNext]_<<MemOf, retired>>
    BY <1>3
  <1> QED
    BY <1>4, <1>5, CacheInvariant, PTL DEF Spec, ActsAsMemory, Abstract!MemorySpec
=============================================================================
