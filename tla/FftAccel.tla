------------------------------ MODULE FftAccel ------------------------------
(***************************************************************************)
(* The FFT accelerator: its control machine (FFTFiles/control.sv), the     *)
(* counters, RAM multiplexer and buffers that FFTFiles/fft_accel.sv wires  *)
(* around it, the RAM (FFTFiles/fft_ram.sv) and the addresses the butterfly *)
(* unit works on.  A RAM cell is not a complex number but what matters to  *)
(* data movement: which entry of the signal was loaded into it and how     *)
(* many butterflies it has been through since.                             *)
(***************************************************************************)
EXTENDS Params, ABuf, AddressGenerator

ASSUME FftAssumption == DEPTH = 2 ^ LOGN /\ DEPTH = 2 * HALF

VARIABLES
  ctl,                              \* state of control.sv
  cycleCount, stageCount, doneCalculating,
  loadRamCounter, loadExternalDone,
  loadFifoCounter, outLoadDone,
  sigNumMC,
  ram

counterVars == <<cycleCount, stageCount, doneCalculating, loadRamCounter,
                 loadExternalDone, loadFifoCounter, outLoadDone, sigNumMC>>
fftVars == <<ctl, counterVars, ram, inVars, outVars>>

CtlStates ==
  {"IDLE", "IDLE_LOADI", "IDLE_LOADF", "LOADI", "LOADF",
   "CALCULATINGF", "CALCULATINGI", "LOADOUT", "DONE"}

Cell == [src : Int, bf : Nat]
ResetCell == [src |-> -1, bf |-> 0]

FftTypeOK ==
  /\ ctl \in CtlStates
  /\ cycleCount \in 0 .. HALF - 1
  /\ stageCount \in 0 .. LOGN
  /\ doneCalculating \in BOOLEAN
  /\ loadRamCounter \in Slots
  /\ loadExternalDone \in BOOLEAN
  /\ loadFifoCounter \in Slots
  /\ outLoadDone \in BOOLEAN
  /\ sigNumMC \in SigNums
  /\ ram \in [Slots -> Cell]
  /\ inBuf \in [Slots -> Cell]
  /\ inIndex \in Slots
  /\ inOutIndex \in Slots
  /\ inFull \in BOOLEAN
  /\ inFullInt \in BOOLEAN
  /\ outBuf \in [Slots -> Cell]
  /\ outIndex \in Slots
  /\ outOutIndex \in Slots
  /\ outFull \in BOOLEAN

-----------------------------------------------------------------------------
(* Combinational outputs of the control machine *)

IdleLoadStates == {"IDLE_LOADF", "IDLE_LOADI"}
CalcStates == {"CALCULATINGF", "CALCULATINGI"}

calculating == ctl # "IDLE"

(* Mutant: the forward transform starts loading early as well.             *)
LoadEarly ==
  \/ ctl \in {"LOADF", "LOADI"}
  \/ ctl \in IdleLoadStates /\ inFull

(* The inverse transform already loads in the cycle that leaves IDLE_LOADI. *)
loadExternal ==
  \/ ctl \in {"LOADF", "LOADI"}
  \/ ctl = "IDLE_LOADI" /\ inFull

loadInternal == ctl \in CalcStates /\ ~doneCalculating
(* Mutant: the copy goes on after the buffer is full.                      *)
LoadOutAlways == ctl = "LOADOUT"

loadOutBuffer == ctl = "LOADOUT" /\ ~outFull
(* Mutant: the signal number is cleared before the write-back.             *)
DoneEarly(transformComplete_) == ctl = "DONE"

aDone(transformComplete_) == ctl = "DONE" /\ transformComplete_

-----------------------------------------------------------------------------
(* The control machine *)

CtlGoto(s) == ctl' = s

CtlIdle(startF, startI) ==
  /\ ctl = "IDLE"
  /\ CtlGoto(IF startF THEN "IDLE_LOADF" ELSE IF startI THEN "IDLE_LOADI" ELSE "IDLE")

AwaitSignal(from, to) == ctl = from /\ CtlGoto(IF inFull THEN to ELSE from)

(* Mutant: the load ends half way.                                         *)
LoadRamHalf(from, to) ==
  ctl = from /\ CtlGoto(IF loadRamCounter = HALF THEN to ELSE from)

LoadRam(from, to) == ctl = from /\ CtlGoto(IF loadExternalDone THEN to ELSE from)

Calculate(s) == ctl = s /\ CtlGoto(IF doneCalculating THEN "LOADOUT" ELSE s)

LoadOut == ctl = "LOADOUT" /\ CtlGoto(IF outFull THEN "DONE" ELSE ctl)

CtlDone(transformComplete_) ==
  ctl = "DONE" /\ CtlGoto(IF transformComplete_ THEN "IDLE" ELSE ctl)

CtlStep(startF, startI, transformComplete_) ==
  \/ CtlIdle(startF, startI)
  \/ AwaitSignal("IDLE_LOADI", "LOADI")
  \/ LoadRam("LOADI", "CALCULATINGI")
  \/ AwaitSignal("IDLE_LOADF", "LOADF")
  \/ LoadRam("LOADF", "CALCULATINGF")
  \/ Calculate("CALCULATINGF")
  \/ Calculate("CALCULATINGI")
  \/ LoadOut
  \/ CtlDone(transformComplete_)

-----------------------------------------------------------------------------
(* The counters of fft_accel.sv *)

CycleCounter ==
  cycleCount' = IF cycleCount = HALF - 1 THEN 0
                ELSE IF loadInternal THEN cycleCount + 1 ELSE cycleCount

(* Mutant: the last stage is skipped.                                      *)
StageCounterShort ==
  IF doneCalculating
    THEN doneCalculating' = FALSE /\ stageCount' = stageCount
  ELSE IF stageCount = LOGN - 1
    THEN doneCalculating' = TRUE /\ stageCount' = 0
  ELSE /\ doneCalculating' = doneCalculating
       /\ stageCount' = IF loadInternal /\ cycleCount = HALF - 1
                          THEN stageCount + 1 ELSE stageCount

StageCounter ==
  IF doneCalculating
    THEN doneCalculating' = FALSE /\ stageCount' = stageCount
  ELSE IF stageCount = LOGN
    THEN doneCalculating' = TRUE /\ stageCount' = 0
  ELSE /\ doneCalculating' = doneCalculating
       /\ stageCount' = IF loadInternal /\ cycleCount = HALF - 1
                          THEN stageCount + 1 ELSE stageCount

SigNumReg(start, sig, transformComplete_) ==
  sigNumMC' = IF aDone(transformComplete_) THEN 0
              ELSE IF start THEN sig ELSE sigNumMC

(* A slot counter that pulses `done' for one cycle after its last slot. *)
SlotCounter(count, done, countNext, doneNext, enable) ==
  IF done THEN doneNext = FALSE /\ countNext = count
  ELSE IF count = DEPTH - 1 THEN doneNext = TRUE /\ countNext = 0
  ELSE doneNext = done /\ countNext = (IF enable THEN count + 1 ELSE count)

LoadRamCounter ==
  SlotCounter(loadRamCounter, loadExternalDone,
              loadRamCounter', loadExternalDone', loadExternal)

LoadFifoCounter ==
  SlotCounter(loadFifoCounter, outLoadDone,
              loadFifoCounter', outLoadDone', loadOutBuffer)

-----------------------------------------------------------------------------
(* The RAM: an external load writes slot loadRamCounter, a butterfly writes *)
(* its two slots (port A wins when they coincide).                         *)

Butterflied(cell) == [cell EXCEPT !.bf = @ + 1]

BflySlots == {IndexA(stageCount, cycleCount), IndexB(stageCount, cycleCount)}

RamStep ==
  ram' = IF loadExternal THEN [ram EXCEPT ![loadRamCounter] = accelDataOut]
         ELSE IF loadInternal
           THEN [k \in Slots |-> IF k \in BflySlots THEN Butterflied(ram[k]) ELSE ram[k]]
         ELSE ram

FftInit ==
  /\ ctl = "IDLE"
  /\ cycleCount = 0
  /\ stageCount = 0
  /\ doneCalculating = FALSE
  /\ loadRamCounter = 0
  /\ loadExternalDone = FALSE
  /\ loadFifoCounter = 0
  /\ outLoadDone = FALSE
  /\ sigNumMC = 0
  /\ ram = [k \in Slots |-> ResetCell]
  /\ ABufInit(ResetCell)

FftStep(startF, startI, sig, transformComplete_, loadInFifo, blk, accelWrBlk) ==
  /\ CtlStep(startF, startI, transformComplete_)
  /\ CycleCounter
  /\ StageCounter
  /\ SigNumReg(startF \/ startI, sig, transformComplete_)
  /\ LoadRamCounter
  /\ LoadFifoCounter
  /\ RamStep
  /\ InStep(loadInFifo, blk)
  /\ OutStep(loadOutBuffer, ram[loadFifoCounter], accelWrBlk)
=============================================================================
