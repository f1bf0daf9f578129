---------------------------- MODULE TransformInv ----------------------------
(***************************************************************************)
(* The inductive invariant behind the properties of ProcProps that follow  *)
(* a transform through the RAM: what has been loaded so far, and which     *)
(* butterflies each slot has been through.                                 *)
(***************************************************************************)
EXTENDS ProcInv

(* While the RAM is loaded the input buffer holds the whole signal, and it *)
(* hands out an entry in every cycle but the last, whose slot is 0 again.  *)
LoadingInv ==
  ctl \in {"LOADF", "LOADI"} =>
    /\ \A k \in Slots : inBuf[k] = Entry(k)
    /\ ~loadExternalDone => inFullInt /\ (inFull \/ loadRamCounter = DEPTH - 1)
    /\ ctl = "LOADI" => loadExternalDone \/ loadRamCounter > 0

(* Entries that follow one another in the signal are in slots that do.     *)
Loaded == IF loadExternalDone THEN 1 .. DEPTH - 1 ELSE 1 .. loadRamCounter - 1
Rotated(by) == \A k \in Slots : ram[k].src = (k + by) % DEPTH
RotationInv ==
  /\ ctl \in {"LOADF", "LOADI"} =>
       \A k \in Loaded : ram[k] = Entry((k + inOutIndex + DEPTH - loadRamCounter) % DEPTH)
  /\ ctl \in CalcStates => \E by \in Slots : Rotated(by)

(* In the first forward transform the buffer's index is the RAM's.         *)
FirstInv ==
  /\ starts = 0 => ctl = "IDLE"
  /\ starts = 0 \/ (starts = 1 /\ ctl = "IDLE_LOADF") => inOutIndex = 0
  /\ starts = 1 /\ ctl = "LOADF" =>
       inOutIndex = IF loadExternalDone THEN 0 ELSE loadRamCounter
  /\ starts = 1 /\ ctl = "CALCULATINGF" => Rotated(0)

(* The counters of the butterflies rest at stage 0, cycle 0 or 1; the      *)
(* stage after the last is there for one cycle.                            *)
CountersInv ==
  /\ ~(ctl \in CalcStates) => stageCount = 0 /\ ~doneCalculating /\ cycleCount \in {0, 1}
  /\ doneCalculating => stageCount = 0 /\ cycleCount = 1
  /\ stageCount = LOGN => cycleCount = 0

(* The cycle of a stage whose butterfly works on slot k: k without the bit *)
(* that tells the butterfly's two slots apart.                             *)
CycleOf(stage, k) ==
  LET low == 2 ^ (LOGN - 1 - stage) IN (k \div (2 * low)) * low + (k % low)

Passed(k) ==
  IF stageCount = LOGN \/ doneCalculating THEN LOGN
  ELSE IF CycleOf(stageCount, k) < cycleCount THEN stageCount + 1 ELSE stageCount

ButterflyInv ==
  /\ ctl \in CalcStates => \A k \in Slots \ {0, HALF} : ram[k].bf = Passed(k)
  /\ OneButterflyPerStage

TransformInvariant ==
  /\ LoadingInv
  /\ RotationInv
  /\ FirstInv
  /\ CountersInv
  /\ ButterflyInv
=============================================================================
