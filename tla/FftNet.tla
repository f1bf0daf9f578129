------------------------------- MODULE FftNet -------------------------------
(***************************************************************************)
(* The arithmetic the accelerator's butterflies add up to: the calculating *)
(* phase of FFTFiles/fft_accel.sv with the addresses and twiddle indices of *)
(* FFTFiles/address_generator.sv, over exact numbers.                      *)
(*                                                                         *)
(* A number is an element of Z[w], w a primitive N-th root of unity: the   *)
(* coefficients of w^0 .. w^(N/2-1), where w^(N/2) = -1.  The butterflies  *)
(* are linear, so a unit impulse at each input in turn stands for every    *)
(* signal.  Entry t of the twiddle ROM is w^t (twiddleHex.mem).  Rounding  *)
(* and overflow of butterfly_unit.sv are not part of this module.          *)
(***************************************************************************)
EXTENDS AddressGenerator

VARIABLES
  cycleCount, stageCount, doneCalculating,
  ram,
  impulse,   \* the input that is 1; the others are 0
  transforms \* history: transforms started since reset, counted up to 2

vars == <<cycleCount, stageCount, doneCalculating, ram, impulse, transforms>>

N == 2 * HALF
Slots == 0 .. N - 1

-----------------------------------------------------------------------------
(* Numbers *)

Zero == [j \in 0 .. HALF - 1 |-> 0]
Power(e) ==  \* w^e
  [j \in 0 .. HALF - 1 |->
     IF j = e % N THEN 1 ELSE IF j + HALF = e % N THEN -1 ELSE 0]
x (+) y == [j \in 0 .. HALF - 1 |-> x[j] + y[j]]
x (-) y == [j \in 0 .. HALF - 1 |-> x[j] - y[j]]

Twiddled(x, t) ==  \* x * w^t, t < N/2
  [j \in 0 .. HALF - 1 |-> IF j >= t THEN x[j - t] ELSE -x[j - t + HALF]]

-----------------------------------------------------------------------------
indexA == IndexA(stageCount, cycleCount)
indexB == IndexB(stageCount, cycleCount)
multB == Twiddled(ram[indexB], TwiddleIndex(stageCount, cycleCount))

(* One butterfly a cycle; port A wins when the two addresses coincide.     *)
Butterfly ==
  ram' = [k \in Slots |-> IF k = indexA THEN ram[indexA] (+) multB
                          ELSE IF k = indexB THEN ram[indexA] (-) multB
                          ELSE ram[k]]

StageEnds == cycleCount = HALF - 1

(* loadInternal is high: a butterfly is written and the counters move.     *)
Calculate ==
  /\ transforms > 0
  /\ ~doneCalculating
  /\ Butterfly
  /\ cycleCount' = IF StageEnds THEN 0 ELSE cycleCount + 1
  /\ doneCalculating' = (stageCount = LOGN)
  /\ stageCount' = IF stageCount = LOGN THEN 0
                   ELSE IF StageEnds THEN stageCount + 1 ELSE stageCount
  /\ UNCHANGED <<impulse, transforms>>

(* The result is read out and the next signal loaded; meanwhile the        *)
(* cycle counter stays where the last transform left it, except that it    *)
(* leaves its last value by itself.                                        *)
Load(i) ==
  /\ transforms = 0 \/ doneCalculating
  /\ ram' = [k \in Slots |-> IF k = i THEN Power(0) ELSE Zero]
  /\ impulse' = i
  /\ doneCalculating' = FALSE
  /\ cycleCount' = IF StageEnds THEN 0 ELSE cycleCount
  /\ transforms' = IF transforms < 2 THEN transforms + 1 ELSE transforms
  /\ UNCHANGED stageCount

Init ==
  /\ cycleCount = 0
  /\ stageCount = 0
  /\ doneCalculating = FALSE
  /\ ram = [k \in Slots |-> Zero]
  /\ impulse = 0
  /\ transforms = 0

Next == Calculate \/ \E i \in Slots : Load(i)

Spec == Init /\ [][Next]_vars

-----------------------------------------------------------------------------
(* What the first transform after reset computes.                          *)

FirstTransform == transforms = 1 /\ ~doneCalculating

(* k read backwards as a number of `bits' bits.                            *)
Reversed(k, bits) ==
  LET rev[i \in 0 .. bits] ==
        IF i = 0 THEN 0 ELSE 2 * rev[i - 1] + Bit(k, i - 1)
  IN  rev[bits]

(* After `level' stages slot k belongs to block k \div m of m slots, and   *)
(* holds one coefficient of the transform, of length 2^level, of every     *)
(* m-th input.                                                             *)
SubTransform(k, level) ==
  LET m == 2 ^ (LOGN - level)
  IN  IF impulse % m # k % m THEN Zero
      ELSE Power(m * (impulse \div m) * Reversed(k \div m, level))

InThisStage(k) ==
  \E c \in 0 .. cycleCount - 1 : k \in {IndexA(stageCount, c), IndexB(stageCount, c)}

(* In every cycle of the calculation each slot has been through exactly    *)
(* the stages it should have and holds the right partial transform.        *)
PartialTransform ==
  FirstTransform /\ stageCount < LOGN =>
    \A k \in Slots : ram[k] = SubTransform(k, IF InThisStage(k) THEN stageCount + 1
                                                               ELSE stageCount)

(* When the last stage is over slot k holds coefficient k reversed of the  *)
(* discrete Fourier transform, for every slot: the sum of x[i] * w^(i*m).  *)
SpectrumBitReversed ==
  FirstTransform /\ stageCount = LOGN =>
    \A k \in Slots : ram[k] = Power(impulse * Reversed(k, LOGN))

(* The inductive invariant of the two: the ranges of the counters, and     *)
(* that they start and end the first transform at zero.                    *)
NetInv ==
  /\ cycleCount \in 0 .. HALF - 1
  /\ stageCount \in 0 .. LOGN
  /\ doneCalculating \in BOOLEAN
  /\ impulse \in Slots
  /\ transforms \in 0 .. 2
  /\ transforms = 0 => cycleCount = 0 /\ stageCount = 0
  /\ PartialTransform
  /\ SpectrumBitReversed
=============================================================================
