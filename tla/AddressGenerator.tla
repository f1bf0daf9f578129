-------------------------- MODULE AddressGenerator --------------------------
(***************************************************************************)
(* FFTFiles/address_generator.sv: which two RAM slots, and which twiddle   *)
(* factor, the butterfly of cycle c of stage s uses.  Pure operators over  *)
(* the number LOGN of stages (10 in the source, for 1024 points).          *)
(***************************************************************************)
EXTENDS Integers

CONSTANT LOGN  \* stages of the FFT (10)

ASSUME LognAssumption == LOGN \in Nat /\ LOGN > 1

HALF == 2 ^ (LOGN - 1)  \* butterflies in a stage (512)

ASSUME HalfAssumption == HALF \in Nat /\ HALF > 1

(* Mutant: the pairs of stage 0 are used in every stage.                    *)
IndexAStageless(stage, cycle) == IF stage >= LOGN THEN 0 ELSE cycle

(* indexA is the cycle number with a zero bit inserted at the position the *)
(* stage pairs on; stages past the last fall to the default, slot 0.       *)
IndexA(stage, cycle) ==
  IF stage >= LOGN THEN 0
  ELSE LET low == 2 ^ (LOGN - 1 - stage)
       IN  (cycle \div low) * (2 * low) + (cycle % low)

(* indexB is indexA + (512 >> stage), ten bits wide. *)
IndexB(stage, cycle) ==
  (IndexA(stage, cycle) + HALF \div (2 ^ stage)) % (2 * HALF)

(* Bit reversal of an (LOGN-1)-bit number, as the concatenation wires it.  *)
Bit(x, i) == (x \div (2 ^ i)) % 2

BitReverse(x) ==
  LET rev[i \in 0 .. LOGN - 1] ==
        IF i = 0 THEN 0 ELSE 2 * rev[i - 1] + Bit(x, i - 1)
  IN  rev[LOGN - 1]

(* Mutant: the twiddle index is not bit-reversed.                           *)
TwiddleUnreversed(stage, cycle) ==
  ((cycle * 2 ^ (stage + 1)) \div (2 ^ LOGN)) % HALF

(* twiddle_int is bits 10 and up of the cycle number shifted by stage + 1  *)
(* places; its nine bits are reversed.                                     *)
TwiddleIndex(stage, cycle) ==
  BitReverse(((cycle * 2 ^ (stage + 1)) \div (2 ^ LOGN)) % HALF)
=============================================================================
