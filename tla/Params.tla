------------------------------- MODULE Params -------------------------------
(***************************************************************************)
(* The parameters that more than one component of the processor uses.      *)
(* The value in brackets is the source's.                                  *)
(***************************************************************************)
EXTENDS Integers

CONSTANTS
  WORDS,   \* words in a memory block (16)
  Addrs,   \* word addresses the program uses
  Values,  \* word contents; 0 is the reset value
  SigNums  \* signal numbers an instruction names; 0 is the reset value

ASSUME ParamsAssumption ==
  /\ WORDS \in Nat \ {0}
  /\ Addrs \subseteq Nat
  /\ Addrs # {}
  /\ 0 \in Values
  /\ 0 \in SigNums
=============================================================================
