-------------------------------- MODULE ABuf --------------------------------
(***************************************************************************)
(* The accelerator's two buffers (MEMFiles/a_buf_top.sv): a_buf_in takes   *)
(* blocks of EPB entries from memory and hands out one entry a cycle,      *)
(* a_buf_out takes one entry a cycle and hands out blocks.  The valid      *)
(* flags and fifoEmpty drive nothing and are left out.                     *)
(*                                                                         *)
(* bufferFull is assigned by two clocked blocks (fill and empty).  When    *)
(* both assign in one cycle the order of the blocks decides, so either     *)
(* value may win.                                                          *)
(***************************************************************************)
EXTENDS Integers

CONSTANTS
  DEPTH,  \* entries of a buffer, and of the FFT (1024)
  EPB     \* entries in a block (8)

ASSUME ABufAssumption ==
  /\ DEPTH \in Nat \ {0}
  /\ EPB \in Nat \ {0}

VARIABLES
  inBuf, inIndex, inOutIndex, inFull, inFullInt,  \* a_buf_in
  outBuf, outIndex, outOutIndex, outFull          \* a_buf_out

inVars == <<inBuf, inIndex, inOutIndex, inFull, inFullInt>>
outVars == <<outBuf, outIndex, outOutIndex, outFull>>

Slots == 0 .. DEPTH - 1

ABufInit(reset) ==
  /\ inBuf = [k \in Slots |-> reset]
  /\ inIndex = 0
  /\ inOutIndex = 0
  /\ inFull = FALSE
  /\ inFullInt = FALSE
  /\ outBuf = [k \in Slots |-> reset]
  /\ outIndex = 0
  /\ outOutIndex = 0
  /\ outFull = FALSE

(* The entry a_buf_in presents, and the block a_buf_out presents. *)
accelDataOut == inBuf[inOutIndex]
mcBlockOut == [j \in 0 .. EPB - 1 |-> outBuf[(outOutIndex + j) % DEPTH]]

(* A register that takes one of the values assigned to it, or keeps its own. *)
OneOf(assigned, old) == IF assigned = {} THEN {old} ELSE assigned

(* Mutant: the buffer reports full one block early.                        *)
InStepFullEarly(wrEn, blk) ==
  /\ inBuf' = IF wrEn
                THEN [k \in Slots |-> IF k \in inIndex .. inIndex + EPB - 1
                                        THEN blk[k - inIndex] ELSE inBuf[k]]
                ELSE inBuf
  /\ inIndex' = IF wrEn THEN (inIndex + EPB) % DEPTH ELSE inIndex
  /\ inFullInt' = inFull
  /\ inOutIndex' = IF inFullInt THEN (inOutIndex + 1) % DEPTH ELSE inOutIndex
  /\ inFull' \in
       OneOf((IF wrEn THEN {inIndex = DEPTH - 2 * EPB} ELSE {})
               \cup (IF inFullInt /\ inOutIndex = DEPTH - 1 THEN {FALSE} ELSE {}),
             inFull)

InStep(wrEn, blk) ==
  /\ inBuf' = IF wrEn
                THEN [k \in Slots |-> IF k \in inIndex .. inIndex + EPB - 1
                                        THEN blk[k - inIndex] ELSE inBuf[k]]
                ELSE inBuf
  /\ inIndex' = IF wrEn THEN (inIndex + EPB) % DEPTH ELSE inIndex
  /\ inFullInt' = inFull
  /\ inOutIndex' = IF inFullInt THEN (inOutIndex + 1) % DEPTH ELSE inOutIndex
  /\ inFull' \in
       OneOf((IF wrEn THEN {inIndex = DEPTH - EPB} ELSE {})
               \cup (IF inFullInt /\ inOutIndex = DEPTH - 1 THEN {FALSE} ELSE {}),
             inFull)

(* Mutant: the buffer stays full after its last block.                     *)
OutStepStaysFull(wrEn, entry, accelWrBlk) ==
  /\ outBuf' = IF wrEn THEN [outBuf EXCEPT ![outIndex] = entry] ELSE outBuf
  /\ outIndex' = IF wrEn THEN (outIndex + 1) % DEPTH ELSE outIndex
  /\ outOutIndex' = IF outFull /\ accelWrBlk THEN (outOutIndex + EPB) % DEPTH
                                             ELSE outOutIndex
  /\ outFull' \in OneOf(IF wrEn THEN {outIndex = DEPTH - 1} ELSE {}, outFull)

OutStep(wrEn, entry, accelWrBlk) ==
  /\ outBuf' = IF wrEn THEN [outBuf EXCEPT ![outIndex] = entry] ELSE outBuf
  /\ outIndex' = IF wrEn THEN (outIndex + 1) % DEPTH ELSE outIndex
  /\ outOutIndex' = IF outFull /\ accelWrBlk THEN (outOutIndex + EPB) % DEPTH
                                             ELSE outOutIndex
  /\ outFull' \in
       OneOf((IF wrEn THEN {outIndex = DEPTH - 1} ELSE {})
               \cup (IF outFull /\ accelWrBlk /\ outOutIndex = DEPTH - EPB
                       THEN {FALSE} ELSE {}),
             outFull)
=============================================================================
