----------------------------- MODULE FlatMemory -----------------------------
(***************************************************************************)
(* What the loader's memory promises: one flat array of bytes, the same    *)
(* for the host and for the device, that is there or not.  A step stores   *)
(* one byte at one address; a store of the device lands where it was       *)
(* addressed, unless the memory went away in between.                      *)
(***************************************************************************)
EXTENDS Integers

CONSTANTS Sizes, Byte

VARIABLES
  mem,       \* the array, empty while there is no memory
  pending    \* the device's store on its way, <<address, value>>, or <<>>

None == <<>>

Init == mem = None /\ pending = None

Gain == mem = None /\ (\E n \in Sizes : mem' \in [0 .. n - 1 -> Byte]) /\ UNCHANGED pending
Lose == mem # None /\ mem' = None /\ pending' = None

Write == mem # None /\ (\E a \in DOMAIN mem, v \in Byte : mem' = [mem EXCEPT ![a] = v])
           /\ UNCHANGED pending

Issue == mem # None /\ pending = None /\ UNCHANGED mem
           /\ \E a \in DOMAIN mem, v \in Byte : pending' = <<a, v>>
Land == pending # None /\ mem' = [mem EXCEPT ![pending[1]] = pending[2]] /\ pending' = None

Spec == Init /\ [][Gain \/ Lose \/ Write \/ Issue \/ Land]_<<mem, pending>>
=============================================================================
