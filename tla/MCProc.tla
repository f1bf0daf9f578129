------------------------------- MODULE MCProc -------------------------------
(***************************************************************************)
(* Small instances of the processor for TLC.  Blocks of two words; block 0 *)
(* (addresses 0 and 1) is illegal, block 1 is data, block 2 (from 4) is in *)
(* the region of the signals.                                              *)
(***************************************************************************)
EXTENDS ProcInv

I(opc) == [opc |-> opc, addr |-> CHOOSE a \in Addrs : TRUE, val |-> 0,
           sig |-> 0, filter |-> FALSE]
LD(a) == [I("LD") EXCEPT !.addr = a]
ST(a, v) == [I("ST") EXCEPT !.addr = a, !.val = v]
STARTF(sig, filter) == [I("STARTF") EXCEPT !.sig = sig, !.filter = filter]

(* Every load and store.                                                   *)
MemoryProgram == {LD(a) : a \in Addrs} \cup {ST(a, v) : a \in Addrs, v \in Values}

(* The same with a transform that competes with them for the arbiter.      *)
MixedProgram == MemoryProgram \cup {STARTF(0, FALSE)}

(* Transforms, one after the other or with other instructions between.     *)
TransformProgram == {I("NOP"), I("STARTI"), STARTF(0, FALSE)}

(* Everything that makes the arbiter work.                                 *)
ProgressProgram == {LD(2), LD(4), ST(2, 0), ST(4, 0), I("STARTI"), STARTF(0, FALSE)}

(* Everything the control unit distinguishes. *)
ControlProgram ==
  {I("NOP"), I("HALT"), I("TRAP"), I("LOADF"), I("STARTI"),
   STARTF(1, FALSE), STARTF(0, TRUE), LD(0), LD(2), ST(2, 1), ST(4, 0)}
=============================================================================
