------------------------------- MODULE Memory -------------------------------
(***************************************************************************)
(* What the memory system promises the program: one word per address, a    *)
(* load returns the word most recently stored there.                       *)
(***************************************************************************)
CONSTANTS Addrs, Values

VARIABLES
  mem,     \* the word at each address
  retired  \* the most recent access and the word it stored or returned

Store(a, v) ==
  /\ mem' = [mem EXCEPT ![a] = v]
  /\ retired' = [opc |-> "ST", addr |-> a, val |-> v]

Fetch(a) ==
  /\ retired' = [opc |-> "LD", addr |-> a, val |-> mem[a]]
  /\ UNCHANGED mem

MemoryInit ==
  /\ mem \in [Addrs -> Values]
  /\ retired = [opc |-> "NOP"]

MemoryNext == \E a \in Addrs : Fetch(a) \/ \E v \in Values : Store(a, v)

MemorySpec == MemoryInit /\ [][MemoryNext]_<<mem, retired>>
=============================================================================
