------------------------------ MODULE MemStage ------------------------------
(***************************************************************************)
(* The memory stage of the processor (CPUFiles/memory_stage.sv) and the    *)
(* direct-mapped write-back data cache it instantiates                     *)
(* (MEMFiles/data_cache.sv).  An address is a natural number split into    *)
(* offset, index and tag as data_cache.sv:58-60 does.                      *)
(***************************************************************************)
EXTENDS Params

CONSTANT LINES  \* cache lines (256)

ASSUME MemStageAssumption == LINES \in Nat \ {0}

VARIABLES
  msState,  \* state of the memory stage's machine
  lines     \* the cache arrays, one record for each index

msVars == <<msState, lines>>

Block == [0 .. WORDS - 1 -> Values]
ZeroBlock == [w \in 0 .. WORDS - 1 |-> 0]

Offset(a) == a % WORDS
Index(a) == (a \div WORDS) % LINES
Tag(a) == a \div (WORDS * LINES)
BlockOf(a) == a \div WORDS

Line == [valid : BOOLEAN, dirty : BOOLEAN, tag : Nat, data : Block]

MsStates ==
  {"IDLE", "READ", "EVICT_RD", "LOAD_RD", "WAIT_RD",
   "WRITE", "EVICT_WR", "LOAD_WR", "WAIT_WR"}

MsTypeOK ==
  /\ msState \in MsStates
  /\ lines \in [0 .. LINES - 1 -> Line]

-----------------------------------------------------------------------------
(* The cache's outputs for the address the stage presents *)

hit(a) == lines[Index(a)].valid /\ lines[Index(a)].tag = Tag(a)
miss(a) == ~hit(a)
evict(a) == miss(a) /\ lines[Index(a)].valid /\ lines[Index(a)].dirty
blkOut(a) == IF evict(a) THEN lines[Index(a)].data ELSE ZeroBlock

(* The first address of the block the line of a holds: the victim's. *)
VictimBlock(a) == lines[Index(a)].tag * LINES + Index(a)

(* The stage's outputs, for the instruction's address aluResult. *)
EvictStates == {"EVICT_RD", "EVICT_WR"}
LoadStates == {"LOAD_RD", "LOAD_WR"}
WaitStates == {"WAIT_RD", "WAIT_WR"}

(* Mutant: the request drops as soon as the load has set the tag, the case *)
(* memory_stage.sv:188 warns of.                                           *)
MissOnly(a) ==
  msState \in {"READ", "WRITE"} \cup EvictStates \cup LoadStates /\ miss(a)

cacheMiss(a) ==
  \/ msState \in {"READ", "WRITE"} \cup EvictStates /\ miss(a)
  \/ msState \in LoadStates

(* Mutant: every miss asks for a write-back.                               *)
EvictAnyMiss(a) ==
  \/ msState = "READ" /\ miss(a)
  \/ msState \in EvictStates

(* WRITE, unlike READ, does not raise cacheEvict. *)
cacheEvict(a) ==
  \/ msState = "READ" /\ evict(a)
  \/ msState \in EvictStates

mcDataOut(a) == IF msState \in EvictStates THEN blkOut(a) ELSE ZeroBlock

(* Mutant: a miss does not stall the cycle that finds it.                  *)
StallLate(a, memOp) ==
  \/ msState = "IDLE" /\ memOp
  \/ msState \in EvictStates \cup LoadStates \cup WaitStates

stallDMAMem(a, memOp) ==
  \/ msState = "IDLE" /\ memOp
  \/ msState \in {"READ", "WRITE"} /\ miss(a)
  \/ msState \in EvictStates \cup LoadStates \cup WaitStates

-----------------------------------------------------------------------------
(* The registers *)

MsInit ==
  /\ msState = "IDLE"
  /\ lines = [i \in 0 .. LINES - 1 |->
                [valid |-> FALSE, dirty |-> FALSE, tag |-> 0, data |-> ZeroBlock]]

MsGoto(s) == msState' = s

Begin(memRead, memWrite) ==
  /\ msState = "IDLE"
  /\ MsGoto(IF memRead THEN "READ" ELSE IF memWrite THEN "WRITE" ELSE "IDLE")
  /\ UNCHANGED lines

ReadCache(a) ==
  /\ msState = "READ"
  /\ MsGoto(IF hit(a) THEN "IDLE" ELSE IF evict(a) THEN "EVICT_RD" ELSE "LOAD_RD")
  /\ UNCHANGED lines

Written(line, offset, v) ==
  [line EXCEPT !.dirty = TRUE, !.data = [@ EXCEPT ![offset] = v]]

WriteCache(a, v) ==
  /\ msState = "WRITE"
  /\ MsGoto(IF hit(a) THEN "IDLE" ELSE IF evict(a) THEN "EVICT_WR" ELSE "LOAD_WR")
  /\ lines' = IF hit(a)
                THEN [lines EXCEPT ![Index(a)] = Written(@, Offset(a), v)]
                ELSE lines

Evict(from, to, evictDone) ==
  /\ msState = from
  /\ MsGoto(IF evictDone THEN to ELSE from)
  /\ UNCHANGED lines

(* The load strobe is high in every cycle of the state: the line takes the *)
(* new tag and whatever is on mcDataIn before the block has arrived.       *)
Load(from, to, a, mcDataIn, mcDataValid) ==
  /\ msState = from
  /\ MsGoto(IF mcDataValid THEN to ELSE from)
  /\ lines' = [lines EXCEPT ![Index(a)] =
                 [valid |-> TRUE, dirty |-> FALSE, tag |-> Tag(a), data |-> mcDataIn]]

Wait(from, to) ==
  /\ msState = from
  /\ MsGoto(to)
  /\ UNCHANGED lines

EvictRd(evictDone) == Evict("EVICT_RD", "LOAD_RD", evictDone)
(* Mutant: the write path does not wait for the acknowledgement.           *)
EvictWrUnacked(evictDone) == Evict("EVICT_WR", "LOAD_WR", TRUE)

EvictWr(evictDone) == Evict("EVICT_WR", "LOAD_WR", evictDone)
(* Mutant: the block is taken whether or not it has arrived.               *)
LoadRdUnchecked(a, blk, valid) == Load("LOAD_RD", "WAIT_RD", a, blk, TRUE)

LoadRd(a, blk, valid) == Load("LOAD_RD", "WAIT_RD", a, blk, valid)
LoadWr(a, blk, valid) == Load("LOAD_WR", "WAIT_WR", a, blk, valid)
WaitRd == Wait("WAIT_RD", "READ")
WaitWr == Wait("WAIT_WR", "WRITE")

MsStep(memRead, memWrite, a, v, evictDone, mcDataIn, mcDataValid) ==
  \/ Begin(memRead, memWrite)
  \/ ReadCache(a)
  \/ WriteCache(a, v)
  \/ EvictRd(evictDone)
  \/ EvictWr(evictDone)
  \/ LoadRd(a, mcDataIn, mcDataValid)
  \/ LoadWr(a, mcDataIn, mcDataValid)
  \/ WaitRd
  \/ WaitWr
=============================================================================
