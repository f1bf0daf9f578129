----------------------------- MODULE HostMemory -----------------------------
(***************************************************************************)
(* The loader's memory: class mmem (src/class/src/mmem.cpp) over the       *)
(* shared buffers of class AFU (contrib/dma_loopback/sw/AFU.cpp), and the  *)
(* base registers the device keeps of it (memory_map.sv).                  *)
(*                                                                         *)
(* The memory is cut into four segments of at most GB bytes: data holds    *)
(* the buffer of each on the host's side, base_addr what the device was    *)
(* told.                                                                   *)
(***************************************************************************)
EXTENDS Integers, FiniteSets

CONSTANTS
  GB,           \* bytes of a full segment
  PageBytes,    \* buffers are rounded up to whole pages
  BufIds,       \* addresses of buffers
  NULL,
  ByteMod       \* a byte is a number below this

ASSUME GBAssumption   == GB \in Nat \ {0} /\ PageBytes \in Nat \ {0} /\ ByteMod \in Nat \ {0}
ASSUME NullAssumption == NULL \notin BufIds

VARIABLES
  size,         \* bytes of memory
  data,         \* segment -> its buffer, NULL if none
  buffer_map_,  \* live buffer -> its bytes
  base_addr     \* MMIO_BASE_ADDR_S0 .. S3

memVars == <<size, data, buffer_map_, base_addr>>

Segs   == 0 .. 3
Byte   == 0 .. ByteMod - 1
NoSegs == [s \in Segs |-> NULL]

MemInit == size = 0 /\ data = NoSegs /\ buffer_map_ = [b \in {} |-> <<>>] /\ base_addr = NoSegs

(* Mutant: the second segment begins one byte late.                        *)
segno_late(ind) == IF ind = GB THEN 0 ELSE (ind \div GB) % 4
(* The segment and the offset of an address, for host and device alike:    *)
(* bits 31:30 and 29:0.                                                    *)
segno(ind) == (ind \div GB) % 4
offset(ind) == ind % GB

Backed(ind) ==
  data[segno(ind)] \in DOMAIN buffer_map_ /\ offset(ind) \in DOMAIN buffer_map_[data[segno(ind)]]

At(ind) == buffer_map_[data[segno(ind)]][offset(ind)]
Store(buf, off, v) == buffer_map_' = [buffer_map_ EXCEPT ![buf][off] = v]
SetAt(ind, v) == Store(data[segno(ind)], offset(ind), v) /\ UNCHANGED <<size, data, base_addr>>

----------------------------------------------------------------------------
(* resize is dealloc, the new size and alloc.                              *)

(* Mutant: only the first register is cleared.                             *)
UnmapFirst == base_addr' = [base_addr EXCEPT ![0] = NULL] /\ UNCHANGED <<size, data, buffer_map_>>
(* The four registers are cleared one after the other; the device can tell *)
(* no more of it than that some are not cleared yet.                       *)
dealloc_unmap == base_addr' = NoSegs /\ UNCHANGED <<size, data, buffer_map_>>

(* Mutant: only the first segment is freed.                                *)
FreeFirst ==
  /\ buffer_map_' = [b \in DOMAIN buffer_map_ \ {data[0]} |-> buffer_map_[b]]
  /\ data' = NoSegs
dealloc_free ==
  /\ buffer_map_' = [b \in DOMAIN buffer_map_ \ {data[s] : s \in Segs} |-> buffer_map_[b]]
  /\ data' = NoSegs

(* Mutant: rounded down.                                                   *)
page_down(bytes) == (bytes \div PageBytes) * PageBytes
page_aligned(bytes) == ((bytes + PageBytes - 1) \div PageBytes) * PageBytes

(* The library hands out some address that is not in use, and its pages    *)
(* hold what they hold: the same value throughout is choice enough.        *)
free_id == CHOOSE b \in BufIds : b \notin DOMAIN buffer_map_
malloc(s, bytes) ==
  /\ \E b \in BufIds : b \notin DOMAIN buffer_map_
  /\ \E fill \in Byte :
       buffer_map_' = [b \in DOMAIN buffer_map_ \cup {free_id} |->
                         IF b = free_id THEN [o \in 0 .. page_aligned(bytes) - 1 |-> fill]
                                        ELSE buffer_map_[b]]
  /\ data' = [data EXCEPT ![s] = free_id]
  /\ UNCHANGED <<size, base_addr>>

(* Mutant: only the first segment is mapped.                               *)
MapFirst == base_addr' = [NoSegs EXCEPT ![0] = data[0]] /\ UNCHANGED <<size, data, buffer_map_>>
map_mem == base_addr' = data /\ UNCHANGED <<size, data, buffer_map_>>

----------------------------------------------------------------------------
(* No base register points at memory that is not the segment's own: the    *)
(* registers are cleared before a buffer is freed, and written only once   *)
(* all segments are there.                                                 *)
NeverMapsFreed ==
  \A s \in Segs : base_addr[s] # NULL => base_addr[s] \in DOMAIN buffer_map_ /\ base_addr[s] = data[s]

(* Every live buffer belongs to exactly one segment, through failed and    *)
(* repeated allocations too: no resize leaks or shares one.                *)
NothingLeaks ==
  /\ DOMAIN buffer_map_ = {data[s] : s \in Segs} \ {NULL}
  /\ \A s, t \in Segs : data[s] = data[t] /\ data[s] # NULL => s = t
=============================================================================
