--------------------------- MODULE Loader_proofs ---------------------------
(***************************************************************************)
(* Proofs about the loader, for every size, segment and page length, every *)
(* script and whatever is typed: its memory, then its directives and what  *)
(* the memory holds, and that the memory is the array of FlatMemory.       *)
(***************************************************************************)
EXTENDS LoaderInv, Text_proofs, FiniteSetTheorems

-----------------------------------------------------------------------------
(* Arithmetic *)

LEMMA PagesCover ==
  ASSUME NEW bytes \in Nat \ {0}
  PROVE  page_aligned(bytes) \in Nat /\ bytes <= page_aligned(bytes)
  <1> DEFINE q == (bytes + PageBytes - 1) \div PageBytes
  <1>1. q \in Nat /\ bytes + PageBytes - 1 = (q * PageBytes) + ((bytes + PageBytes - 1) % PageBytes)
    BY GBAssumption
  <1>2. (bytes + PageBytes - 1) % PageBytes <= PageBytes - 1
    BY GBAssumption
  <1>3. q * PageBytes \in Nat
    BY <1>1, GBAssumption
  <1> QED
    BY <1>1, <1>2, <1>3, GBAssumption DEF page_aligned

(* An address below four segments has its own segment and offset.          *)
LEMMA Segmented ==
  ASSUME NEW a \in Nat, a < 4 * GB
  PROVE  segno(a) \in Segs /\ offset(a) \in 0 .. GB - 1 /\ a = segno(a) * GB + offset(a)
  <1>1. a \div GB \in Nat /\ a % GB \in 0 .. GB - 1 /\ a = ((a \div GB) * GB) + (a % GB)
    BY GBAssumption
  <1>2. a \div GB <= 3
    BY <1>1, GBAssumption
  <1> QED
    BY <1>1, <1>2 DEF segno, offset, Segs

-----------------------------------------------------------------------------
(* Steps that leave the segments where they are *)

LEMMA ResizeBegins ==
  ASSUME MappedInv, PhaseInv, CoverInv, NothingLeaks,
         UNCHANGED <<memVars, from>>, NEW bytes \in 0 .. 4 * GB, NEW next, Resize(bytes, next)
  PROVE  MappedInv' /\ PhaseInv' /\ CoverInv' /\ NothingLeaks'
  BY DEF MappedInv, PhaseInv, CoverInv, NothingLeaks, memVars, Resize, NoJob, Places, Up

(* The buffers are where and as long as they were.                         *)
SameBuffers ==
  /\ UNCHANGED <<size, data, base_addr>>
  /\ DOMAIN buffer_map_' = DOMAIN buffer_map_
  /\ \A b \in DOMAIN buffer_map_ : DOMAIN (buffer_map_'[b]) = DOMAIN (buffer_map_[b])

LEMMA StoreKeeps ==
  ASSUME NEW buf, NEW off, NEW v, Store(buf, off, v), UNCHANGED <<size, data, base_addr>>
  PROVE  SameBuffers
  BY DEF Store, SameBuffers

LEMMA Elsewhere ==
  ASSUME MappedInv, PhaseInv, CoverInv, NothingLeaks, SameBuffers,
         DOMAIN job' = DOMAIN NoJob, from' \in {"script", "prompt"},
         at' \in Places \ {"unmap", "free", "alloc"}, Up' => Up
  PROVE  MappedInv' /\ PhaseInv' /\ CoverInv' /\ NothingLeaks'
  <1>1. \A s \in Segs : Covers(s) => Covers(s)'
    BY DEF SameBuffers, Covers
  <1>2. MappedInv' /\ PhaseInv' /\ NothingLeaks'
    BY DEF MappedInv, PhaseInv, NothingLeaks, SameBuffers
  <1>3. CoverInv'
    BY <1>1 DEF CoverInv, SameBuffers
  <1> QED
    BY <1>2, <1>3

(* The device and the signal change neither the loader's place nor what is *)
(* left to allocate.                                                       *)
LEMMA Beside ==
  ASSUME MappedInv, PhaseInv, CoverInv, NothingLeaks, SameBuffers, UNCHANGED <<at, from>>,
         DOMAIN job' = DOMAIN NoJob, job'.seg = job.seg, job'.bytes = job.bytes
  PROVE  MappedInv' /\ PhaseInv' /\ CoverInv' /\ NothingLeaks'
  <1>1. \A s \in Segs : Covers(s) => Covers(s)'
    BY DEF SameBuffers, Covers
  <1>2. MappedInv' /\ PhaseInv' /\ NothingLeaks'
    BY DEF MappedInv, PhaseInv, NothingLeaks, SameBuffers
  <1>3. Up' <=> Up
    BY DEF Up
  <1>4. CoverInv'
    BY <1>1, <1>3 DEF CoverInv, SameBuffers
  <1> QED
    BY <1>2, <1>4

-----------------------------------------------------------------------------
(* The steps of a resize *)

LEMMA UnmapStep ==
  ASSUME MappedInv, PhaseInv, CoverInv, NothingLeaks, Unmap
  PROVE  MappedInv' /\ PhaseInv' /\ CoverInv' /\ NothingLeaks'
  BY DEF MappedInv, PhaseInv, CoverInv, NothingLeaks, Unmap, dealloc_unmap, shellVars, Up, Places,
         NoSegs

LEMMA FreeStep ==
  ASSUME MappedInv, PhaseInv, CoverInv, NothingLeaks, Free
  PROVE  MappedInv' /\ PhaseInv' /\ CoverInv' /\ NothingLeaks'
  <1>1. data' = NoSegs /\ DOMAIN buffer_map_' = {} /\ base_addr' = NoSegs
    BY DEF Free, dealloc_free, NothingLeaks, MappedInv
  <1>2. NothingLeaks' /\ MappedInv'
    BY <1>1 DEF NothingLeaks, MappedInv, NoSegs, Segs
  <1>3. /\ job' = job /\ from' = from /\ at' \in {"alloc", "closed"}
        /\ at' = "alloc" => size' = job.bytes
        /\ at' = "closed" => size' = size
    BY DEF Free, shellVars
  <1>4. job.seg = 0 /\ job.bytes \in 0 .. 4 * GB
    BY DEF PhaseInv, Free
  <1>5. PhaseInv'
    BY <1>1, <1>3, <1>4, GBAssumption DEF PhaseInv, Places, NoSegs
  <1>6. CoverInv'
    BY <1>1, <1>3, <1>4, GBAssumption DEF CoverInv, Up, Segs
  <1> QED
    BY <1>2, <1>5, <1>6

LEMMA MapStep ==
  ASSUME MappedInv, PhaseInv, CoverInv, NothingLeaks, Map
  PROVE  MappedInv' /\ PhaseInv' /\ CoverInv' /\ NothingLeaks'
  <1>1. /\ base_addr' = data /\ UNCHANGED <<size, data, buffer_map_, job, from>>
        /\ at = "alloc" /\ at' \in {"script", "prompt", "clear"} /\ job.bytes = 0
    BY DEF Map, map_mem, shellVars, PhaseInv
  <1>2. MappedInv' /\ PhaseInv' /\ NothingLeaks'
    BY <1>1 DEF MappedInv, PhaseInv, NothingLeaks, Places
  <1>3. ASSUME NEW s \in Segs PROVE Covers(s)
    <2>1. CASE s < job.seg
      BY <1>1, <2>1 DEF CoverInv
    <2>2. CASE s >= job.seg
      <3>1. size <= job.seg * GB /\ size \in Nat /\ job.seg \in Nat
        BY <1>1, GBAssumption DEF CoverInv, PhaseInv
      <3>2. job.seg * GB <= s * GB
        BY <3>1, <2>2, GBAssumption DEF Segs
      <3> QED
        BY <3>1, <3>2, GBAssumption DEF Covers, Segs
    <2> QED
      BY <2>1, <2>2 DEF PhaseInv, Segs, Map
  <1>4. \A s \in Segs : Covers(s)'
    BY <1>1, <1>3 DEF Covers
  <1>5. CoverInv'
    BY <1>1, <1>4 DEF CoverInv
  <1> QED
    BY <1>2, <1>5

(* A new buffer belongs to the segment it was allocated for and to no      *)
(* other, and the buffers that were there are left alone.                  *)
LEMMA Malloc ==
  ASSUME MappedInv, NothingLeaks, NEW s \in Segs, data[s] = NULL, NEW bytes \in Nat \ {0},
         malloc(s, bytes)
  PROVE  /\ data' \in [Segs -> BufIds \cup {NULL}] /\ base_addr' = base_addr /\ NothingLeaks'
         /\ data'[s] \in DOMAIN buffer_map_'
         /\ DOMAIN (buffer_map_'[data'[s]]) = 0 .. page_aligned(bytes) - 1
         /\ \A t \in Segs \ {s} : data'[t] = data[t]
         /\ \A b \in DOMAIN buffer_map_ :
              b \in DOMAIN buffer_map_' /\ DOMAIN (buffer_map_'[b]) = DOMAIN (buffer_map_[b])
  <1>1. free_id \in BufIds /\ free_id \notin DOMAIN buffer_map_ /\ free_id # NULL
    BY NullAssumption DEF malloc, free_id
  <1>2. PICK fill \in Byte :
          buffer_map_' = [b \in DOMAIN buffer_map_ \cup {free_id} |->
                            IF b = free_id THEN [o \in 0 .. page_aligned(bytes) - 1 |-> fill]
                                           ELSE buffer_map_[b]]
    BY DEF malloc
  <1>3. data' = [data EXCEPT ![s] = free_id] /\ base_addr' = base_addr
    BY DEF malloc
  <1>4. data' \in [Segs -> BufIds \cup {NULL}] /\ base_addr' \in [Segs -> BufIds \cup {NULL}]
    BY <1>1, <1>3 DEF MappedInv
  <1>5. data'[s] = free_id /\ \A t \in Segs \ {s} : data'[t] = data[t]
    BY <1>3 DEF MappedInv
  <1>6. DOMAIN buffer_map_' = DOMAIN buffer_map_ \cup {free_id}
    BY <1>2
  <1>7. NothingLeaks'
    <2>1. \A t \in Segs : data[t] # free_id
      BY <1>1 DEF NothingLeaks
    <2>2. {data'[t] : t \in Segs} \ {NULL} = ({data[t] : t \in Segs} \ {NULL}) \cup {free_id}
      BY <1>1, <1>5
    <2> QED
      BY <1>1, <1>5, <1>6, <2>1, <2>2 DEF NothingLeaks
  <1>8. DOMAIN (buffer_map_'[free_id]) = 0 .. page_aligned(bytes) - 1
    BY <1>2
  <1>9. \A b \in DOMAIN buffer_map_ : buffer_map_'[b] = buffer_map_[b]
    BY <1>1, <1>2
  <1> QED
    BY <1>3, <1>4, <1>5, <1>6, <1>7, <1>8, <1>9

LEMMA NextSegment ==
  ASSUME NEW k \in Nat
  PROVE  k * GB \in Nat /\ (k + 1) * GB = (k * GB) + GB
  BY GBAssumption

LEMMA AllocStep ==
  ASSUME MappedInv, PhaseInv, CoverInv, NothingLeaks, Alloc
  PROVE  MappedInv' /\ PhaseInv' /\ CoverInv' /\ NothingLeaks'
  <1> DEFINE bytes == IF job.bytes >= GB THEN GB ELSE job.bytes
  <1>1. /\ at = "alloc" /\ at' = "alloc" /\ from' = from /\ size' = size
        /\ malloc(job.seg, bytes)
        /\ job' = [job EXCEPT !.bytes = @ - bytes, !.seg = @ + 1]
    BY DEF Alloc, shellVars, malloc
  <1>2. /\ job.bytes \in Nat \ {0} /\ job.seg \in 0 .. 4 /\ job.bytes + job.seg * GB <= 4 * GB
        /\ base_addr = NoSegs /\ \A s \in Segs : s >= job.seg => data[s] = NULL
    BY DEF Alloc, PhaseInv, MappedInv
  <1>3. job.seg \in Segs
    <2>1. CASE job.seg = 4
      BY <1>2, <2>1, GBAssumption
    <2> QED
      BY <1>2, <2>1 DEF Segs
  <1> PICK k \in Segs : k = job.seg
    BY <1>3
  <1>4. bytes \in Nat \ {0} /\ bytes <= GB /\ bytes <= job.bytes
    BY <1>2, GBAssumption
  <1>5. /\ data' \in [Segs -> BufIds \cup {NULL}] /\ base_addr' = base_addr /\ NothingLeaks'
        /\ data'[job.seg] \in DOMAIN buffer_map_'
        /\ DOMAIN (buffer_map_'[data'[job.seg]]) = 0 .. page_aligned(bytes) - 1
        /\ \A t \in Segs \ {job.seg} : data'[t] = data[t]
        /\ \A b \in DOMAIN buffer_map_ :
             b \in DOMAIN buffer_map_' /\ DOMAIN (buffer_map_'[b]) = DOMAIN (buffer_map_[b])
    BY <1>1, <1>2, <1>3, <1>4, Malloc
  <1>6. job'.bytes = job.bytes - bytes /\ job'.seg = job.seg + 1 /\ DOMAIN job' = DOMAIN NoJob
    BY <1>1 DEF PhaseInv, NoJob
  <1>7. (job.seg + 1) * GB = (job.seg * GB) + GB /\ job.seg * GB \in Nat
    BY NextSegment DEF Segs
  <1>8. MappedInv'
    BY <1>2, <1>5 DEF MappedInv, NoSegs
  <1>9. PhaseInv'
    <2>1. job'.bytes \in Nat /\ job'.seg \in 0 .. 4
      BY <1>3, <1>4, <1>2, <1>6 DEF Segs
    <2>2. job'.bytes + job'.seg * GB <= 4 * GB
      <3>1. CASE job.bytes >= GB
        BY <3>1, <1>2, <1>6, <1>7, GBAssumption
      <3>2. CASE job.bytes < GB
        <4>1. job'.bytes = 0
          <5>1. job.bytes \in Int /\ ~(job.bytes >= GB)
            BY <3>2, <1>2, GBAssumption
          <5>2. bytes = job.bytes
            BY <5>1
          <5> QED
            BY <5>1, <5>2, <1>6
        <4>2. job'.seg \in 1 .. 4
          BY <1>3, <1>6 DEF Segs
        <4>3. \A i \in 1 .. 4 : i * GB <= 4 * GB /\ 0 + i * GB = i * GB
          BY GBAssumption
        <4> QED
          BY <4>1, <4>2, <4>3
      <3> QED
        BY <3>1, <3>2, <1>2, GBAssumption
    <2>3. \A s \in Segs : s >= job'.seg => data'[s] = NULL
      BY <1>2, <1>3, <1>5, <1>6 DEF Segs
    <2> QED
      BY <1>1, <1>6, <2>1, <2>2, <2>3 DEF PhaseInv
  <1>10. ASSUME NEW s \in Segs, s < job.seg PROVE Covers(s)'
    <2>1. Covers(s)
      BY <1>1, <1>10 DEF CoverInv
    <2>2. data'[s] = data[s]
      BY <1>5, <1>10, <1>2
    <2> QED
      BY <1>1, <1>5, <2>1, <2>2 DEF Covers
  <1>11. size = job.bytes + job.seg * GB
    BY <1>1, <1>2 DEF CoverInv
  <1>12. Covers(k)'
    <2>1. \A o \in 0 .. GB - 1 : job.seg * GB + o < size => o < bytes
      BY <1>2, <1>7, <1>11, GBAssumption
    <2>2. bytes <= page_aligned(bytes) /\ page_aligned(bytes) \in Nat
      BY <1>4, PagesCover
    <2>3. \A o \in 0 .. GB - 1 : o < bytes => o \in 0 .. page_aligned(bytes) - 1
      BY <1>4, <2>2, GBAssumption
    <2> QED
      BY <1>1, <1>5, <1>6, <2>1, <2>3 DEF Covers
  <1>13. CoverInv'
    <2>1. \A s \in Segs : s < job'.seg => Covers(s)'
      BY <1>2, <1>6, <1>10, <1>12 DEF Segs
    <2>2. size' <= job'.bytes + job'.seg * GB
      BY <1>1, <1>2, <1>4, <1>6, <1>7, <1>11, GBAssumption
    <2>3. job'.bytes > 0 => size' = job'.bytes + job'.seg * GB
      BY <1>1, <1>2, <1>4, <1>6, <1>7, <1>11, GBAssumption
    <2> QED
      BY <1>1, <2>1, <2>2, <2>3 DEF CoverInv, Up
  <1> QED
    BY <1>5, <1>8, <1>9, <1>13

LEMMA AllocFailsStep ==
  ASSUME MappedInv, PhaseInv, CoverInv, NothingLeaks, AllocFails
  PROVE  MappedInv' /\ PhaseInv' /\ CoverInv' /\ NothingLeaks'
  <1>1. UNCHANGED <<memVars, from>> /\ SameBuffers
    BY DEF AllocFails, shellVars, memVars, SameBuffers
  <1>2. CASE Resize(RecoverSize, "recover")
    BY <1>1, <1>2, ResizeBegins, SizeAssumption, GBAssumption
  <1>3. CASE at' = "crash" /\ job' = job
    <2>1. DOMAIN job' = DOMAIN NoJob /\ from' \in {"script", "prompt"}
      BY <1>1, <1>3 DEF PhaseInv
    <2>2. at' \in Places \ {"unmap", "free", "alloc"} /\ ~Up'
      BY <1>3 DEF Places, Up
    <2> QED
      BY <1>1, <2>1, <2>2, Elsewhere
  <1> QED
    BY <1>2, <1>3 DEF AllocFails

-----------------------------------------------------------------------------
(* Lines and directives *)

LEMMA AcceptStep ==
  ASSUME MappedInv, PhaseInv, CoverInv, NothingLeaks, at \in {"script", "prompt"},
         NEW val, Accept(val)
  PROVE  MappedInv' /\ PhaseInv' /\ CoverInv' /\ NothingLeaks'
  <1>1. SameBuffers /\ from' = from /\ job' = NoJob /\ at' \in {at, "crash", "directive"}
    BY DEF Accept, memVars, SameBuffers
  <1>2. at' \in Places \ {"unmap", "free", "alloc"} /\ Up
    BY <1>1 DEF Places, Up
  <1> QED
    BY <1>1, <1>2, Elsewhere DEF PhaseInv

LEMMA LineStep ==
  ASSUME MappedInv, PhaseInv, CoverInv, NothingLeaks, ReadScript \/ EndScript \/ Type \/ Leave
  PROVE  MappedInv' /\ PhaseInv' /\ CoverInv' /\ NothingLeaks'
  <1>1. CASE ReadScript
    BY <1>1, AcceptStep DEF ReadScript
  <1>2. CASE EndScript
    <2>1. SameBuffers /\ at' = "prompt" /\ from' = "prompt" /\ job' = job /\ Up
      BY <1>2 DEF EndScript, memVars, SameBuffers, Up
    <2> QED
      BY <2>1, Elsewhere DEF PhaseInv, Places
  <1>3. CASE Type
    <2>1. PICK line \in Typed : Accept(ReadFromInput(line))
      BY <1>3 DEF Type
    <2> QED
      BY <1>3, <2>1, AcceptStep DEF Type
  <1>4. CASE Leave
    <2>1. UNCHANGED <<memVars, from>> /\ Resize(0, "exit")
      BY <1>4 DEF Leave, shellVars
    <2> QED
      BY <2>1, ResizeBegins, GBAssumption
  <1> QED
    BY <1>1, <1>2, <1>3, <1>4

(* A directive reads its words and goes somewhere else in the loader.      *)
LEMMA DirectiveStep ==
  ASSUME MappedInv, PhaseInv, CoverInv, NothingLeaks,
         exit \/ go \/ help_loader \/ reset \/ sr \/ mem \/ wait \/ WaitBegin \/ WaitPoll
              \/ WaitEnd \/ Save
  PROVE  MappedInv' /\ PhaseInv' /\ CoverInv' /\ NothingLeaks'
  <1>1. SameBuffers /\ from' = from
    BY DEF exit, go, help_loader, reset, sr, mem, wait, WaitBegin, WaitPoll, WaitEnd, Save, Stays,
           memVars, SameBuffers
  <1>2. Up
    BY DEF exit, go, help_loader, reset, sr, mem, wait, WaitBegin, WaitPoll, WaitEnd, Save,
           Directive, Up
  <1>3. DOMAIN job' = DOMAIN NoJob
    BY DEF exit, go, help_loader, reset, sr, mem, wait, WaitBegin, WaitPoll, WaitEnd, Save, Poll,
           Stays, PhaseInv
  <1>4. at' \in {from, at, "clear", "restore", "save", "wait", "waiting", "waited"}
    BY DEF exit, go, help_loader, reset, sr, mem, wait, WaitBegin, WaitPoll, WaitEnd, Save, Poll,
           Done
  <1>5. at' \in Places \ {"unmap", "free", "alloc"}
    BY <1>2, <1>4 DEF PhaseInv, Places, Up
  <1> QED
    BY <1>1, <1>2, <1>3, <1>5, Elsewhere DEF PhaseInv

LEMMA resizeStep ==
  ASSUME MappedInv, PhaseInv, CoverInv, NothingLeaks, resize
  PROVE  MappedInv' /\ PhaseInv' /\ CoverInv' /\ NothingLeaks'
  <1>1. UNCHANGED <<memVars, from>> /\ SameBuffers /\ Up
    BY DEF resize, Stays, memVars, SameBuffers, Directive, Up
  <1>2. CASE Done("no resizing") /\ job' = job
    BY <1>1, <1>2, Elsewhere DEF Done, PhaseInv, Places
  <1>3. ASSUME Number(2).val \in MinBits .. MaxBits, Resize(2^Number(2).val, "resize")
        PROVE  MappedInv' /\ PhaseInv' /\ CoverInv' /\ NothingLeaks'
    <2>1. 2^Number(2).val \in 0 .. 4 * GB
      BY <1>3, SizeAssumption, GBAssumption
    <2> QED
      BY <1>1, <1>3, <2>1, ResizeBegins
  <1> QED
    BY <1>2, <1>3 DEF resize

(* The loops that write to the memory.                                     *)
LEMMA WriteStep ==
  ASSUME MappedInv, PhaseInv, CoverInv, NothingLeaks, Clear \/ Restore
  PROVE  MappedInv' /\ PhaseInv' /\ CoverInv' /\ NothingLeaks'
  <1>1. SameBuffers
    <2>1. CASE Clear
      BY <2>1, StoreKeeps DEF Clear, SetAt, memVars, SameBuffers
    <2>2. CASE Restore
      BY <2>2, StoreKeeps DEF Restore, SetAt
    <2> QED
      BY <2>1, <2>2
  <1>2. from' = from /\ DOMAIN job' = DOMAIN NoJob /\ at' \in {at, from} /\ Up
    BY DEF Clear, Restore, Done, PhaseInv, Up
  <1>3. at' \in Places \ {"unmap", "free", "alloc"}
    BY <1>2 DEF PhaseInv, Places, Up
  <1> QED
    BY <1>1, <1>2, <1>3, Elsewhere DEF PhaseInv

-----------------------------------------------------------------------------
(* Every step *)

LEMMA StartStep ==
  ASSUME MappedInv, PhaseInv, CoverInv, NothingLeaks, Connect \/ Boot
  PROVE  MappedInv' /\ PhaseInv' /\ CoverInv' /\ NothingLeaks'
  <1>1. CASE Connect
    <2>1. SameBuffers /\ from' = from /\ job' = job /\ at' \in {"boot", "closed", "crash"}
      BY <1>1 DEF Connect, memVars, shellVars, SameBuffers
    <2>2. at' \in Places \ {"unmap", "free", "alloc"} /\ ~Up'
      BY <2>1 DEF Places, Up
    <2> QED
      BY <2>1, <2>2, Elsewhere DEF PhaseInv
  <1>2. CASE Boot
    <2>1. UNCHANGED memVars /\ from' \in {"script", "prompt"}
          /\ (Resize(0, "exit") \/ Resize(InitialSize, "boot"))
      BY <1>2 DEF Boot, PhaseInv
    <2>2. InitialSize \in 0 .. 4 * GB /\ 0 \in 0 .. 4 * GB
      BY SizeAssumption, GBAssumption
    <2>3. PICK bytes \in 0 .. 4 * GB, next \in {"exit", "boot"} : Resize(bytes, next)
      BY <2>1, <2>2
    <2> QED
      BY <2>1, <2>3 DEF MappedInv, PhaseInv, CoverInv, NothingLeaks, memVars, Resize, NoJob,
         Places, Up, Covers
  <1> QED
    BY <1>1, <1>2

LEMMA BesideStep ==
  ASSUME MappedInv, PhaseInv, CoverInv, NothingLeaks, break_machine \/ Device
  PROVE  MappedInv' /\ PhaseInv' /\ CoverInv' /\ NothingLeaks'
  <1>1. SameBuffers
    <2>1. CASE DevLand
      <3>1. CASE Lands
        BY <2>1, <3>1, StoreKeeps DEF DevLand
      <3>2. CASE ~Lands
        BY <2>1, <3>2 DEF DevLand, SameBuffers
      <3> QED
        BY <3>1, <3>2
    <2>2. CASE break_machine \/ DevIssue \/ DevCv
      BY <2>2 DEF break_machine, DevIssue, DevCv, memVars, SameBuffers
    <2> QED
      BY <2>1, <2>2 DEF Device
  <1>2. UNCHANGED <<at, from>> /\ DOMAIN job' = DOMAIN NoJob /\ job'.seg = job.seg
        /\ job'.bytes = job.bytes
    BY DEF break_machine, Device, DevIssue, DevLand, DevCv, shellVars, PhaseInv, NoJob
  <1> QED
    BY <1>1, <1>2, Beside

LEMMA MemoryInvariant ==
  ASSUME MappedInv, PhaseInv, CoverInv, NothingLeaks, [Next]_vars
  PROVE  MappedInv' /\ PhaseInv' /\ CoverInv' /\ NothingLeaks'
  <1>1. CASE Shell
    BY <1>1, StartStep, UnmapStep, FreeStep, AllocStep, AllocFailsStep, MapStep, WriteStep,
       LineStep, DirectiveStep, resizeStep DEF Shell
  <1>2. CASE Type
    BY <1>2, LineStep
  <1>3. CASE break_machine \/ Device
    BY <1>3, BesideStep
  <1>4. CASE UNCHANGED vars
    BY <1>4, Beside DEF vars, memVars, shellVars, SameBuffers, PhaseInv
  <1> QED
    BY <1>1, <1>2, <1>3, <1>4 DEF Next

LEMMA MemoryInit ==
  ASSUME Init
  PROVE  MappedInv /\ PhaseInv /\ CoverInv /\ NothingLeaks
  <1>1. /\ at = "main" /\ from = "prompt" /\ job = NoJob /\ size = 0
        /\ data = NoSegs /\ base_addr = NoSegs /\ buffer_map_ = [b \in {} |-> <<>>]
    BY DEF Init, MemInit
  <1>2. MappedInv
    BY <1>1 DEF MappedInv, NoSegs
  <1>3. PhaseInv
    BY <1>1 DEF PhaseInv, Places
  <1>4. CoverInv
    BY <1>1, GBAssumption DEF CoverInv, Up
  <1>5. NothingLeaks
    BY <1>1 DEF NothingLeaks, NoSegs
  <1> QED
    BY <1>2, <1>3, <1>4, <1>5

-----------------------------------------------------------------------------
(* What follows *)

LEMMA MemoryAlways == Spec => [](MappedInv /\ PhaseInv /\ CoverInv /\ NothingLeaks)
  <1>1. MappedInv /\ PhaseInv /\ CoverInv /\ NothingLeaks /\ [Next]_vars
          => (MappedInv /\ PhaseInv /\ CoverInv /\ NothingLeaks)'
    BY MemoryInvariant
  <1> QED
    BY MemoryInit, <1>1, PTL DEF Spec

(* However resizes, failed allocations and exits follow each other, every  *)
(* live buffer is one segment's: nothing leaks and nothing is shared.      *)
THEOREM NothingLeaksHolds == Spec => []NothingLeaks
  BY MemoryAlways, PTL

(* The device's registers never name freed memory.                         *)
THEOREM NeverMapsFreedHolds == Spec => []NeverMapsFreed
  <1>1. MappedInv /\ NothingLeaks => NeverMapsFreed
    BY DEF MappedInv, NothingLeaks, NeverMapsFreed
  <1> QED
    BY MemoryAlways, <1>1, PTL

(* Every address below the size has its byte in a segment, and the device  *)
(* finds the same byte there.                                              *)
THEOREM SegmentsCoverHolds == Spec => []SegmentsCover
  <1>1. ASSUME CoverInv PROVE SegmentsCover
    <2> SUFFICES ASSUME Up, NEW a \in 0 .. size - 1
                 PROVE  Backed(a) /\ base_addr[segno(a)] = data[segno(a)]
      BY DEF SegmentsCover
    <2>1. size \in 0 .. 4 * GB /\ base_addr = data /\ \A s \in Segs : Covers(s)
      BY <1>1 DEF CoverInv
    <2>2. segno(a) \in Segs /\ offset(a) \in 0 .. GB - 1 /\ a = segno(a) * GB + offset(a)
      BY <2>1, Segmented, GBAssumption
    <2>3. segno(a) * GB + offset(a) < size
      BY <2>1, <2>2, GBAssumption
    <2> QED
      BY <2>1, <2>2, <2>3 DEF Covers, Backed
  <1> QED
    BY MemoryAlways, <1>1, PTL

-----------------------------------------------------------------------------
(* Stores of the device *)

LEMMA StoreKept ==
  ASSUME StoreInv, SameBuffers, UNCHANGED <<dev, lost, moved>>, running => running',
         running' => at' \notin {"main", "boot", "free", "alloc"}
  PROVE  StoreInv'
  <1>1. Aimed => Aimed'
    BY DEF Aimed, Lands, SameBuffers
  <1> QED
    BY <1>1 DEF StoreInv

LEMMA StoreResize ==
  ASSUME PhaseInv, StoreInv, Unmap \/ Free \/ Alloc \/ Map
  PROVE  StoreInv'
  <1>1. CASE Unmap
    <2>1. /\ UNCHANGED <<running, lost, size, data, buffer_map_>> /\ at' = "free"
          /\ moved' = (moved \/ running) /\ dev' = [dev EXCEPT !.fresh = FALSE]
      BY <1>1 DEF Unmap, dealloc_unmap, shellVars
    <2>2. DOMAIN dev' = DOMAIN NoReq /\ dev'.inside = dev.inside
      BY <2>1 DEF StoreInv, NoReq
    <2> QED
      BY <2>1, <2>2 DEF StoreInv
  <1>2. CASE Free \/ Alloc \/ Map
    <2>1. UNCHANGED <<running, lost, moved, dev>> /\ at \in {"free", "alloc"}
      BY <1>2 DEF Free, Alloc, Map, shellVars, devVars, history
    <2>2. at' \notin {"main", "boot"}
      BY <1>2, <2>1 DEF Free, Alloc, Map, PhaseInv
    <2>3. running => moved
      BY <2>1 DEF StoreInv
    <2>4. ASSUME dev.inside, ~moved PROVE FALSE
      BY <2>3, <2>4 DEF StoreInv
    <2> QED
      BY <2>1, <2>2, <2>3, <2>4 DEF StoreInv
  <1> QED
    BY <1>1, <1>2

LEMMA StoreBeside ==
  ASSUME MappedInv, CoverInv, StoreInv, break_machine \/ Device
  PROVE  StoreInv'
  <1>1. UNCHANGED <<at, running, moved>>
    BY DEF break_machine, Device, DevIssue, DevLand, DevCv, shellVars, history
  <1>2. CASE break_machine \/ DevCv
    <2>1. UNCHANGED <<memVars, dev, lost>>
      BY <1>2 DEF break_machine, DevCv, shellVars, devVars, history
    <2>2. Aimed => Aimed'
      BY <2>1 DEF Aimed, Lands, memVars
    <2> QED
      BY <1>1, <2>1, <2>2 DEF StoreInv
  <1>3. CASE DevIssue
    <2>1. running /\ UNCHANGED <<memVars, lost>>
      BY <1>3 DEF DevIssue
    <2>2. PICK a \in 0 .. 4 * GB - 1, v \in Byte :
            dev' = [buf |-> base_addr[segno(a)], off |-> offset(a), addr |-> a, val |-> v,
                    inside |-> Up /\ a < size, fresh |-> Up /\ a < size]
      BY <1>3 DEF DevIssue
    <2>3. dev'.inside => Aimed'
      <3> SUFFICES ASSUME Up, a < size PROVE Aimed'
        BY <2>2
      <3>1. segno(a) \in Segs /\ offset(a) \in 0 .. GB - 1 /\ a = segno(a) * GB + offset(a)
        BY Segmented, GBAssumption
      <3>2. base_addr = data /\ Covers(segno(a)) /\ size \in Nat
        BY <3>1, GBAssumption DEF CoverInv
      <3>3. data[segno(a)] \in DOMAIN buffer_map_ /\ offset(a) \in DOMAIN buffer_map_[data[segno(a)]]
        BY <3>1, <3>2 DEF Covers
      <3> QED
        BY <2>1, <2>2, <3>2, <3>3, GBAssumption DEF Aimed, Lands, memVars
    <2> QED
      BY <1>1, <2>1, <2>2, <2>3 DEF StoreInv, NoReq
  <1>4. CASE DevLand
    <2>1. dev # NoReq /\ dev' = NoReq
          /\ lost' = (lost \/ (dev.inside /\ ~(Lands /\ dev.buf = data[segno(dev.addr)])))
      BY <1>4 DEF DevLand
    <2>2. lost' => moved
      BY <2>1 DEF StoreInv, Aimed
    <2> QED
      BY <1>1, <2>1, <2>2 DEF StoreInv, NoReq
  <1> QED
    BY <1>2, <1>3, <1>4 DEF Device

(* Everything else the loader does leaves the segments and the device be.  *)
LEMMA StoreElsewhere ==
  ASSUME PhaseInv, StoreInv,
         \/ Connect \/ Boot \/ AllocFails \/ Clear \/ ReadScript \/ EndScript \/ Type \/ Leave
         \/ exit \/ go \/ help_loader \/ reset \/ sr \/ Restore \/ Save \/ mem
         \/ wait \/ WaitBegin \/ WaitPoll \/ WaitEnd \/ resize
  PROVE  StoreInv'
  <1>1. CASE Connect \/ Boot
    <2>1. ~running /\ UNCHANGED <<memVars, dev, lost, moved, running>>
      BY <1>1 DEF Connect, Boot, StoreInv, shellVars, devVars, history
    <2> QED
      BY <2>1 DEF StoreInv
  <1>2. CASE AllocFails \/ Leave \/ EndScript
    <2>1. SameBuffers /\ UNCHANGED <<dev, lost, moved, running>>
          /\ at' \in {"unmap", "crash", "prompt"}
      BY <1>2 DEF AllocFails, Leave, EndScript, Resize, memVars, shellVars, devVars, history,
                  SameBuffers
    <2> QED
      BY <2>1, StoreKept
  <1>3. CASE ReadScript \/ Type
    <2>1. PICK val : Accept(val)
      BY <1>3 DEF ReadScript, Type
    <2>2. at \in {"script", "prompt"}
      BY <1>3 DEF ReadScript, Type
    <2>3. SameBuffers /\ UNCHANGED <<dev, lost, moved, running>>
          /\ at' \in {at, "crash", "directive"}
      BY <2>1 DEF Accept, memVars, devVars, SameBuffers
    <2> QED
      BY <2>2, <2>3, StoreKept
  <1>4. CASE Clear \/ Restore
    <2>1. SameBuffers
      <3>1. CASE Clear
        BY <3>1, StoreKeeps DEF Clear, SetAt, memVars, SameBuffers
      <3>2. CASE Restore
        BY <3>2, StoreKeeps DEF Restore, SetAt
      <3> QED
        BY <1>4, <3>1, <3>2
    <2>2. UNCHANGED <<dev, lost, moved, running>> /\ at \in {"clear", "restore"} /\ at' \in {at, from}
      BY <1>4 DEF Clear, Restore, Done, devVars
    <2> QED
      BY <2>1, <2>2, StoreKept DEF PhaseInv
  <1>5. CASE exit \/ go \/ help_loader \/ reset \/ sr \/ Save \/ mem \/ wait \/ WaitBegin
             \/ WaitPoll \/ WaitEnd \/ resize
    <2>0. Stays /\ (running' = running \/ running' = TRUE)
      BY <1>5 DEF exit, go, help_loader, reset, sr, Save, mem, wait, WaitBegin, WaitPoll, WaitEnd,
                  resize
    <2>1. SameBuffers /\ UNCHANGED <<dev, lost, moved>> /\ (running => running')
      BY <2>0 DEF Stays, memVars, devVars, SameBuffers
    <2>2. at \in {"directive", "save", "wait", "waiting", "waited"}
      BY <1>5 DEF exit, go, help_loader, reset, sr, Save, mem, wait, WaitBegin, WaitPoll, WaitEnd,
                  resize, Directive
    <2>3. at' \in {from, at, "clear", "restore", "save", "wait", "waiting", "waited", "unmap"}
      BY <1>5 DEF exit, go, help_loader, reset, sr, Save, mem, wait, WaitBegin, WaitPoll, WaitEnd,
                  resize, Poll, Done, Resize
    <2> QED
      BY <2>1, <2>2, <2>3, StoreKept DEF PhaseInv
  <1> QED
    BY <1>1, <1>2, <1>3, <1>4, <1>5

LEMMA StoreStep ==
  ASSUME MappedInv, PhaseInv, CoverInv, StoreInv, [Next]_vars
  PROVE  StoreInv'
  <1>1. CASE UNCHANGED vars
    <2>1. Aimed => Aimed'
      BY <1>1 DEF vars, memVars, devVars, Aimed, Lands
    <2> QED
      BY <1>1, <2>1 DEF vars, memVars, shellVars, devVars, history, StoreInv
  <1>2. CASE Next
    BY <1>2, StoreResize, StoreBeside, StoreElsewhere DEF Next, Shell
  <1> QED
    BY <1>1, <1>2

(* A store the device sent to the memory is only ever lost because .resize *)
(* or .exit took the memory away while the device was running.             *)
THEOREM StoresArriveHolds == Spec => []StoresArrive
  <1>1. ASSUME Init PROVE StoreInv
    <2>1. running = FALSE /\ dev = NoReq /\ lost = FALSE /\ moved = FALSE
      BY <1>1 DEF Init
    <2>2. ~dev.inside /\ DOMAIN dev = DOMAIN NoReq
      BY <2>1 DEF NoReq
    <2> QED
      BY <2>1, <2>2 DEF StoreInv
  <1>2. MappedInv /\ PhaseInv /\ CoverInv /\ StoreInv /\ [Next]_vars => StoreInv'
    BY StoreStep
  <1>3. StoreInv => StoresArrive
    BY DEF StoreInv, StoresArrive
  <1> QED
    BY MemoryAlways, <1>1, <1>2, <1>3, PTL DEF Spec

-----------------------------------------------------------------------------
(* Lines and words *)

(* What the lines and their words are.                                     *)
TextTypes ==
  /\ \A s \in Starts : /\ s.script \in Seq(Lines)
                       /\ characterize_Env(s.args).mode \in {"INTERACTIVE", "MACHINE"}
  /\ \A l \in Lines : Words[l].err = "" => Words[l].val \in Seq(Spoken)
  /\ \A w \in Spoken : Numbers[w].err = "" => Numbers[w].val \in Int
  /\ \A w \in Spoken : Ranges[w].err = "" =>
       /\ Ranges[w].val.first \in Int /\ Ranges[w].val.step \in Int
       /\ Ranges[w].val.bound \in Nat

LEMMA TextTyped ==
  ASSUME StringsAreSequences
  PROVE  TextTypes
  <1>1. Lines \subseteq STRING /\ \A s \in Starts : s.script \in Seq(Lines)
    <2>1. ASSUME NEW s \in Starts PROVE Range(s.script) \subseteq STRING /\ s.script \in Seq(Range(s.script))
      <3>1. s.script \in Seq(STRING)
        BY LinesAssumption
      <3>2. s.script \in [1 .. Len(s.script) -> STRING] /\ Len(s.script) \in Nat
        BY <3>1, LenProperties
      <3>3. Range(s.script) = {s.script[i] : i \in 1 .. Len(s.script)}
        BY <3>2 DEF Range
      <3>4. s.script \in [1 .. Len(s.script) -> Range(s.script)]
        BY <3>2, <3>3
      <3> QED
        BY <3>2, <3>3, <3>4, SeqDef
    <2>2. \A l \in Typed : ReadFromInput(l) \in STRING
      BY LinesAssumption, ReadType
    <2>3. ASSUME NEW s \in Starts PROVE s.script \in Seq(Lines)
      <3>1. s.script \in [1 .. Len(s.script) -> Range(s.script)] /\ Len(s.script) \in Nat
        BY <2>1, LenProperties
      <3>2. Range(s.script) \subseteq Lines
        BY Zenon DEF Lines
      <3>3. s.script \in [1 .. Len(s.script) -> Lines]
        BY <3>1, <3>2
      <3> QED
        BY <3>1, <3>3, SeqDef
    <2> QED
      BY <2>1, <2>2, <2>3, Zenon DEF Lines
  <1>2. ASSUME NEW s \in Starts PROVE characterize_Env(s.args).mode \in {"INTERACTIVE", "MACHINE"}
    BY LinesAssumption, ModeType
  <1>3. ASSUME NEW l \in Lines, Words[l].err = ""
        PROVE  Words[l].val \in Seq(STRING) /\ Words[l].val \in Seq(Spoken)
    <2> DEFINE words == Words[l].val
    <2>1. Words[l] = chop_string(l)
      BY Zenon DEF Words
    <2>2. Returned(chop_string(l)) /\ l \in STRING
      BY <1>1, <1>3, <2>1, Zenon DEF Returned
    <2>3. words \in Seq(STRING)
      BY <2>1, <2>2, ChopType
    <2>4. Range(words) \subseteq Spoken
      BY <1>3, Zenon DEF Spoken
    <2> HIDE DEF words
    <2>5. words \in [1 .. Len(words) -> STRING] /\ Len(words) \in Nat
      BY <2>3, LenProperties
    <2>6. words \in [1 .. Len(words) -> Spoken]
      BY <2>4, <2>5 DEF Range
    <2>7. words \in Seq(Spoken)
      BY <2>5, <2>6, SeqDef
    <2> QED
      BY <2>3, <2>7, Zenon DEF words
  <1>4. Spoken \subseteq STRING
    <2> SUFFICES ASSUME NEW l \in Lines, Words[l].err = "", NEW w \in Range(Words[l].val)
                 PROVE  w \in STRING
      BY Zenon DEF Spoken
    <2> DEFINE words == Words[l].val
    <2>1. words \in Seq(STRING) /\ w \in Range(words)
      BY <1>3, Zenon
    <2> HIDE DEF words
    <2>2. PICK i \in DOMAIN words : w = words[i]
      BY <2>1 DEF Range
    <2> QED
      BY <2>1, <2>2, ElementOfSeq, LenProperties
  <1>5. ASSUME NEW w \in Spoken, Numbers[w].err = "" PROVE Numbers[w].val \in Int
    <2>1. Numbers[w] = numeric_interpret(w)
      BY Zenon DEF Numbers
    <2>2. Returned(numeric_interpret(w)) /\ w \in STRING
      BY <1>4, <1>5, <2>1, Zenon DEF Returned
    <2> QED
      BY <2>1, <2>2, NumberType, Zenon
  <1>6. ASSUME NEW w \in Spoken, Ranges[w].err = ""
        PROVE  /\ Ranges[w].val.first \in Int /\ Ranges[w].val.step \in Int
               /\ Ranges[w].val.bound \in Nat
    <2>1. Ranges[w] = range(w)
      BY Zenon DEF Ranges
    <2>2. Returned(range(w)) /\ w \in STRING
      BY <1>4, <1>6, <2>1, Zenon DEF Returned
    <2> QED
      BY <2>1, <2>2, RangeType, Zenon
  <1> QED
    BY <1>1, <1>2, <1>3, <1>5, <1>6, Zenon DEF TextTypes

LEMMA AcceptWords ==
  ASSUME TextTypes, PhaseInv, WordsInv, at \in {"script", "prompt"}, NEW val \in Lines, Accept(val)
  PROVE  /\ cmd' \in Seq(Spoken) /\ UNCHANGED <<start, mode, from>>
         /\ at' \in {at, "crash", "directive"} /\ job' = NoJob
  <1>1. cmd' \in Seq(Spoken)
    BY EmptySeq DEF TextTypes, Accept
  <1> QED
    BY <1>1 DEF Accept

(* A line of the script or a typed one.                                    *)
LEMMA LineWords ==
  ASSUME PhaseInv, WordsInv, ReadScript \/ Type
  PROVE  /\ \E val \in Lines : Accept(val)
         /\ at \in {"script", "prompt"}
         /\ script' \in Seq(Lines)
  <1>1. CASE ReadScript
    <2>1. script # <<>> /\ script' = Tail(script) /\ Accept(Head(script)) /\ at = "script"
      BY <1>1 DEF ReadScript
    <2>2. script \in Seq(Lines) /\ script # <<>>
      BY <2>1 DEF WordsInv
    <2>3. Head(script) \in Lines /\ Tail(script) \in Seq(Lines)
      BY <2>2, HeadTailProperties
    <2> QED
      BY <2>1, <2>3
  <1>2. CASE Type
    <2>1. PICK line \in Typed : Accept(ReadFromInput(line))
      BY <1>2 DEF Type
    <2>2. ReadFromInput(line) \in Lines
      BY DEF Lines
    <2> QED
      BY <1>2, <2>1, <2>2 DEF Type, WordsInv
  <1> QED
    BY <1>1, <1>2

LEMMA WordsStep ==
  ASSUME TextTypes, PhaseInv, WordsInv, [Next]_vars
  PROVE  WordsInv'
  <1>0. ASSUME Boot
        PROVE  script' \in Seq(Lines) /\ mode' \in {"INTERACTIVE", "MACHINE"} /\ at' = "unmap"
    <2>1. start \in Starts /\ script \in Seq(Lines) /\ <<>> \in Seq(Lines)
      BY EmptySeq DEF WordsInv
    <2>2. start.script \in Seq(Lines) /\ characterize_Env(start.args).mode \in {"INTERACTIVE", "MACHINE"}
      BY <2>1 DEF TextTypes
    <2>3. mode' = characterize_Env(start.args).mode
      BY <1>0 DEF Boot
    <2>4. script' \in {script, start.script, <<>>} /\ at' = "unmap"
      BY <1>0 DEF Boot, Resize
    <2> QED
      BY <2>1, <2>2, <2>3, <2>4
  <1>1. CASE Connect \/ Boot
    <2>1. UNCHANGED <<start, cmd, report>> /\ cmd = <<>> /\ report = ""
      BY <1>1 DEF Connect, Boot, shellVars, WordsInv
    <2>2. CASE Connect
      <3>1. UNCHANGED <<script, mode>> /\ at' \in {"boot", "closed", "crash"}
        BY <2>2 DEF Connect, shellVars
      <3> QED
        BY <2>1, <3>1 DEF WordsInv, Resizing, Polling
    <2> QED
      BY <1>1, <1>0, <2>1, <2>2 DEF WordsInv, Resizing, Polling
  <1>2. CASE Unmap \/ Free \/ Alloc \/ AllocFails \/ Map
    <2>1. UNCHANGED shellVars
      BY <1>2 DEF Unmap, Free, Alloc, AllocFails, Map
    <2>2. /\ at \in Resizing
          /\ at' \in Resizing \cup {"closed", "crash", "script", "prompt", "clear"}
          /\ job'.next = "boot" => job.next = "boot"
      BY <1>2 DEF Unmap, Free, Alloc, AllocFails, Map, Resize, PhaseInv, NoJob, Resizing
    <2>3. at' \in {"script", "prompt"} => at' = from
      BY <1>2 DEF Unmap, Free, Alloc, AllocFails, Map, Resize
    <2> QED
      BY <2>1, <2>2, <2>3 DEF WordsInv, shellVars, Resizing, Polling
  <1>3. CASE ReadScript \/ Type
    <2>1. PICK val \in Lines : Accept(val)
      BY <1>3, LineWords
    <2>2. at \in {"script", "prompt"} /\ script' \in Seq(Lines)
      BY <1>3, LineWords
    <2>3. /\ cmd' \in Seq(Spoken) /\ UNCHANGED <<start, mode, from>>
          /\ at' \in {at, "crash", "directive"}
      BY <2>1, <2>2, AcceptWords
    <2> QED
      BY <2>2, <2>3 DEF WordsInv, Resizing, Polling
  <1>4. CASE Clear \/ EndScript \/ Leave \/ break_machine \/ Device \/ UNCHANGED vars
    <2>1. /\ UNCHANGED <<start, cmd>> /\ script' = script
          /\ mode' \in {"INTERACTIVE", "MACHINE", "SHUTDOWN"}
      BY <1>4 DEF Clear, EndScript, Leave, break_machine, Device, DevIssue, DevLand, DevCv, vars,
                  shellVars, WordsInv
    <2>2. \/ at' \in {"script", "prompt", "clear"}
          \/ at' = "unmap" /\ job'.next = "exit"
          \/ at' = at /\ UNCHANGED report /\ job'.next = job.next
      BY <1>4 DEF Clear, EndScript, Leave, break_machine, Device, DevIssue, DevLand, DevCv, vars,
                  shellVars, Resize, NoJob, PhaseInv
    <2>3. at' = from' \/ (at' = at /\ from' = from) \/ at' = "unmap"
      BY <1>4 DEF Clear, EndScript, Leave, break_machine, Device, DevIssue, DevLand, DevCv, vars,
                  shellVars, Resize
    <2> QED
      BY <2>1, <2>2, <2>3 DEF WordsInv, Resizing, Polling
  <1>5. CASE exit \/ go \/ help_loader \/ reset \/ sr \/ mem \/ wait \/ resize
    <2>1. UNCHANGED <<start, cmd, script>> /\ mode' \in {"INTERACTIVE", "MACHINE", "SHUTDOWN"}
      BY <1>5 DEF exit, go, help_loader, reset, sr, mem, wait, resize, Stays, WordsInv
    <2>2. /\ at' \in {from, "clear", "restore", "save", "wait", "unmap"}
          /\ at' \in {"restore", "save"} => cmd[1] = ".sr"
          /\ at' = "wait" => cmd[1] = ".wait"
          /\ at' = "unmap" => job'.next = "resize"
      BY <1>5 DEF exit, go, help_loader, reset, sr, mem, wait, resize, Resize, Directive, Done, NoJob,
                  PhaseInv
    <2>3. from' = from
      BY <1>5 DEF exit, go, help_loader, reset, sr, mem, wait, resize, Stays
    <2> QED
      BY <2>1, <2>2, <2>3 DEF WordsInv, Resizing, Polling, PhaseInv
  <1>6. CASE Restore \/ Save \/ WaitBegin \/ WaitPoll \/ WaitEnd
    <2>1. UNCHANGED <<start, cmd, script>> /\ mode' \in {"INTERACTIVE", "MACHINE", "SHUTDOWN"}
      BY <1>6 DEF Restore, Save, WaitBegin, WaitPoll, WaitEnd, Stays, WordsInv
    <2>2. \/ at' \in {"script", "prompt"} /\ at' = from'
          \/ at \in {"restore", "save"} /\ at' = at
          \/ at \in Polling /\ at' \in Polling
      BY <1>6 DEF Restore, Save, WaitBegin, WaitPoll, WaitEnd, Poll, Done, Stays,
                  PhaseInv, Polling
    <2> QED
      BY <2>1, <2>2 DEF WordsInv, Resizing, Polling
  <1> QED
    BY <1>1, <1>2, <1>3, <1>4, <1>5, <1>6 DEF Next, Shell
-----------------------------------------------------------------------------
(* The size *)

LEMMA SizesFit == MemSizes \subseteq 1 .. 4 * GB
  BY SizeAssumption DEF MemSizes

(* What the loader does while the memory is up, resizing apart.            *)
Working ==
  \/ Clear \/ ReadScript \/ Type \/ EndScript
  \/ exit \/ go \/ help_loader \/ reset \/ sr \/ Restore \/ Save \/ mem
  \/ wait \/ WaitBegin \/ WaitPoll \/ WaitEnd

LEMMA WorkingStep ==
  ASSUME PhaseInv, Working
  PROVE  /\ Up /\ (Up' \/ at' = "crash") /\ at' \in Places \ Resizing
         /\ UNCHANGED <<size, data, base_addr, dev, lost>>
         /\ at' # "closed"
  <1>1. CASE ReadScript \/ Type
    <2>1. PICK val : Accept(val)
      BY <1>1 DEF ReadScript, Type
    <2>2. at \in {"script", "prompt"}
      BY <1>1 DEF ReadScript, Type
    <2> QED
      BY <2>1, <2>2 DEF Accept, memVars, devVars, Up, Places, Resizing
  <1>2. CASE Clear \/ Restore
    BY <1>2 DEF Clear, Restore, SetAt, memVars, devVars, Done, Up, Places, Resizing, PhaseInv
  <1>3. CASE EndScript
    BY <1>3 DEF EndScript, memVars, devVars, Up, Places, Resizing
  <1>4. CASE exit \/ go \/ help_loader \/ reset \/ sr \/ Save \/ mem \/ wait \/ WaitBegin
             \/ WaitPoll \/ WaitEnd
    <2>1. UNCHANGED <<size, data, base_addr, dev, lost>>
      BY <1>4 DEF exit, go, help_loader, reset, sr, Save, mem, wait, WaitBegin, WaitPoll, WaitEnd,
                  Stays, memVars, devVars
    <2>2. at \in {"directive", "save", "wait", "waiting", "waited"}
      BY <1>4 DEF exit, go, help_loader, reset, sr, Save, mem, wait, WaitBegin, WaitPoll, WaitEnd,
                  Directive
    <2>3. at' \in {from, at, "clear", "restore", "save", "wait", "waiting", "waited"}
      BY <1>4 DEF exit, go, help_loader, reset, sr, Save, mem, wait, WaitBegin, WaitPoll, WaitEnd,
                  Poll, Done
    <2> QED
      BY <2>1, <2>2, <2>3 DEF Up, Places, Resizing, PhaseInv
  <1> QED
    BY <1>1, <1>2, <1>3, <1>4 DEF Working

LEMMA SizeStep ==
  ASSUME PhaseInv, SizeInv, [Next]_vars
  PROVE  SizeInv'
  <1>1. CASE Connect \/ Boot
    <2>1. UNCHANGED size /\ ~Up'
      BY <1>1 DEF Connect, Boot, Resize, memVars, Up
    <2>2. \/ at' \in {"boot", "closed", "crash"}
          \/ at' = "unmap" /\ (job'.next = "exit" \/ job'.bytes = InitialSize)
      BY <1>1 DEF Connect, Boot, Resize, NoJob
    <2> QED
      BY <2>1, <2>2 DEF SizeInv, MemSizes
  <1>2. CASE Unmap \/ Free \/ Alloc \/ Map
    <2>1. job'.next = job.next
      BY <1>2 DEF Unmap, Free, Alloc, Map, PhaseInv, NoJob
    <2>2. CASE Unmap
      BY <2>2 DEF Unmap, dealloc_unmap, SizeInv, Up
    <2>3. CASE Free
      BY <2>3 DEF Free, SizeInv, Up
    <2>4. CASE Alloc
      BY <2>1, <2>4 DEF Alloc, malloc, SizeInv, Up
    <2>5. CASE Map
      BY <2>5 DEF Map, map_mem, SizeInv, PhaseInv
    <2> QED
      BY <1>2, <2>2, <2>3, <2>4, <2>5
  <1>3. CASE AllocFails
    <2>1. UNCHANGED size /\ ~Up'
      BY <1>3 DEF AllocFails, Resize, memVars, Up
    <2>2. at' = "crash" \/ (at' = "unmap" /\ job'.bytes = RecoverSize)
      BY <1>3 DEF AllocFails, Resize, NoJob
    <2> QED
      BY <2>1, <2>2 DEF SizeInv, MemSizes
  <1>4. CASE Working
    BY <1>4, WorkingStep DEF SizeInv, Resizing, Up
  <1>5. CASE Leave
    BY <1>5 DEF Leave, Resize, NoJob, memVars, SizeInv, Up
  <1>6. CASE resize
    <2>1. UNCHANGED size /\ Up
      BY <1>6 DEF resize, Stays, memVars, Directive, Up
    <2>2. \/ at' = from
          \/ at' = "unmap" /\ job'.bytes \in {2^b : b \in MinBits .. MaxBits}
      BY <1>6 DEF resize, Resize, NoJob, Done
    <2> QED
      BY <2>1, <2>2 DEF SizeInv, PhaseInv, MemSizes, Up
  <1>7. CASE break_machine \/ Device \/ UNCHANGED vars
    <2>1. UNCHANGED <<size, at>> /\ job'.next = job.next /\ job'.bytes = job.bytes
      BY <1>7 DEF break_machine, Device, DevIssue, DevLand, DevCv, vars, memVars, shellVars, PhaseInv,
                  NoJob
    <2> QED
      BY <2>1 DEF SizeInv, Up
  <1> QED
    BY <1>1, <1>2, <1>3, <1>4, <1>5, <1>6, <1>7 DEF Next, Shell, Working

-----------------------------------------------------------------------------
(* The locals *)

(* A number of a line, when it is one.                                     *)
LEMMA NumberIsInt ==
  ASSUME TextTypes, WordsInv, NEW k \in 1 .. Len(cmd), Returned(Number(k))
  PROVE  Number(k).val \in Int
  <1>1. cmd[k] \in Spoken
    BY ElementOfSeq DEF WordsInv
  <1> QED
    BY <1>1, Zenon DEF TextTypes, Number, Returned

LEMMA CountWords ==
  ASSUME WordsInv
  PROVE  Len(cmd) \in Nat
  BY LenProperties DEF WordsInv

LEMMA Cuts ==
  ASSUME NEW v \in Int, NEW n \in Nat \ {0}
  PROVE  v % n \in 0 .. n - 1
  OBVIOUS

(* What .sr does, branch by branch.                                        *)
LEMMA srBranches ==
  ASSUME sr
  PROVE  \/ /\ RestoreArgs /\ at' = "restore" /\ before' = Flat /\ UNCHANGED report
            /\ job' = [job EXCEPT !.begin = Number(4).val, !.file = Files[cmd[3]]]
         \/ /\ SaveArgs /\ at' = "save" /\ UNCHANGED <<report, before>>
            /\ job' = [job EXCEPT !.begin = Number(4).val, !.end = Number(5).val]
         \/ Done("sr error") /\ UNCHANGED <<job, before>>
  BY Zenon DEF sr

LEMMA srLocals ==
  ASSUME TextTypes, PhaseInv, WordsInv, LocalsInv, sr
  PROVE  LocalsInv'
  <1>1. job.k = 0 /\ DOMAIN job = DOMAIN NoJob
    BY DEF sr, Directive, LocalsInv, PhaseInv
  <1>2. CASE RestoreArgs /\ at' = "restore"
             /\ job' = [job EXCEPT !.begin = Number(4).val, !.file = Files[cmd[3]]]
    <2>0. Len(cmd) >= 4 /\ Returned(Number(4))
      BY <1>2, Zenon DEF RestoreArgs, Returned
    <2>1. Number(4).val \in Int
      BY <2>0, NumberIsInt, CountWords
    <2>2. job'.k = 0 /\ job'.begin \in Int
      BY <1>1, <1>2, <2>1 DEF NoJob
    <2> QED
      BY <1>2, <2>2 DEF LocalsInv, Resizing, Polling
  <1>3. CASE SaveArgs /\ at' = "save"
             /\ job' = [job EXCEPT !.begin = Number(4).val, !.end = Number(5).val]
    <2>0. Len(cmd) >= 5 /\ Returned(Number(4)) /\ Returned(Number(5))
      BY <1>3, Zenon DEF SaveArgs, Returned
    <2>1. Number(4).val \in Int /\ Number(5).val \in Int
      BY <2>0, NumberIsInt, CountWords
    <2>2. job'.k = 0 /\ job'.begin \in Int /\ job'.end \in Int
      BY <1>1, <1>3, <2>1 DEF NoJob
    <2> QED
      BY <1>3, <2>2 DEF LocalsInv, Resizing, Polling
  <1>4. CASE at' = from
    BY <1>4 DEF LocalsInv, PhaseInv, Resizing, Polling
  <1> QED
    BY <1>2, <1>3, <1>4, srBranches DEF Done

LEMMA waitLocals ==
  ASSUME TextTypes, PhaseInv, WordsInv, SizeInv, LocalsInv, wait
  PROVE  LocalsInv'
  <1>1. CASE at' = from
    BY <1>1 DEF LocalsInv, PhaseInv, Resizing, Polling
  <1>2. CASE at' = "wait" /\ at' # from
    <2>0. \/ Done("wait error")
          \/ /\ ~(Len(cmd) < 3) /\ Returned(Number(3)) /\ Returned(Timeout)
             /\ cmd[2] # "-m" => Returned(Number(2))
             /\ job' = [job EXCEPT !.mmio = cmd[2] = "-m",
                                   !.begin = IF cmd[2] = "-m" THEN 0 ELSE Number(2).val % size,
                                   !.value = uint8_t(Number(3).val),
                                   !.timeout = uint64_t(Timeout.val)]
      BY Zenon DEF wait, Returned
    <2>1. /\ Len(cmd) >= 3 /\ Returned(Number(3)) /\ Returned(Timeout)
          /\ cmd[2] # "-m" => Returned(Number(2))
          /\ job' = [job EXCEPT !.mmio = cmd[2] = "-m",
                                !.begin = IF cmd[2] = "-m" THEN 0 ELSE Number(2).val % size,
                                !.value = uint8_t(Number(3).val),
                                !.timeout = uint64_t(Timeout.val)]
      <3>1. ~Done("wait error")
        BY <1>2, Zenon DEF Done
      <3>2. Len(cmd) >= 3 <=> ~(Len(cmd) < 3)
        BY CountWords
      <3> QED
        BY <2>0, <3>1, <3>2, Zenon
    <2>2. /\ Number(3).val \in Int /\ (cmd[2] # "-m" => Number(2).val \in Int)
          /\ Len(cmd) >= 4 /\ Returned(Number(4)) => Number(4).val \in Int
      BY <2>1, NumberIsInt, CountWords
    <2>3. Timeout.val \in Int
      <3>1. CASE Len(cmd) >= 4
        BY <2>1, <2>2, <3>1 DEF Timeout
      <3>2. CASE ~(Len(cmd) >= 4)
        <4>1. Timeout.val = DefaultTimeout
          BY <3>2, Zenon DEF Timeout, Return
        <4> QED
          BY <4>1, FilesAssumption
      <3> QED
        BY <3>1, <3>2
    <2>4. uint8_t(Number(3).val) \in Byte /\ uint64_t(Timeout.val) \in Nat
      <3>1. Number(3).val % ByteMod \in 0 .. ByteMod - 1
        BY <2>2, GBAssumption, Cuts
      <3>2. Timeout.val % UIntMod \in 0 .. UIntMod - 1
        BY <2>3, SizeAssumption, Cuts
      <3>3. \A i \in 0 .. UIntMod - 1 : i \in Nat
        BY SizeAssumption
      <3> QED
        BY <3>1, <3>2, <3>3, Zenon DEF uint8_t, uint64_t, Byte
    <2>5. size \in Nat \ {0} /\ size' = size
      <3>1. Up /\ size' = size
        BY Zenon DEF wait, Directive, Up, Stays, memVars
      <3> QED
        BY <3>1, GBAssumption, SizesFit DEF SizeInv
    <2>6. cmd[2] # "-m" => Number(2).val % size \in 0 .. size - 1
      BY <2>2, <2>5, Cuts
    <2>7. /\ job'.k = 0 /\ job'.numms = 0 /\ ~job'.matched
          /\ job'.timeout \in Nat /\ job'.value \in Byte
          /\ ~job'.mmio => job'.begin \in 0 .. size - 1
      BY <2>1, <2>4, <2>6 DEF wait, Directive, LocalsInv, PhaseInv, NoJob
    <2> QED
      BY <1>2, <2>5, <2>7 DEF LocalsInv, Resizing, Polling
  <1> QED
    BY <1>1, <1>2 DEF wait, Done

LEMMA LocalsStep ==
  ASSUME TextTypes, PhaseInv, WordsInv, SizeInv, LocalsInv, [Next]_vars
  PROVE  LocalsInv'
  <1>1. CASE Connect
    BY <1>1 DEF Connect, LocalsInv, Resizing, Polling
  <1>2. CASE Boot \/ Leave \/ (AllocFails /\ Resize(RecoverSize, "recover"))
             \/ (resize /\ Resize(2^Number(2).val, "resize"))
    <2>1. at' = "unmap" /\ job'.k = 0
      BY <1>2 DEF Boot, Leave, Resize, NoJob
    <2> QED
      BY <2>1 DEF LocalsInv, Resizing, Polling
  <1>3. CASE (AllocFails /\ at' = "crash") \/ EndScript \/ exit \/ go \/ help_loader \/ mem \/ WaitEnd
             \/ (resize /\ Done("no resizing"))
    <2>1. at' \in {"crash", "script", "prompt"}
      <3>1. CASE WaitEnd
        BY <3>1 DEF WaitEnd, Done, PhaseInv
      <3> QED
        BY <1>3, <3>1 DEF EndScript, exit, go, help_loader, mem, Done, PhaseInv
    <2> QED
      BY <2>1 DEF LocalsInv, Resizing, Polling
  <1>4. CASE Unmap \/ Free \/ Alloc \/ Map
    <2>1. job.k = 0 /\ job'.k = job.k /\ at' \in Resizing \cup {"closed", "clear", "script", "prompt"}
      BY <1>4 DEF Unmap, Free, Alloc, Map, LocalsInv, PhaseInv, NoJob, Resizing
    <2> QED
      BY <2>1 DEF LocalsInv, Resizing, Polling
  <1>5. CASE ReadScript \/ Type
    <2>1. PICK val \in Lines : Accept(val)
      BY <1>5, LineWords
    <2>2. at' \in {"script", "prompt", "crash", "directive"} /\ job' = NoJob
      BY <1>5, <2>1, LineWords, AcceptWords
    <2> QED
      BY <2>2 DEF LocalsInv, NoJob, Resizing, Polling
  <1>6. CASE reset
    <2>1. at' \in {from, "clear"} /\ job' = job /\ job.k = 0
      BY <1>6 DEF reset, Done, Directive, LocalsInv
    <2> QED
      BY <2>1 DEF LocalsInv, PhaseInv, Resizing, Polling
  <1>7. CASE Clear \/ Restore \/ Save
    <2>1. CASE Clear
      BY <2>1 DEF Clear, LocalsInv, PhaseInv, NoJob, Resizing, Polling
    <2>2. CASE Restore
      BY <2>2 DEF Restore, Done, LocalsInv, PhaseInv, NoJob, Resizing, Polling
    <2>3. CASE Save
      <3>1. size \in Nat \ {0} /\ job.k \in Nat
        BY <2>3, GBAssumption, SizesFit DEF Save, Up, SizeInv, LocalsInv
      <3>2. (job.k + 1) % size \in Nat
        BY <3>1, Cuts
      <3> QED
        BY <2>3, <3>1, <3>2 DEF Save, Done, LocalsInv, PhaseInv, NoJob, Resizing, Polling
    <2> QED
      BY <1>7, <2>1, <2>2, <2>3
  <1>8. CASE WaitBegin \/ WaitPoll
    <2>1. UNCHANGED size /\ at \in Polling /\ at' \in Polling \ {"wait"}
      BY <1>8 DEF WaitBegin, WaitPoll, Poll, Stays, memVars, Polling
    <2>2. /\ job'.k = job.k /\ job'.begin = job.begin /\ job'.mmio = job.mmio
          /\ job'.value = job.value /\ job'.timeout = job.timeout
          /\ job'.numms \in {job.numms, job.numms + 1}
      BY <1>8 DEF WaitBegin, WaitPoll, Poll, PhaseInv, NoJob
    <2> QED
      BY <2>1, <2>2 DEF LocalsInv, Resizing, Polling
  <1>9. CASE break_machine \/ Device \/ UNCHANGED vars
    <2>1. /\ UNCHANGED <<at, size>>
          /\ \A f \in DOMAIN NoJob \ {"pressed"} : job'[f] = job[f]
      BY <1>9 DEF break_machine, Device, DevIssue, DevLand, DevCv, vars, memVars, shellVars, PhaseInv,
                  NoJob
    <2> QED
      BY <2>1 DEF LocalsInv, NoJob
  <1> QED
    BY <1>1, <1>2, <1>3, <1>4, <1>5, <1>6, <1>7, <1>8, <1>9, srLocals, waitLocals
    DEF Next, Shell, AllocFails, resize

-----------------------------------------------------------------------------
(* The bytes *)

Filled == \A b \in DOMAIN buffer_map_ : \A o \in DOMAIN buffer_map_[b] : buffer_map_[b][o] \in Byte

LEMMA StoreFills ==
  ASSUME Filled, NEW buf, NEW off, NEW v \in Byte, Store(buf, off, v)
  PROVE  Filled'
  BY DEF Store, Filled

LEMMA ResizeFills ==
  ASSUME Filled, Unmap \/ Free \/ Alloc \/ Map
  PROVE  Filled'
  <1>1. CASE Unmap \/ Map
    BY <1>1 DEF Unmap, Map, dealloc_unmap, map_mem, Filled
  <1>2. CASE Free
    BY <1>2 DEF Free, dealloc_free, Filled
  <1>3. CASE Alloc
    <2> DEFINE bytes == IF job.bytes >= GB THEN GB ELSE job.bytes
    <2>1. PICK fill \in Byte :
            buffer_map_' = [b \in DOMAIN buffer_map_ \cup {free_id} |->
                              IF b = free_id THEN [o \in 0 .. page_aligned(bytes) - 1 |-> fill]
                                             ELSE buffer_map_[b]]
      BY <1>3 DEF Alloc, malloc
    <2> QED
      BY <2>1 DEF Filled
  <1> QED
    BY <1>1, <1>2, <1>3

LEMMA BytesStep ==
  ASSUME TextTypes, PhaseInv, WordsInv, LocalsInv, StoreInv, BytesInv, [Next]_vars
  PROVE  BytesInv'
  <1>0. Filled /\ dev.val \in Byte /\ 0 \in Byte
    BY GBAssumption DEF BytesInv, Filled, Byte
  <1>1. CASE Unmap \/ Free \/ Alloc \/ Map
    <2>1. at' # "restore"
      BY <1>1 DEF Unmap, Free, Alloc, Map, PhaseInv
    <2>2. dev'.val = dev.val
      BY <1>1 DEF Unmap, Free, Alloc, Map, devVars, StoreInv, NoReq
    <2> QED
      BY <1>0, <1>1, <2>1, <2>2, ResizeFills DEF BytesInv, Filled
  <1>2. CASE Connect \/ Boot \/ AllocFails \/ Leave \/ EndScript \/ ReadScript \/ Type
             \/ exit \/ go \/ help_loader \/ reset \/ mem \/ wait \/ resize
             \/ Save \/ WaitBegin \/ WaitPoll \/ WaitEnd
    <2>1. UNCHANGED <<buffer_map_, dev>>
      <3>1. CASE ReadScript \/ Type
        <4>1. PICK val : Accept(val)
          BY <3>1 DEF ReadScript, Type
        <4> QED
          BY <4>1 DEF Accept, memVars, devVars
      <3> QED
        BY <1>2, <3>1 DEF Connect, Boot, AllocFails, Leave, EndScript, exit, go, help_loader, reset,
           mem, wait, resize, Save, WaitBegin, WaitPoll, WaitEnd, Stays, memVars, devVars
    <2>2. at' # "restore"
      <3>1. CASE ReadScript \/ Type
        BY <3>1, LineWords, AcceptWords
      <3>2. CASE Connect \/ Boot \/ AllocFails \/ Leave \/ EndScript
        BY <3>2 DEF Connect, Boot, AllocFails, Leave, EndScript, Resize
      <3>3. CASE exit \/ go \/ help_loader \/ reset \/ mem \/ wait \/ resize
        BY <3>3 DEF exit, go, help_loader, reset, mem, wait, resize, Done, Resize, PhaseInv
      <3>4. CASE Save \/ WaitBegin \/ WaitPoll \/ WaitEnd
        BY <3>4 DEF Save, WaitBegin, WaitPoll, Poll, WaitEnd, Done, PhaseInv
      <3> QED
        BY <1>2, <3>1, <3>2, <3>3, <3>4
    <2> QED
      BY <2>1, <2>2 DEF BytesInv
  <1>3. CASE Clear
    <2>1. buffer_map_' = buffer_map_ \/ SetAt(job.k, 0)
      BY <1>3 DEF Clear, memVars
    <2>2. Filled'
      BY <1>0, <2>1, StoreFills DEF SetAt, Filled
    <2>3. at' # "restore" /\ dev' = dev
      BY <1>3 DEF Clear, PhaseInv, devVars
    <2> QED
      BY <1>0, <2>2, <2>3 DEF BytesInv, Filled
  <1>4. CASE Restore
    <2>1. job.file \in Seq(Byte) /\ job.k \in Nat
      BY <1>4 DEF Restore, BytesInv, LocalsInv
    <2>2. ~(job.k >= Len(job.file)) => job.file[job.k + 1] \in Byte
      BY <2>1, LenProperties, ElementOfSeq
    <2>3. PICK v \in Byte : SetAt(RestoreByte, v)
      BY <1>0, <1>4, <2>2 DEF Restore
    <2>4. Filled'
      BY <1>0, <2>3, StoreFills DEF SetAt
    <2>5. dev' = dev /\ job'.file = job.file
      BY <1>4 DEF Restore, devVars, PhaseInv, NoJob
    <2> QED
      BY <1>0, <2>1, <2>4, <2>5 DEF BytesInv, Filled
  <1>5. CASE sr
    <2>1. UNCHANGED <<buffer_map_, dev>>
      BY <1>5 DEF sr, Stays, memVars, devVars
    <2>2. at' = "restore" => job'.file \in Seq(Byte)
      <3>1. CASE RestoreArgs /\ job' = [job EXCEPT !.begin = Number(4).val, !.file = Files[cmd[3]]]
        <4>1. job'.file = Files[cmd[3]] /\ cmd[3] \in DOMAIN Files
          BY <3>1 DEF PhaseInv, NoJob, RestoreArgs
        <4> QED
          BY <4>1, FilesAssumption
      <3>2. CASE at' \in {"save", from}
        BY <3>2 DEF PhaseInv
      <3> QED
        BY <1>5, <3>1, <3>2, srBranches DEF Done
    <2> QED
      BY <2>1, <2>2 DEF BytesInv
  <1>6. CASE break_machine \/ DevIssue \/ DevCv \/ UNCHANGED vars
    <2>1. UNCHANGED <<buffer_map_, at>> /\ job'.file = job.file
      BY <1>6 DEF break_machine, DevIssue, DevCv, vars, memVars, shellVars, PhaseInv, NoJob
    <2>2. dev'.val \in Byte
      BY <1>0, <1>6 DEF break_machine, DevIssue, DevCv, vars, devVars
    <2> QED
      BY <2>1, <2>2 DEF BytesInv
  <1>7. CASE DevLand
    <2>1. dev' = NoReq /\ UNCHANGED <<at, job>>
          /\ (buffer_map_' = buffer_map_ \/ Store(dev.buf, dev.off, dev.val))
      BY <1>7 DEF DevLand, shellVars
    <2>2. Filled'
      BY <1>0, <2>1, StoreFills DEF Filled
    <2> QED
      BY <1>0, <2>1, <2>2 DEF BytesInv, Filled, NoReq
  <1> QED
    BY <1>1, <1>2, <1>3, <1>4, <1>5, <1>6, <1>7 DEF Next, Shell, Device

-----------------------------------------------------------------------------
(* What is touched *)

(* A word of .mem has at least one byte, unless an option was bad.         *)
LEMMA BytesOfWord ==
  ASSUME WordsInv, ~BadOption
  PROVE  Bytes \in {1, 2, 4, 8}
  <1>1. CASE Options({"-b"}) = {}
    BY <1>1 DEF Bytes
  <1>2. CASE Options({"-b"}) # {}
    <2>1. Options({"-b"}) \subseteq 1 .. Len(cmd) /\ Len(cmd) \in Nat
      BY CountWords DEF Options
    <2>2. \E i \in Options({"-b"}) : \A j \in Options({"-b"}) : j <= i
      BY <1>2, <2>1, Greatest
    <2>3. LastSize \in Options({"-b"})
      BY <2>2 DEF LastSize
    <2>4. WordBytes(LastSize) \in {2, 4, 8}
      BY <2>3 DEF BadOption
    <2> QED
      BY <1>2, <2>4 DEF Bytes
  <1> QED
    BY <1>1, <1>2

LEMMA RangesAreWords ==
  ASSUME WordsInv
  PROVE  RangeArgs \subseteq 1 .. Len(cmd)
  <1>1. ASSUME NEW names PROVE Cardinality(Options(names)) \in Nat
    <2>1. IsFiniteSet(1 .. Len(cmd))
      BY CountWords, FS_Interval
    <2>2. Options(names) \in SUBSET (1 .. Len(cmd))
      BY DEF Options
    <2> QED
      BY <2>1, <2>2, FS_Subset, FS_CardinalityType
  <1>2. Cardinality(Options({"-h", "-a"})) \in Nat /\ Cardinality(Options({"-b"})) \in Nat
    BY <1>1
  <1> QED
    BY <1>2, CountWords DEF RangeArgs

(* No word of several bytes reaches over the end of the memory.            *)
LEMMA ReadInside ==
  ASSUME TextTypes, WordsInv, ~BadOption, NEW i \in RangeArgs, size \in Nat
  PROVE  ReadBytes(i) \subseteq 0 .. size - 1
  <1> SUFFICES ASSUME ~Malformed(i), NEW j \in 1 .. Count(i), NEW b \in 0 .. Bytes - 1,
                      \A l \in 1 .. j : ~OutOfBounds(WordAt(i, l), Bytes)
               PROVE  WordAt(i, j) + b \in 0 .. size - 1
    BY DEF ReadBytes
  <1>1. cmd[i] \in Spoken
    BY RangesAreWords, ElementOfSeq DEF WordsInv
  <1>2. /\ Ranges[cmd[i]].val.first \in Int /\ Ranges[cmd[i]].val.step \in Int
        /\ Count(i) \in Nat
    BY <1>1, Zenon DEF TextTypes, Malformed, Count
  <1>3. j \in Nat /\ j \in 1 .. j
    BY <1>2
  <1>4. (j - 1) * Ranges[cmd[i]].val.step \in Int
    BY <1>2, <1>3
  <1>5. WordAt(i, j) \in Int
    BY <1>2, <1>4 DEF WordAt
  <1>6. ~OutOfBounds(WordAt(i, j), Bytes)
    BY <1>3
  <1> QED
    BY <1>5, <1>6, BytesOfWord DEF OutOfBounds

LEMMA memTouches ==
  ASSUME TextTypes, WordsInv, size \in Nat, touched = {}, mem
  PROVE  touched' \subseteq 0 .. size - 1
  <1>1. CASE touched' = touched
    BY <1>1
  <1>2. CASE touched' # touched
    <2> DEFINE shown == {i \in RangeArgs : \A k \in RangeArgs : k < i => ~Fails(k)}
    <2>1. ~BadOption /\ touched' = UNION {ReadBytes(i) : i \in shown}
      BY <1>2, Zenon DEF mem
    <2> QED
      BY <2>1, ReadInside
  <1> QED
    BY <1>1, <1>2

LEMMA TouchStep ==
  ASSUME TextTypes, PhaseInv, WordsInv, SizeInv, LocalsInv, TouchInv, [Next]_vars
  PROVE  TouchInv'
  <1>0. Up => size \in Nat \ {0} /\ touched \subseteq 0 .. size - 1
    BY GBAssumption, SizesFit DEF SizeInv, TouchInv
  <1>1. CASE Connect \/ Boot
    <2>1. touched' = {}
      BY <1>1 DEF Connect, Boot, history, TouchInv
    <2> QED
      BY <2>1 DEF TouchInv
  <1>2. CASE Unmap \/ Free \/ Alloc
    <2>1. touched' = touched /\ job'.next = job.next
      BY <1>2 DEF Unmap, Free, Alloc, history, PhaseInv, NoJob
    <2>2. at \in Resizing /\ at' \in Resizing \cup {"closed"}
      BY <1>2 DEF Unmap, Free, Alloc, Resizing
    <2> QED
      BY <2>1, <2>2 DEF TouchInv, Up, Resizing
  <1>3. CASE Map
    <2>1. touched' = touched /\ touched = {} /\ at' \notin {"main", "boot", "directive"} \cup Resizing
      BY <1>3 DEF Map, history, TouchInv, SizeInv, Resizing, PhaseInv
    <2> QED
      BY <2>1 DEF TouchInv
  <1>4. CASE AllocFails
    <2>1. touched' = {}
      BY <1>4 DEF AllocFails, history, TouchInv, SizeInv, Resizing
    <2> QED
      BY <2>1 DEF TouchInv
  <1>5. CASE ReadScript \/ Type
    <2>1. touched' = {}
      BY <1>5 DEF ReadScript, Type, Accept
    <2> QED
      BY <2>1 DEF TouchInv
  <1>6. CASE Leave
    BY <1>6 DEF Leave, Resize, NoJob, TouchInv, Resizing, Up
  <1>7. CASE resize
    <2>1. touched' = {}
      BY <1>7 DEF resize, Directive, TouchInv
    <2> QED
      BY <2>1 DEF TouchInv
  <1>8. CASE EndScript \/ exit \/ go \/ help_loader \/ reset \/ sr \/ wait \/ WaitBegin \/ WaitEnd
    <2>1. Working
      BY <1>8 DEF Working
    <2>2. Up /\ UNCHANGED size /\ at' \notin Resizing
      BY <2>1, WorkingStep
    <2>3. touched' = touched
      BY <1>8 DEF EndScript, exit, go, help_loader, reset, sr, wait, WaitBegin, WaitEnd, history
    <2>4. at' \notin {"main", "boot", "directive"}
      <3>1. CASE sr
        BY <3>1, srBranches DEF Done, PhaseInv
      <3>2. CASE WaitEnd
        BY <3>2 DEF WaitEnd, Done, PhaseInv
      <3> QED
        BY <1>8, <3>1, <3>2 DEF EndScript, exit, go, help_loader, reset, wait, WaitBegin, Done, PhaseInv
    <2> QED
      BY <1>0, <2>2, <2>3, <2>4 DEF TouchInv
  <1>9. CASE Clear \/ Restore \/ Save \/ WaitPoll \/ mem
    <2>1. Working
      BY <1>9 DEF Working
    <2>2. Up /\ UNCHANGED size /\ at' \notin Resizing
      BY <2>1, WorkingStep
    <2>3. touched' \subseteq 0 .. size - 1
      <3>1. CASE Clear
        BY <1>0, <2>2, <3>1 DEF Clear, LocalsInv
      <3>2. CASE Restore
        <4>1. job.begin + job.k \in Int
          BY <3>2 DEF Restore, LocalsInv
        <4> QED
          BY <1>0, <2>2, <3>2, <4>1, Cuts DEF Restore, RestoreByte
      <3>3. CASE Save
        <4>1. job.begin + job.k \in Int
          BY <3>3 DEF Save, LocalsInv
        <4> QED
          BY <1>0, <2>2, <3>3, <4>1, Cuts DEF Save
      <3>4. CASE WaitPoll
        BY <1>0, <2>2, <3>4 DEF WaitPoll, Poll, LocalsInv, Polling
      <3>5. CASE mem
        BY <1>0, <2>2, <3>5, memTouches DEF mem, Directive, TouchInv
      <3> QED
        BY <1>9, <3>1, <3>2, <3>3, <3>4, <3>5
    <2>4. at' \notin {"main", "boot", "directive"}
      BY <1>9 DEF Clear, Restore, Save, WaitPoll, Poll, mem, Done, PhaseInv
    <2> QED
      BY <2>2, <2>3, <2>4 DEF TouchInv
  <1>10. CASE break_machine \/ Device \/ UNCHANGED vars
    <2>1. UNCHANGED <<touched, size, at>> /\ job'.next = job.next
      BY <1>10 DEF break_machine, Device, DevIssue, DevLand, DevCv, vars, memVars, shellVars, history,
                   PhaseInv, NoJob
    <2> QED
      BY <2>1 DEF TouchInv, Up
  <1> QED
    BY <1>1, <1>2, <1>3, <1>4, <1>5, <1>6, <1>7, <1>8, <1>9, <1>10 DEF Next, Shell

-----------------------------------------------------------------------------
(* The wait *)

LEMMA WaitStep ==
  ASSUME PhaseInv, LocalsInv, LocalsInv', WaitInv, [Next]_vars
  PROVE  WaitInv'
  <1>1. CASE Connect \/ Boot \/ Unmap \/ Free \/ Alloc \/ AllocFails \/ Map \/ Clear \/ EndScript \/ Leave
    <2>1. at' \notin Polling
      BY <1>1 DEF Connect, Boot, Unmap, Free, Alloc, AllocFails, Map, Clear, EndScript, Leave, Resize,
                  PhaseInv, Polling
    <2> QED
      BY <2>1 DEF WaitInv, Polling
  <1>2. CASE exit \/ go \/ help_loader \/ reset \/ sr \/ Restore \/ Save \/ mem \/ WaitEnd \/ resize
    <2>1. at' \notin Polling
      <3>1. CASE WaitEnd
        BY <3>1 DEF WaitEnd, Done, PhaseInv, Polling
      <3>2. CASE sr
        BY <3>2, srBranches DEF Done, PhaseInv, Polling
      <3> QED
        BY <1>2, <3>1, <3>2 DEF exit, go, help_loader, reset, Restore, Save, mem, resize, Resize, Done,
           PhaseInv, Polling
    <2> QED
      BY <2>1 DEF WaitInv, Polling
  <1>3. CASE ReadScript \/ Type
    <2>1. at' \notin Polling
      BY <1>3 DEF ReadScript, Type, Accept, Polling
    <2> QED
      BY <2>1 DEF WaitInv, Polling
  <1>4. CASE wait
    <2>1. at' \in {"wait", from} /\ job'.numms = 0
      BY <1>4 DEF wait, Directive, Done, LocalsInv, PhaseInv, NoJob
    <2>2. at' = "wait" => job'.timeout \in Nat
      BY DEF LocalsInv, Polling
    <2> QED
      BY <2>1, <2>2 DEF WaitInv, PhaseInv, Polling
  <1>5. CASE WaitBegin
    BY <1>5 DEF WaitBegin, WaitInv, LocalsInv, Polling
  <1>6. CASE WaitPoll
    <2>1. job.numms \in Nat /\ job.timeout \in Nat /\ job.numms <= job.timeout /\ mode' = mode
          /\ at = "waiting" /\ ~job.matched /\ (mode = "MACHINE" \/ job.pressed)
      BY <1>6 DEF WaitPoll, WaitInv, LocalsInv, Polling
    <2>2. CASE Waiting
      <3>1. /\ \/ at' = "waited" /\ job'.matched
               \/ at' = "waiting" /\ ~job'.matched
            /\ job'.timeout = job.timeout /\ job'.pressed = job.pressed
            /\ job'.numms = IF job'.matched \/ job.timeout = 0 THEN job.numms ELSE job.numms + 1
        BY <1>6, <2>2, <2>1 DEF WaitPoll, Poll, PhaseInv, NoJob
      <3> QED
        BY <2>1, <2>2, <3>1 DEF WaitInv, Waiting, Polling
    <2>3. CASE ~Waiting
      <3>1. at' = "waited" /\ job' = job
        BY <1>6, <2>3 DEF WaitPoll
      <3> QED
        BY <2>1, <2>3, <3>1 DEF WaitInv, Waiting, Polling
    <2> QED
      BY <2>2, <2>3
  <1>7. CASE break_machine
    <2>1. /\ at' = at /\ mode' = "INTERACTIVE"
          /\ job'.pressed = TRUE /\ job'.matched = job.matched
          /\ job'.numms = job.numms /\ job'.timeout = job.timeout
      BY <1>7 DEF break_machine, PhaseInv, NoJob
    <2> QED
      BY <2>1 DEF WaitInv
  <1>8. CASE Device \/ UNCHANGED vars
    <2>1. UNCHANGED <<at, mode, job>>
      BY <1>8 DEF Device, DevIssue, DevLand, DevCv, vars, shellVars
    <2> QED
      BY <2>1 DEF WaitInv
  <1> QED
    BY <1>1, <1>2, <1>3, <1>4, <1>5, <1>6, <1>7, <1>8 DEF Next, Shell

-----------------------------------------------------------------------------
(* What is said of a wait *)

LEMMA ReportStep ==
  ASSUME PhaseInv, WordsInv, LocalsInv, WaitInv, ReportHonest, [Next]_vars
  PROVE  ReportHonest'
  <1>1. CASE Connect \/ Boot \/ Unmap \/ Free \/ Alloc \/ AllocFails \/ Leave
    <2>1. at' \notin {"script", "prompt"} /\ from' \in {"script", "prompt"}
      BY <1>1 DEF Connect, Boot, Unmap, Free, Alloc, AllocFails, Leave, Resize, shellVars, PhaseInv
    <2> QED
      BY <2>1 DEF ReportHonest
  <1>2. CASE Map
    <2>1. \/ job.next = "boot" /\ cmd' = <<>>
          \/ at' = "clear" /\ from' \in {"script", "prompt"}
      BY <1>2 DEF Map, WordsInv, Resizing, shellVars, PhaseInv
    <2> QED
      BY <2>1 DEF ReportHonest
  <1>3. CASE ReadScript \/ Type
    <2>1. report' \notin {"timed out", "observed", "aborted"}
      BY <1>3 DEF ReadScript, Type, Accept
    <2> QED
      BY <2>1 DEF ReportHonest
  <1>4. CASE EndScript
    <2>1. at = "script" /\ UNCHANGED <<cmd, report, job>> /\ from = "script"
      BY <1>4 DEF EndScript, WordsInv
    <2> QED
      BY <2>1 DEF ReportHonest
  <1>5. CASE Clear \/ Restore \/ Save \/ exit \/ go \/ help_loader \/ reset \/ sr \/ mem \/ resize \/ wait
    <2>1. report' \notin {"timed out", "observed", "aborted"} \/ at' # from'
      <3>1. CASE sr
        BY <3>1, srBranches DEF Done, sr, Stays, PhaseInv
      <3>2. CASE Clear \/ Restore
        BY <3>2 DEF Clear, Restore, Done, PhaseInv
      <3>3. CASE Save \/ exit \/ go \/ help_loader \/ reset \/ mem \/ resize \/ wait
        BY <3>3 DEF Save, exit, go, help_loader, reset, mem, resize, wait, Done, Resize, Stays, PhaseInv
      <3> QED
        BY <1>5, <3>1, <3>2, <3>3
    <2> QED
      BY <2>1 DEF ReportHonest
  <1>6. CASE WaitBegin \/ WaitPoll
    <2>1. at' \in {"waiting", "waited"} /\ from' = from
      BY <1>6 DEF WaitBegin, WaitPoll, Poll, Stays
    <2> QED
      BY <2>1 DEF ReportHonest, PhaseInv
  <1>7. CASE WaitEnd
    <2>1. at = "waited" /\ job' = job
      BY <1>7 DEF WaitEnd
    <2>2. \/ job.numms = job.timeout /\ job.timeout # 0 /\ report' = "timed out"
          \/ (job.numms # job.timeout \/ job.timeout = 0) /\ mode # "MACHINE" /\ report' = "aborted"
          \/ (job.numms # job.timeout \/ job.timeout = 0) /\ mode = "MACHINE" /\ report' = "observed"
      BY <1>7, Zenon DEF WaitEnd, Done
    <2>3. /\ mode = "MACHINE" \/ job.pressed
          /\ IF job.matched THEN job.numms < job.timeout \/ job.timeout = 0
             ELSE mode # "MACHINE" \/ (job.numms >= job.timeout /\ job.timeout # 0)
          /\ job.numms <= job.timeout /\ job.numms \in Nat /\ job.timeout \in Nat
      BY <2>1 DEF WaitInv, LocalsInv, Polling
    <2>4. report' = "timed out" => job.numms = job.timeout /\ ~job.matched
      <3>1. report' = "timed out" => job.numms = job.timeout /\ job.timeout # 0
        BY <2>2
      <3>2. job.matched => job.numms # job.timeout \/ job.timeout = 0
        BY <2>3
      <3> QED
        BY <3>1, <3>2
    <2>5. report' = "observed" => job.matched
      <3>1. report' = "observed" => (job.numms # job.timeout \/ job.timeout = 0) /\ mode = "MACHINE"
        BY <2>2
      <3>2. ~job.matched => mode # "MACHINE" \/ (job.numms = job.timeout /\ job.timeout # 0)
        BY <2>3
      <3> QED
        BY <3>1, <3>2
    <2>6. report' = "aborted" => job.pressed
      BY <2>2, <2>3
    <2> QED
      BY <2>1, <2>4, <2>5, <2>6 DEF ReportHonest
  <1>8. CASE break_machine
    <2>1. /\ UNCHANGED <<at, from, cmd, report>> /\ job'.pressed = TRUE /\ job'.matched = job.matched
          /\ job'.numms = job.numms /\ job'.timeout = job.timeout
      BY <1>8 DEF break_machine, PhaseInv, NoJob
    <2> QED
      BY <2>1 DEF ReportHonest
  <1>9. CASE Device \/ UNCHANGED vars
    <2>1. UNCHANGED <<at, from, cmd, report, job>>
      BY <1>9 DEF Device, DevIssue, DevLand, DevCv, vars, shellVars
    <2> QED
      BY <2>1 DEF ReportHonest
  <1> QED
    BY <1>1, <1>2, <1>3, <1>4, <1>5, <1>6, <1>7, <1>8, <1>9 DEF Next, Shell

-----------------------------------------------------------------------------
(* One byte *)

(* Two addresses with the same segment and offset are the same.            *)
LEMMA SameByte ==
  ASSUME NEW a \in Nat, NEW b \in Nat, a < 4 * GB, b < 4 * GB,
         segno(a) = segno(b), offset(a) = offset(b)
  PROVE  a = b
  <1>1. a = segno(a) * GB + offset(a) /\ b = segno(b) * GB + offset(b)
    BY Segmented
  <1> QED
    BY <1>1

LEMMA InMemory ==
  ASSUME CoverInv, Up, NEW a \in 0 .. size - 1
  PROVE  /\ a \in Nat /\ a < 4 * GB /\ Backed(a) /\ base_addr = data
         /\ segno(a) \in Segs /\ offset(a) \in 0 .. GB - 1
  <1>1. size \in 0 .. 4 * GB /\ base_addr = data /\ \A s \in Segs : Covers(s)
    BY DEF CoverInv
  <1>2. a \in Nat /\ a < 4 * GB
    BY <1>1, GBAssumption
  <1>3. segno(a) \in Segs /\ offset(a) \in 0 .. GB - 1 /\ a = segno(a) * GB + offset(a)
    BY <1>2, Segmented
  <1>4. segno(a) * GB + offset(a) < size
    BY <1>1, <1>3, GBAssumption
  <1> QED
    BY <1>1, <1>2, <1>3, <1>4 DEF Covers, Backed

(* A byte written through an address is the byte of that address only.     *)
LEMMA StoresOne ==
  ASSUME MappedInv, CoverInv, NothingLeaks, Up, NEW i \in 0 .. size - 1, NEW v,
         Store(data[segno(i)], offset(i), v), data' = data
  PROVE  \A a \in 0 .. size - 1 : At(a)' = IF a = i THEN v ELSE At(a)
  <1> SUFFICES ASSUME NEW a \in 0 .. size - 1
               PROVE  At(a)' = IF a = i THEN v ELSE At(a)
    OBVIOUS
  <1>1. Backed(i) /\ Backed(a) /\ segno(i) \in Segs /\ segno(a) \in Segs
    BY InMemory
  <1>2. buffer_map_' = [buffer_map_ EXCEPT ![data[segno(i)]][offset(i)] = v]
    BY DEF Store
  <1>3. At(a)' = buffer_map_'[data[segno(a)]][offset(a)]
    BY DEF At
  <1>4. CASE data[segno(a)] = data[segno(i)] /\ offset(a) = offset(i)
    <2>1. data[segno(a)] # NULL
      BY <1>1 DEF Backed, NothingLeaks
    <2>2. segno(a) = segno(i)
      BY <1>1, <1>4, <2>1 DEF NothingLeaks
    <2>3. a = i
      BY <1>4, <2>2, InMemory, SameByte
    <2> QED
      BY <1>1, <1>2, <1>3, <1>4, <2>3 DEF Backed
  <1>5. CASE ~(data[segno(a)] = data[segno(i)] /\ offset(a) = offset(i))
    <2>1. a # i
      BY <1>5
    <2>2. buffer_map_'[data[segno(a)]][offset(a)] = buffer_map_[data[segno(a)]][offset(a)]
      BY <1>1, <1>2, <1>5 DEF Backed
    <2> QED
      BY <1>3, <2>1, <2>2 DEF At
  <1> QED
    BY <1>4, <1>5

(* Distances around a memory of n bytes.                                   *)
LEMMA Around ==
  ASSUME NEW n \in Nat \ {0}, NEW b \in Int, NEW k \in 0 .. n - 1, NEW a \in 0 .. n - 1
  PROVE  a = (b + k) % n <=> (a - b) % n = k
  <1> DEFINE q == (b + k) \div n
             r == (b + k) % n
             p == (a - b) \div n
             s == (a - b) % n
  <1>1. q \in Int /\ r \in 0 .. n - 1 /\ b + k = (q * n) + r
    OBVIOUS
  <1>2. p \in Int /\ s \in 0 .. n - 1 /\ a - b = (p * n) + s
    OBVIOUS
  <1>3. \A m \in Int : -n < m * n /\ m * n < n => m = 0
    <2> SUFFICES ASSUME NEW m \in Int, -n < m * n, m * n < n PROVE m = 0
      OBVIOUS
    <2>1. m >= 1 => m * n >= n
      OBVIOUS
    <2>2. m <= -1 => m * n <= -n
      OBVIOUS
    <2> QED
      BY <2>1, <2>2
  <1>4. (q + p) * n = (q * n) + (p * n) /\ q + p \in Int /\ q * n \in Int /\ p * n \in Int
    BY <1>1, <1>2
  <1> HIDE DEF q, r, p, s
  <1>5. (q + p) * n = (a - r) + (k - s)
    BY <1>1, <1>2, <1>4
  <1>6. a = r => q + p = 0 /\ s = k
    <2> HAVE a = r
    <2>1. -n < (q + p) * n /\ (q + p) * n < n
      BY <1>2, <1>5
    <2>2. q + p = 0
      BY <1>3, <1>4, <2>1
    <2> QED
      BY <1>2, <1>5, <2>2
  <1>7. s = k => a = r
    <2> HAVE s = k
    <2>1. -n < (q + p) * n /\ (q + p) * n < n
      BY <1>1, <1>5
    <2>2. q + p = 0
      BY <1>3, <1>4, <2>1
    <2> QED
      BY <1>1, <1>5, <2>2
  <1> QED
    BY <1>6, <1>7 DEF r, s

-----------------------------------------------------------------------------
(* The device's store *)

LEMMA WorkingKeeps ==
  ASSUME PhaseInv, Working
  PROVE  SameBuffers
  <1>1. CASE Clear
    BY <1>1, StoreKeeps DEF Clear, SetAt, memVars, SameBuffers
  <1>2. CASE Restore
    BY <1>2, StoreKeeps DEF Restore, SetAt
  <1>3. CASE ReadScript \/ Type
    <2>1. UNCHANGED memVars
      BY <1>3 DEF ReadScript, Type, Accept
    <2> QED
      BY <2>1 DEF memVars, SameBuffers
  <1>4. CASE EndScript \/ exit \/ go \/ help_loader \/ reset \/ sr \/ Save \/ mem \/ wait \/ WaitBegin
             \/ WaitPoll \/ WaitEnd
    <2>1. UNCHANGED memVars
      BY <1>4 DEF EndScript, exit, go, help_loader, reset, sr, Save, mem, wait, WaitBegin, WaitPoll,
                  WaitEnd, Stays
    <2> QED
      BY <2>1 DEF memVars, SameBuffers
  <1> QED
    BY <1>1, <1>2, <1>3, <1>4 DEF Working

LEMMA AimStays ==
  ASSUME Aimed, SameBuffers, UNCHANGED dev
  PROVE  Aimed'
  BY DEF Aimed, Lands, SameBuffers

LEMMA StaleNothing == [NoReq EXCEPT !.fresh = FALSE] = NoReq
  <1>1. NoReq.fresh = FALSE
    BY Zenon DEF NoReq
  <1>2. NoReq = [f \in DOMAIN NoReq |-> NoReq[f]]
    BY DEF NoReq
  <1>3. [NoReq EXCEPT !.fresh = FALSE] = [f \in DOMAIN NoReq |-> NoReq[f]]
    BY <1>1, <1>2, Zenon
  <1> QED
    BY <1>2, <1>3

LEMMA FreshStep ==
  ASSUME PhaseInv, CoverInv, StoreInv, FreshInv, [Next]_vars
  PROVE  FreshInv'
  <1>1. CASE Connect \/ Boot \/ Leave \/ AllocFails
    <2>1. ~Up' /\ dev' = dev /\ at' \notin {"free", "alloc"}
      BY <1>1 DEF Connect, Boot, Leave, AllocFails, Resize, devVars, Up
    <2> QED
      BY <2>1 DEF FreshInv
  <1>2. CASE Unmap
    <2>1. /\ ~Up' /\ dev' = [dev EXCEPT !.fresh = FALSE]
      BY <1>2 DEF Unmap, Up
    <2>2. dev'.inside = dev.inside /\ dev'.fresh = FALSE /\ dev'.off = dev.off
      BY <2>1 DEF StoreInv, NoReq
    <2>3. dev = NoReq => dev' = NoReq
      BY <2>1, StaleNothing
    <2> QED
      BY <2>1, <2>2, <2>3 DEF FreshInv
  <1>3. CASE Free \/ Alloc \/ Map
    <2>1. dev' = dev /\ at \in {"free", "alloc"}
      BY <1>3 DEF Free, Alloc, Map, devVars
    <2> QED
      BY <2>1 DEF FreshInv
  <1>4. CASE Working
    <2>1. Up /\ UNCHANGED <<size, dev>> /\ at' \notin {"free", "alloc"} /\ SameBuffers
      BY <1>4, WorkingStep, WorkingKeeps DEF Resizing
    <2>2. Aimed => Aimed'
      BY <2>1, AimStays
    <2> QED
      BY <2>1, <2>2 DEF FreshInv
  <1>5. CASE resize
    <2>1. Up /\ UNCHANGED <<memVars, dev>> /\ at' \notin {"free", "alloc"}
      BY <1>5 DEF resize, Directive, Stays, devVars, Resize, Done, Up, PhaseInv
    <2>2. Aimed => Aimed'
      BY <2>1, AimStays DEF memVars, SameBuffers
    <2> QED
      BY <2>1, <2>2 DEF FreshInv, memVars
  <1>6. CASE break_machine \/ DevCv \/ UNCHANGED vars
    <2>1. UNCHANGED <<memVars, dev, at>>
      BY <1>6 DEF break_machine, DevCv, vars, shellVars, devVars, memVars
    <2>2. Aimed => Aimed'
      BY <2>1, AimStays DEF memVars, SameBuffers
    <2>3. Up' <=> Up
      BY <2>1 DEF Up
    <2> QED
      BY <2>1, <2>2, <2>3 DEF FreshInv, memVars
  <1>7. CASE DevIssue
    <2>1. UNCHANGED <<memVars, at>>
      BY <1>7 DEF DevIssue
    <2>2. PICK a \in 0 .. 4 * GB - 1, v \in Byte :
            dev' = [buf |-> base_addr[segno(a)], off |-> offset(a), addr |-> a, val |-> v,
                    inside |-> Up /\ a < size, fresh |-> Up /\ a < size]
      BY <1>7 DEF DevIssue
    <2>3. (Up' <=> Up) /\ size' = size /\ at' = at
      BY <2>1 DEF Up, memVars
    <2>4. dev'.inside \in BOOLEAN /\ dev'.fresh \in BOOLEAN
      BY <2>2
    <2>5. offset(a) \in 0 .. GB - 1
      BY Segmented, GBAssumption
    <2>6. dev'.off = offset(a)
      BY <2>2
    <2>7. ASSUME Up, dev'.inside PROVE Aimed' /\ dev'.addr < size
      <3>0. dev'.inside => a < size
        BY <2>2, Zenon
      <3>1. a \in 0 .. size - 1
        BY <2>7, <3>0, GBAssumption DEF CoverInv
      <3>2. Backed(a) /\ base_addr = data
        BY <2>7, <3>1, InMemory
      <3> QED
        BY <2>1, <2>2, <3>1, <3>2, GBAssumption DEF Aimed, Lands, Backed, memVars, CoverInv
    <2>8. dev'.fresh => Up
      BY <2>2
    <2>9. at' \in {"free", "alloc"} => ~dev'.fresh
      BY <2>3, <2>8 DEF Up
    <2> QED
      BY <2>3, <2>4, <2>5, <2>6, <2>7, <2>9 DEF FreshInv
  <1>8. CASE DevLand
    BY <1>8 DEF DevLand, NoReq, FreshInv
  <1> QED
    BY <1>1, <1>2, <1>3, <1>4, <1>5, <1>6, <1>7, <1>8 DEF Next, Shell, Device, Working

-----------------------------------------------------------------------------
(* The restore *)

LEMMA StillStep ==
  ASSUME RestoreInv, [Next]_vars
  PROVE  (~running => dev = NoReq)'
  <1>1. CASE Unmap
    BY <1>1, StaleNothing DEF Unmap, shellVars, RestoreInv
  <1>2. CASE Device
    BY <1>2 DEF Device, DevIssue, DevLand, DevCv, shellVars, devVars, RestoreInv
  <1>3. CASE ReadScript \/ Type
    BY <1>3 DEF ReadScript, Type, Accept, devVars, RestoreInv
  <1>4. CASE Connect \/ Boot \/ Free \/ Alloc \/ AllocFails \/ Map \/ EndScript \/ Leave
             \/ break_machine \/ UNCHANGED vars
    BY <1>4 DEF Connect, Boot, Free, Alloc, AllocFails, Map, EndScript, Leave, break_machine, vars,
                shellVars, devVars, RestoreInv
  <1>5. CASE Clear \/ Restore
    BY <1>5 DEF Clear, Restore, devVars, RestoreInv
  <1>6. CASE exit \/ go \/ help_loader \/ reset \/ sr \/ Save \/ mem \/ wait \/ WaitBegin \/ WaitPoll
             \/ WaitEnd \/ resize
    <2>1. Stays /\ (running' = running \/ running')
      BY <1>6 DEF exit, go, help_loader, reset, sr, Save, mem, wait, WaitBegin, WaitPoll, WaitEnd, resize
    <2> QED
      BY <2>1 DEF Stays, devVars, RestoreInv
  <1> QED
    BY <1>1, <1>2, <1>3, <1>4, <1>5, <1>6 DEF Next, Shell

(* A byte of the file, or the zero after it, goes to its place.            *)
LEMMA RestoreByteLands ==
  ASSUME MappedInv, PhaseInv, CoverInv, NothingLeaks, SizeInv, BytesInv, LocalsInv, RestoreInv, Restore,
         ~running, Len(job.file) < size
  PROVE  /\ job.k \in 0 .. Len(job.file) /\ size' = size /\ before' = before
         /\ job' = [job EXCEPT !.k = @ + 1]
         /\ \A a \in 0 .. size - 1 :
              /\ Place(a) \in 0 .. size - 1
              /\ At(a)' = IF Place(a) < job.k THEN job.file[Place(a) + 1]
                          ELSE IF Place(a) = job.k
                          THEN (IF job.k = Len(job.file) THEN 0 ELSE job.file[job.k + 1])
                          ELSE before[a]
  <1> DEFINE v == IF job.k >= Len(job.file) THEN 0 ELSE job.file[job.k + 1]
  <1>1. size \in Nat \ {0} /\ job.k \in Nat /\ job.begin \in Int /\ Up
    BY GBAssumption, SizesFit DEF Restore, SizeInv, LocalsInv, Up
  <1>2. Len(job.file) \in Nat
    BY LenProperties DEF Restore, BytesInv
  <1>3. job.k <= Len(job.file)
        /\ \A a \in 0 .. size - 1 :
             At(a) = IF Place(a) < job.k THEN job.file[Place(a) + 1] ELSE before[a]
    BY DEF Restore, RestoreInv
  <1>4. job.k \in 0 .. size - 1
    BY <1>1, <1>2, <1>3
  <1>5. RestoreByte \in 0 .. size - 1
    <2>1. job.begin + job.k \in Int
      BY <1>1
    <2> QED
      BY <1>1, <2>1, Cuts DEF RestoreByte
  <1>6. Store(data[segno(RestoreByte)], offset(RestoreByte), v) /\ data' = data /\ size' = size
    BY DEF Restore, SetAt
  <1>7. \A a \in 0 .. size - 1 : At(a)' = IF a = RestoreByte THEN v ELSE At(a)
    BY <1>1, <1>5, <1>6, StoresOne
  <1>8. \A a \in 0 .. size - 1 : a = RestoreByte <=> Place(a) = job.k
    BY <1>1, <1>4, Around DEF RestoreByte, Place
  <1>9. \A a \in 0 .. size - 1 : Place(a) \in 0 .. size - 1
    <2> SUFFICES ASSUME NEW a \in 0 .. size - 1 PROVE Place(a) \in 0 .. size - 1
      OBVIOUS
    <2>1. a - job.begin \in Int
      BY <1>1
    <2> QED
      BY <1>1, <2>1, Cuts DEF Place
  <1>10. v = IF job.k = Len(job.file) THEN 0 ELSE job.file[job.k + 1]
    BY <1>1, <1>2, <1>3
  <1> HIDE DEF v
  <1>11. \A a \in 0 .. size - 1 :
           At(a)' = IF Place(a) < job.k THEN job.file[Place(a) + 1]
                    ELSE IF Place(a) = job.k THEN v ELSE before[a]
    <2> SUFFICES ASSUME NEW a \in 0 .. size - 1
                 PROVE  At(a)' = IF Place(a) < job.k THEN job.file[Place(a) + 1]
                                 ELSE IF Place(a) = job.k THEN v ELSE before[a]
      OBVIOUS
    <2>1. Place(a) = job.k => ~(Place(a) < job.k)
      BY <1>1
    <2> QED
      BY <1>3, <1>7, <1>8, <2>1
  <1> QED
    BY <1>1, <1>2, <1>3, <1>6, <1>9, <1>10, <1>11 DEF Restore

(* The memory the properties of a restore look at stays.                   *)
LEMMA StillBytes ==
  ASSUME UNCHANGED <<size, data, buffer_map_, before>>, job'.begin = job.begin, job'.file = job.file
  PROVE  /\ \A a : At(a)' = At(a)
         /\ \A a : Place(a)' = Place(a)
  BY DEF At, Place

(* While nothing runs, neither the device nor the signal changes what a    *)
(* restore has to do.                                                      *)
LEMMA BesideStill ==
  ASSUME PhaseInv, RestoreInv, break_machine \/ Device \/ UNCHANGED vars, ~running'
  PROVE  /\ UNCHANGED <<size, data, buffer_map_, before, at, from, report, running>>
         /\ job'.begin = job.begin /\ job'.file = job.file /\ job'.k = job.k
  <1>1. running' = running
    BY DEF break_machine, Device, DevIssue, DevLand, DevCv, vars, shellVars
  <1>2. dev = NoReq /\ ~running
    BY <1>1 DEF RestoreInv
  <1>3. break_machine \/ UNCHANGED vars
    BY <1>2 DEF Device, DevIssue, DevLand, DevCv
  <1> QED
    BY <1>3 DEF break_machine, vars, memVars, shellVars, history, PhaseInv, NoJob

LEMMA RestoreStep ==
  ASSUME TextTypes, MappedInv, PhaseInv, CoverInv, NothingLeaks, WordsInv, SizeInv, BytesInv, BytesInv',
         LocalsInv, LocalsInv', RestoreInv, [Next]_vars
  PROVE  RestoreInv'
  <1>0. (~running => dev = NoReq)'
    BY StillStep
  <1> SUFFICES ASSUME at' = "restore", ~running', Len(job'.file) < size'
               PROVE  /\ job'.k <= Len(job'.file)
                      /\ \A a \in 0 .. size' - 1 :
                           At(a)' = IF Place(a)' < job'.k THEN job'.file[Place(a)' + 1] ELSE before'[a]
    BY <1>0 DEF RestoreInv
  <1>1. CASE Restore
    <2>1. ~running /\ job' = [job EXCEPT !.k = @ + 1] /\ ~(job.k >= Len(job.file))
      BY <1>1 DEF Restore, Done, PhaseInv
    <2>2. job'.k = job.k + 1 /\ job'.file = job.file /\ job'.begin = job.begin
      BY <2>1 DEF PhaseInv, NoJob
    <2>3. Len(job.file) < size
      BY <1>1, <2>2 DEF Restore, SetAt
    <2>4. /\ job.k \in 0 .. Len(job.file) /\ size' = size /\ before' = before
          /\ \A a \in 0 .. size - 1 :
               /\ Place(a) \in 0 .. size - 1
               /\ At(a)' = IF Place(a) < job.k THEN job.file[Place(a) + 1]
                           ELSE IF Place(a) = job.k
                           THEN (IF job.k = Len(job.file) THEN 0 ELSE job.file[job.k + 1])
                           ELSE before[a]
      BY <1>1, <2>1, <2>3, RestoreByteLands
    <2>5. Len(job.file) \in Nat
      BY <1>1, LenProperties DEF Restore, BytesInv
    <2>6. \A a : Place(a)' = Place(a)
      BY <2>2, <2>4 DEF Place
    <2>7. ASSUME NEW a \in 0 .. size - 1
          PROVE  At(a)' = IF Place(a) < job.k + 1 THEN job.file[Place(a) + 1] ELSE before[a]
      <3>1. Place(a) < job.k + 1 <=> Place(a) < job.k \/ Place(a) = job.k
        BY <2>4, <2>5
      <3>2. job.k # Len(job.file)
        BY <2>1, <2>4, <2>5
      <3> QED
        BY <2>4, <3>1, <3>2
    <2>8. job.k + 1 <= Len(job.file)
      BY <2>1, <2>4, <2>5
    <2> QED
      BY <2>2, <2>4, <2>6, <2>7, <2>8
  <1>2. CASE sr
    <2>1. UNCHANGED <<size, data, buffer_map_>> /\ Up
      BY <1>2 DEF sr, Stays, memVars, Directive, Up
    <2>2. before' = Flat /\ job'.k = 0
      BY <1>2, srBranches DEF Done, PhaseInv, NoJob, sr, Directive, LocalsInv
    <2>3. size \in Nat \ {0} /\ Len(job'.file) \in Nat
      BY <2>1, GBAssumption, SizesFit, LenProperties DEF SizeInv, BytesInv
    <2>4. job'.begin \in Int
      BY DEF LocalsInv
    <2>5. ASSUME NEW a \in 0 .. size - 1 PROVE At(a)' = before'[a] /\ ~(Place(a)' < job'.k)
      <3>1. a - job'.begin \in Int
        BY <2>3, <2>4
      <3>2. Place(a)' \in 0 .. size - 1
        BY <2>1, <2>3, <3>1, Cuts DEF Place
      <3>3. At(a)' = At(a)
        BY <2>1 DEF At
      <3> QED
        BY <2>2, <3>2, <3>3 DEF Flat
    <2> QED
      BY <2>1, <2>2, <2>3, <2>5
  <1>3. CASE break_machine \/ Device \/ UNCHANGED vars
    BY <1>3, BesideStill, StillBytes DEF RestoreInv
  <1>4. CASE ReadScript \/ Type
    BY <1>4, LineWords, AcceptWords
  <1>5. CASE Connect \/ Boot \/ Unmap \/ Free \/ Alloc \/ AllocFails \/ Map \/ Clear \/ EndScript \/ Leave
    BY <1>5 DEF Connect, Boot, Unmap, Free, Alloc, AllocFails, Map, Clear, EndScript, Leave, Resize,
                PhaseInv
  <1>6. CASE exit \/ go \/ help_loader \/ reset \/ mem \/ wait \/ resize
    BY <1>6 DEF exit, go, help_loader, reset, mem, wait, resize, Resize, Done, PhaseInv
  <1>7. CASE Save \/ WaitBegin \/ WaitPoll \/ WaitEnd
    BY <1>7 DEF Save, WaitBegin, WaitPoll, Poll, WaitEnd, Done, PhaseInv
  <1> QED
    BY <1>1, <1>2, <1>3, <1>4, <1>5, <1>6, <1>7 DEF Next, Shell

LEMMA LandsStep ==
  ASSUME MappedInv, PhaseInv, CoverInv, NothingLeaks, WordsInv, SizeInv, BytesInv, LocalsInv,
         RestoreInv, RestoreLands, [Next]_vars
  PROVE  RestoreLands'
  <1> DEFINE Landed(a) == At(a) = CASE Place(a) < Len(job.file) -> job.file[Place(a) + 1]
                                    [] Place(a) = Len(job.file) -> 0
                                    [] OTHER -> before[a]
  <1>0. RestoreLands <=> (at = from /\ report = "squashed" /\ ~running /\ Len(job.file) < size =>
                            \A a \in 0 .. size - 1 : Landed(a))
    BY Zenon DEF RestoreLands, Place
  <1>1. CASE Restore
    <2> SUFFICES ASSUME at' = from', ~running', Len(job'.file) < size'
                 PROVE  \A a \in 0 .. size' - 1 : Landed(a)'
      BY Zenon DEF RestoreLands, Place
    <2>1. ~running /\ from' = from /\ at = "restore" /\ job' = [job EXCEPT !.k = @ + 1] /\ size' = size
      BY <1>1 DEF Restore, SetAt
    <2>2. job.k >= Len(job.file)
      BY <1>1, <2>1 DEF Restore, PhaseInv
    <2>3. job'.file = job.file /\ job'.begin = job.begin
      BY <2>1 DEF PhaseInv, NoJob
    <2>4. /\ job.k \in 0 .. Len(job.file) /\ size' = size /\ before' = before
          /\ \A a \in 0 .. size - 1 :
               /\ Place(a) \in 0 .. size - 1
               /\ At(a)' = IF Place(a) < job.k THEN job.file[Place(a) + 1]
                           ELSE IF Place(a) = job.k
                           THEN (IF job.k = Len(job.file) THEN 0 ELSE job.file[job.k + 1])
                           ELSE before[a]
      BY <1>1, <2>1, <2>3, RestoreByteLands
    <2>5. Len(job.file) \in Nat
      BY <1>1, LenProperties DEF Restore, BytesInv
    <2>6. job.k = Len(job.file)
      BY <2>2, <2>4, <2>5
    <2>7. \A a : Place(a)' = Place(a)
      BY <2>1, <2>3 DEF Place
    <2>8. ASSUME NEW a \in 0 .. size - 1 PROVE Landed(a)'
      <3>1. At(a)' = IF Place(a) < Len(job.file) THEN job.file[Place(a) + 1]
                     ELSE IF Place(a) = Len(job.file) THEN 0 ELSE before[a]
        BY <2>4, <2>6
      <3>2. Place(a) < Len(job.file) => Place(a) # Len(job.file)
        BY <2>4, <2>5
      <3> QED
        BY <2>3, <2>4, <2>7, <3>1, <3>2, Zenon
    <2> QED
      BY <2>1, <2>8
  <1>2. CASE EndScript
    <2>1. /\ UNCHANGED <<size, data, buffer_map_, before, job, report, running>>
          /\ at = "script" /\ at = from
      BY <1>2 DEF EndScript, memVars, history, WordsInv
    <2>2. /\ \A a : At(a)' = At(a)
          /\ \A a : Place(a)' = Place(a)
      BY <2>1, StillBytes
    <2> QED
      BY <1>0, <2>1, <2>2, Zenon DEF RestoreLands, Place
  <1>3. CASE break_machine \/ Device \/ UNCHANGED vars
    <2> SUFFICES ASSUME ~running' PROVE RestoreLands'
      BY DEF RestoreLands
    <2>1. /\ UNCHANGED <<size, data, buffer_map_, before, at, from, report, running>>
          /\ job'.begin = job.begin /\ job'.file = job.file /\ job'.k = job.k
      BY <1>3, BesideStill
    <2>2. /\ \A a : At(a)' = At(a)
          /\ \A a : Place(a)' = Place(a)
      BY <2>1, StillBytes
    <2> QED
      BY <1>0, <2>1, <2>2, Zenon DEF RestoreLands, Place
  <1>4. CASE Connect \/ Boot \/ Unmap \/ Free \/ Alloc \/ AllocFails \/ Leave
    <2>1. at' \notin {"script", "prompt"} /\ from' \in {"script", "prompt"}
      BY <1>4 DEF Connect, Boot, Unmap, Free, Alloc, AllocFails, Leave, Resize, shellVars, PhaseInv
    <2> QED
      BY <2>1 DEF RestoreLands
  <1>5. CASE Map
    <2>1. report' # "squashed" \/ (at' = "clear" /\ from' \in {"script", "prompt"})
      BY <1>5, Zenon DEF Map, WordsInv, Resizing, shellVars, PhaseInv
    <2> QED
      BY <2>1 DEF RestoreLands
  <1>6. CASE ReadScript \/ Type
    <2>1. report' # "squashed"
      BY <1>6 DEF ReadScript, Type, Accept
    <2> QED
      BY <2>1 DEF RestoreLands
  <1>7. CASE Clear \/ Save \/ exit \/ go \/ help_loader \/ reset \/ sr \/ mem \/ resize \/ wait
              \/ WaitBegin \/ WaitPoll \/ WaitEnd
    <2>1. report' # "squashed" \/ at' # from'
      <3>1. CASE sr
        BY <3>1, srBranches DEF Done, sr, Stays, PhaseInv
      <3>2. CASE Clear
        BY <3>2 DEF Clear, PhaseInv
      <3>3. CASE Save \/ exit \/ go \/ help_loader \/ reset \/ mem \/ resize \/ wait
        BY <3>3 DEF Save, exit, go, help_loader, reset, mem, resize, wait, Done, Resize, Stays, PhaseInv
      <3>4. CASE WaitBegin \/ WaitPoll
        BY <3>4 DEF WaitBegin, WaitPoll, Poll, Stays, PhaseInv
      <3>5. CASE WaitEnd
        BY <3>5, Zenon DEF WaitEnd, Done
      <3> QED
        BY <1>7, <3>1, <3>2, <3>3, <3>4, <3>5
    <2> QED
      BY <2>1 DEF RestoreLands
  <1> QED
    BY <1>1, <1>2, <1>3, <1>4, <1>5, <1>6, <1>7 DEF Next, Shell

-----------------------------------------------------------------------------
(* Always *)

LoaderInvariant ==
  /\ MappedInv /\ PhaseInv /\ CoverInv /\ NothingLeaks /\ StoreInv
  /\ DirectiveInv /\ ReportHonest /\ RestoreLands

LEMMA LoaderInit ==
  ASSUME Init
  PROVE  LoaderInvariant
  <1>1. MappedInv /\ PhaseInv /\ CoverInv /\ NothingLeaks
    BY MemoryInit
  <1>2. /\ at = "main" /\ from = "prompt" /\ job = NoJob /\ size = 0 /\ ~running /\ dev = NoReq
        /\ ~lost /\ touched = {} /\ buffer_map_ = [b \in {} |-> <<>>] /\ mode = "INTERACTIVE"
        /\ start \in Starts /\ script = <<>> /\ cmd = <<>> /\ ~Up
    BY DEF Init, MemInit, Up
  <1>3. report = ""
    BY Zenon DEF Init
  <1>4. StoreInv
    BY <1>2 DEF StoreInv, NoReq
  <1>5. WordsInv
    <2>1. <<>> \in Seq(Lines) /\ <<>> \in Seq(Spoken)
      BY EmptySeq
    <2> QED
      BY <1>2, <1>3, <2>1, Zenon DEF WordsInv, Resizing, Polling
  <1>6. SizeInv
    BY <1>2 DEF SizeInv
  <1>7. BytesInv
    BY <1>2, GBAssumption DEF BytesInv, NoReq, Byte
  <1>8. LocalsInv /\ TouchInv /\ WaitInv
    BY <1>2 DEF LocalsInv, TouchInv, WaitInv, NoJob, Resizing, Polling
  <1>9. RestoreInv
    BY <1>2 DEF RestoreInv
  <1>10. FreshInv
    BY <1>2 DEF FreshInv, NoReq
  <1>11. ReportHonest /\ RestoreLands
    BY <1>2 DEF ReportHonest, RestoreLands
  <1> QED
    BY <1>1, <1>4, <1>5, <1>6, <1>7, <1>8, <1>9, <1>10, <1>11 DEF LoaderInvariant, DirectiveInv

LEMMA LoaderStep ==
  ASSUME TextTypes, LoaderInvariant, [Next]_vars
  PROVE  LoaderInvariant'
  <1>0. /\ MappedInv /\ PhaseInv /\ CoverInv /\ NothingLeaks /\ StoreInv /\ WordsInv /\ SizeInv
        /\ BytesInv /\ LocalsInv /\ TouchInv /\ WaitInv /\ RestoreInv /\ FreshInv
        /\ ReportHonest /\ RestoreLands
    BY DEF LoaderInvariant, DirectiveInv
  <1>1. MappedInv' /\ PhaseInv' /\ CoverInv' /\ NothingLeaks' /\ StoreInv'
    BY <1>0, MemoryInvariant, StoreStep
  <1>2. WordsInv' /\ SizeInv' /\ BytesInv' /\ LocalsInv'
    BY <1>0, WordsStep, SizeStep, BytesStep, LocalsStep
  <1>3. TouchInv' /\ WaitInv' /\ FreshInv'
    BY <1>0, <1>2, TouchStep, WaitStep, FreshStep
  <1>4. RestoreInv' /\ RestoreLands'
    BY <1>0, <1>2, RestoreStep, LandsStep
  <1>5. ReportHonest'
    BY <1>0, ReportStep
  <1> QED
    BY <1>1, <1>2, <1>3, <1>4, <1>5 DEF LoaderInvariant, DirectiveInv

LEMMA LoaderAlways ==
  ASSUME StringsAreSequences
  PROVE  Spec => []LoaderInvariant
  <1>1. LoaderInvariant /\ [Next]_vars => LoaderInvariant'
    BY TextTyped, LoaderStep
  <1> QED
    BY LoaderInit, <1>1, PTL DEF Spec

(* Every variable of the loader keeps its type: no resize leaves the       *)
(* memory with another size, no directive stores anything but a byte.      *)
THEOREM LoaderTyped ==
  ASSUME StringsAreSequences
  PROVE  Spec => []LoaderTypeOK
  <1>1. ASSUME LoaderInvariant PROVE LoaderTypeOK
    <2>1. /\ MappedInv /\ PhaseInv /\ NothingLeaks /\ WordsInv /\ SizeInv /\ BytesInv /\ LocalsInv
      BY <1>1 DEF LoaderInvariant, DirectiveInv
    <2>2. DOMAIN buffer_map_ \subseteq BufIds
      BY <2>1 DEF NothingLeaks, MappedInv
    <2>3. /\ mode \in {"INTERACTIVE", "MACHINE", "SHUTDOWN"}
          /\ at \in Places /\ from \in {"script", "prompt"} /\ size \in {0} \cup MemSizes
          /\ data \in [Segs -> BufIds \cup {NULL}] /\ base_addr \in [Segs -> BufIds \cup {NULL}]
      BY <2>1 DEF WordsInv, PhaseInv, SizeInv, MappedInv
    <2>4. /\ \A b \in DOMAIN buffer_map_ : \A o \in DOMAIN buffer_map_[b] : buffer_map_[b][o] \in Byte
          /\ at \in {"restore", "save"} => cmd[1] = ".sr"
          /\ at \in {"wait", "waiting", "waited"} => cmd[1] = ".wait" /\ job.value \in Byte
          /\ at = "alloc" => job.seg \in 0 .. 4
      BY <2>1 DEF BytesInv, WordsInv, LocalsInv, PhaseInv, Polling
    <2> QED
      BY <2>2, <2>3, <2>4 DEF LoaderTypeOK
  <1> QED
    BY LoaderAlways, <1>1, PTL

(* Whatever numbers, ranges and options are typed, no directive reads or   *)
(* writes a byte outside the memory, not even the last byte of a word.     *)
THEOREM TouchesOnlyMemory ==
  ASSUME StringsAreSequences
  PROVE  Spec => []TouchesMemory
  <1>1. ASSUME LoaderInvariant PROVE TouchesMemory
    <2>1. CoverInv /\ TouchInv
      BY <1>1 DEF LoaderInvariant, DirectiveInv
    <2> SUFFICES ASSUME Up, NEW a \in touched PROVE a \in 0 .. size - 1 /\ Backed(a)
      BY DEF TouchesMemory
    <2>2. a \in 0 .. size - 1
      BY <2>1 DEF TouchInv
    <2> QED
      BY <2>1, <2>2, InMemory
  <1> QED
    BY LoaderAlways, <1>1, PTL

(* .wait reports what happened, wherever the signal and the device's value *)
(* fall between its steps and whatever the timeout.                        *)
THEOREM ReportsAreHonest ==
  ASSUME StringsAreSequences
  PROVE  Spec => []ReportHonest
  <1>1. LoaderInvariant => ReportHonest
    BY DEF LoaderInvariant
  <1> QED
    BY LoaderAlways, <1>1, PTL

(* .sr -r puts every file shorter than the memory where it was told,       *)
(* around the end of the memory too, and leaves all but one other byte.    *)
THEOREM RestoresLand ==
  ASSUME StringsAreSequences
  PROVE  Spec => []RestoreLands
  <1>1. LoaderInvariant => RestoreLands
    BY DEF LoaderInvariant
  <1> QED
    BY LoaderAlways, <1>1, PTL

-----------------------------------------------------------------------------
(* The one array of FlatMemory that segments, buffers and base registers  *)
(* implement, with the device storing into it.                             *)

Array == IF Up THEN Flat ELSE <<>>
OnItsWay == IF Up /\ dev.inside /\ dev.fresh THEN <<dev.addr, dev.val>> ELSE <<>>

LEMMA FlatIsArray ==
  ASSUME LoaderInvariant, Up
  PROVE  /\ Flat \in [0 .. size - 1 -> Byte] /\ size \in MemSizes /\ size \in Nat \ {0}
         /\ Flat # <<>>
  <1>1. CoverInv /\ SizeInv /\ BytesInv
    BY DEF LoaderInvariant, DirectiveInv
  <1>2. size \in MemSizes /\ size \in Nat \ {0}
    BY <1>1, SizesFit, GBAssumption DEF SizeInv
  <1>3. ASSUME NEW a \in 0 .. size - 1 PROVE At(a) \in Byte
    <2>1. Backed(a)
      BY <1>1, InMemory
    <2> QED
      BY <1>1, <2>1 DEF Backed, At, BytesInv
  <1>4. Flat \in [0 .. size - 1 -> Byte]
    BY <1>3 DEF Flat
  <1>5. 0 \in DOMAIN Flat
    BY <1>2 DEF Flat
  <1>6. Flat # <<>>
    BY <1>5
  <1> QED
    BY <1>2, <1>4, <1>6

(* A byte has one segment and offset, and each offset its address.         *)
LEMMA AddressOf ==
  ASSUME NEW s \in Segs, NEW o \in 0 .. GB - 1
  PROVE  /\ s * GB + o \in Nat /\ s * GB + o < 4 * GB
         /\ segno(s * GB + o) = s /\ offset(s * GB + o) = o
  <1>1. s \in Nat /\ s <= 3 /\ o \in Nat /\ o < GB /\ GB \in Nat
    BY GBAssumption DEF Segs
  <1>2. s * GB \in Nat /\ s * GB + o < 4 * GB
    BY <1>1 DEF Segs
  <1>3. (s * GB + o) \div GB = s /\ (s * GB + o) % GB = o
    BY <1>1, GBAssumption DEF Segs
  <1> QED
    BY <1>1, <1>2, <1>3 DEF segno, offset, Segs

LEMMA StoreWrites ==
  ASSUME LoaderInvariant, Up, Up', NEW i \in 0 .. size - 1, NEW v,
         Store(data[segno(i)], offset(i), v), UNCHANGED <<size, data>>
  PROVE  Array' = [Array EXCEPT ![i] = v]
  <1>1. MappedInv /\ CoverInv /\ NothingLeaks
    BY DEF LoaderInvariant
  <1>2. \A a \in 0 .. size - 1 : At(a)' = IF a = i THEN v ELSE At(a)
    BY <1>1, StoresOne
  <1>3. Flat' = [a \in 0 .. size - 1 |-> At(a)']
    BY DEF Flat
  <1>4. Flat' = [Flat EXCEPT ![i] = v]
    BY <1>2, <1>3 DEF Flat
  <1> QED
    BY <1>4 DEF Array

(* A store anywhere else leaves the array alone.                           *)
LEMMA StoreMisses ==
  ASSUME LoaderInvariant, Up, Up', NEW buf, NEW off, NEW v, Store(buf, off, v),
         UNCHANGED <<size, data>>,
         \A a \in 0 .. size - 1 : ~(data[segno(a)] = buf /\ offset(a) = off)
  PROVE  Array' = Array
  <1>1. ASSUME NEW a \in 0 .. size - 1 PROVE At(a)' = At(a)
    <2>1. Backed(a)
      BY InMemory DEF LoaderInvariant
    <2> QED
      BY <2>1 DEF Store, At, Backed
  <1>2. Flat' = [a \in 0 .. size - 1 |-> At(a)'] /\ Flat = [a \in 0 .. size - 1 |-> At(a)]
    BY DEF Flat
  <1>3. Flat' = Flat
    BY <1>1, <1>2
  <1> QED
    BY <1>3 DEF Array

LEMMA NoStore ==
  ASSUME UNCHANGED <<size, data, buffer_map_>>, Up' <=> Up
  PROVE  Array' = Array
  <1>1. \A a : At(a)' = At(a)
    BY DEF At
  <1>2. Flat' = [a \in 0 .. size - 1 |-> At(a)'] /\ Flat = [a \in 0 .. size - 1 |-> At(a)]
    BY DEF Flat
  <1>3. Flat' = Flat
    BY <1>1, <1>2
  <1> QED
    BY <1>3 DEF Array

-----------------------------------------------------------------------------
(* Steps *)

Steps == Flattened!Gain \/ Flattened!Lose \/ Flattened!Write \/ Flattened!Issue \/ Flattened!Land
Still == UNCHANGED <<Array, OnItsWay>>

LEMMA ArrayGoes ==
  ASSUME LoaderInvariant, Up, ~Up'
  PROVE  Flattened!Lose
  BY FlatIsArray DEF Flattened!Lose, Flattened!None

LEMMA WriteArray ==
  ASSUME LoaderInvariant, Up, Up', NEW i \in 0 .. size - 1, NEW v \in Byte,
         Array' = [Array EXCEPT ![i] = v], OnItsWay' = OnItsWay
  PROVE  Flattened!Write
  <1>1. Array = Flat /\ Flat # <<>> /\ DOMAIN Flat = 0 .. size - 1
    BY FlatIsArray DEF Array, Flat
  <1> QED
    BY <1>1 DEF Array, OnItsWay, Flattened!Write, Flattened!None

LEMMA FlatLater ==
  (LoaderInvariant /\ Up => Flat \in [0 .. size - 1 -> Byte] /\ size \in MemSizes)'
  <1>1. LoaderInvariant /\ Up => Flat \in [0 .. size - 1 -> Byte] /\ size \in MemSizes
    BY FlatIsArray
  <1> QED
    BY <1>1, PTL

LEMMA MapGains ==
  ASSUME LoaderInvariant, LoaderInvariant', Map
  PROVE  Flattened!Gain
  <1>1. ~Up /\ Up' /\ dev' = dev /\ ~dev.fresh
    BY DEF Map, Up, LoaderInvariant, DirectiveInv, FreshInv, PhaseInv, devVars
  <1>2. Flat' \in [0 .. size' - 1 -> Byte] /\ size' \in MemSizes
    BY <1>1, FlatLater
  <1> QED
    BY <1>1, <1>2 DEF Flattened!Gain, Flattened!None

(* What the loader does with the memory up is a write of one byte, or      *)
(* nothing to the array, until it goes.                                    *)
LEMMA WorkingWrites ==
  ASSUME LoaderInvariant, Working \/ Leave \/ resize
  PROVE  Steps \/ Still
  <1>0. /\ PhaseInv /\ SizeInv /\ BytesInv /\ LocalsInv
        /\ size \in Nat \ {0} \/ ~Up
    BY FlatIsArray DEF LoaderInvariant, DirectiveInv
  <1>1. CASE Leave \/ resize
    <2>1. Up /\ UNCHANGED <<memVars, dev>>
      BY <1>1 DEF Leave, resize, Directive, Stays, devVars, Up
    <2>2. CASE Up'
      <3>1. Array' = Array
        BY <2>1, <2>2, NoStore DEF memVars
      <3> QED
        BY <2>1, <2>2, <3>1 DEF Still, OnItsWay
    <2> QED
      BY <2>1, <2>2, ArrayGoes DEF Steps
  <1>2. CASE Working /\ ~Up'
    BY <1>0, <1>2, WorkingStep, ArrayGoes DEF Steps
  <1>3. CASE (Clear \/ Restore) /\ Up'
    <2>1. Up /\ UNCHANGED <<size, data, dev>>
      BY <1>0, <1>3, WorkingStep DEF Working
    <2>2. OnItsWay' = OnItsWay
      BY <1>3, <2>1 DEF OnItsWay
    <2>3. \/ UNCHANGED memVars
          \/ \E i \in 0 .. size - 1, v \in Byte : Store(data[segno(i)], offset(i), v)
      <3>1. CASE Clear
        <4>1. job.k \in Nat /\ 0 \in Byte
          BY <1>0, <3>1, GBAssumption DEF Clear, LocalsInv, Byte
        <4> QED
          BY <1>0, <2>1, <3>1, <4>1 DEF Clear, SetAt
      <3>2. CASE Restore
        <4>1. /\ job.k \in Nat /\ job.begin \in Int /\ job.file \in Seq(Byte) /\ 0 \in Byte
          BY <1>0, <3>2, GBAssumption DEF Restore, LocalsInv, BytesInv, Byte
        <4>2. ~(job.k >= Len(job.file)) => job.file[job.k + 1] \in Byte
          BY <4>1, LenProperties, ElementOfSeq
        <4>3. job.begin + job.k \in Int
          BY <4>1
        <4>4. RestoreByte \in 0 .. size - 1
          BY <1>0, <2>1, <4>3, Cuts DEF RestoreByte
        <4> QED
          BY <3>2, <4>1, <4>2, <4>4 DEF Restore, SetAt
      <3> QED
        BY <1>3, <3>1, <3>2
    <2>4. CASE UNCHANGED memVars
      <3>1. Array' = Array
        BY <1>3, <2>1, <2>4, NoStore DEF memVars
      <3> QED
        BY <2>2, <3>1 DEF Still
    <2>5. CASE \E i \in 0 .. size - 1, v \in Byte : Store(data[segno(i)], offset(i), v)
      <3>1. PICK i \in 0 .. size - 1, v \in Byte : Store(data[segno(i)], offset(i), v)
        BY <2>5
      <3>2. Array' = [Array EXCEPT ![i] = v]
        BY <1>3, <2>1, <3>1, StoreWrites
      <3> QED
        BY <1>3, <2>1, <2>2, <3>2, WriteArray DEF Steps
    <2> QED
      BY <2>3, <2>4, <2>5
  <1>4. CASE Working /\ ~Clear /\ ~Restore /\ Up'
    <2>1. UNCHANGED memVars /\ dev' = dev /\ Up
      <3>1. Up /\ dev' = dev
        BY <1>0, <1>4, WorkingStep
      <3>2. CASE ReadScript \/ Type
        BY <3>1, <3>2 DEF ReadScript, Type, Accept
      <3> QED
        BY <1>4, <3>1, <3>2 DEF Working, EndScript, exit, go, help_loader, reset, sr, Save, mem, wait,
           WaitBegin, WaitPoll, WaitEnd, Stays
    <2>2. Array' = Array
      BY <1>4, <2>1, NoStore DEF memVars
    <2> QED
      BY <1>4, <2>1, <2>2 DEF Still, OnItsWay
  <1> QED
    BY <1>1, <1>2, <1>3, <1>4

LEMMA ResizeIsGone ==
  ASSUME LoaderInvariant, Connect \/ Boot \/ Unmap \/ Free \/ Alloc \/ AllocFails
  PROVE  Still
  <1>1. ~Up /\ ~Up'
    BY DEF Connect, Boot, Unmap, Free, Alloc, AllocFails, Resize, Up
  <1> QED
    BY <1>1 DEF Still, Array, OnItsWay

(* A store of the device lands where it was addressed.  One on its way     *)
(* since the memory was last there may hit a byte of it or nothing.        *)
LEMMA DeviceLands ==
  ASSUME LoaderInvariant, DevLand
  PROVE  Steps \/ Still
  <1>0. /\ MappedInv /\ CoverInv /\ NothingLeaks /\ BytesInv /\ FreshInv
        /\ dev # NoReq /\ dev' = NoReq /\ UNCHANGED <<size, data, at>> /\ (Up' <=> Up)
    BY DEF LoaderInvariant, DirectiveInv, DevLand, Up
  <1>1. OnItsWay' = <<>>
    BY <1>0 DEF OnItsWay, NoReq
  <1>2. CASE ~Up
    BY <1>0, <1>1, <1>2 DEF Still, Array, OnItsWay
  <1>3. CASE Up /\ dev.inside /\ dev.fresh
    <2>1. /\ dev.addr \in 0 .. size - 1 /\ dev.buf = data[segno(dev.addr)]
          /\ dev.off = offset(dev.addr) /\ Lands
      BY <1>0, <1>3, GBAssumption DEF FreshInv, Aimed, CoverInv
    <2>2. Store(data[segno(dev.addr)], offset(dev.addr), dev.val)
      BY <2>1 DEF DevLand
    <2>3. Array' = [Array EXCEPT ![dev.addr] = dev.val]
      BY <1>0, <1>3, <2>1, <2>2, StoreWrites
    <2>4. OnItsWay = <<dev.addr, dev.val>>
      BY <1>3 DEF OnItsWay
    <2>5. Flattened!Land
      BY <1>1, <2>3, <2>4 DEF Flattened!Land, Flattened!None, Array, OnItsWay
    <2> QED
      BY <2>5 DEF Steps
  <1>4. CASE Up /\ ~(dev.inside /\ dev.fresh)
    <2>1. OnItsWay = <<>>
      BY <1>4 DEF OnItsWay
    <2>2. CASE ~Lands
      <3>1. Array' = Array
        BY <1>0, <2>2, NoStore DEF DevLand
      <3> QED
        BY <1>1, <2>1, <3>1 DEF Still
    <2>3. CASE Lands /\ \E a \in 0 .. size - 1 : data[segno(a)] = dev.buf /\ offset(a) = dev.off
      <3>1. PICK a \in 0 .. size - 1 : data[segno(a)] = dev.buf /\ offset(a) = dev.off
        BY <2>3
      <3>2. Store(data[segno(a)], offset(a), dev.val) /\ dev.val \in Byte
        BY <1>0, <2>3, <3>1 DEF DevLand, BytesInv
      <3>3. Array' = [Array EXCEPT ![a] = dev.val]
        BY <1>0, <1>4, <3>2, StoreWrites
      <3> QED
        BY <1>0, <1>1, <1>4, <2>1, <3>2, <3>3, WriteArray DEF Steps
    <2>4. CASE Lands /\ ~\E a \in 0 .. size - 1 : data[segno(a)] = dev.buf /\ offset(a) = dev.off
      <3>1. Store(dev.buf, dev.off, dev.val)
        BY <2>4 DEF DevLand
      <3>2. Array' = Array
        BY <1>0, <1>4, <2>4, <3>1, StoreMisses
      <3> QED
        BY <1>1, <2>1, <3>2 DEF Still
    <2> QED
      BY <2>2, <2>3, <2>4
  <1> QED
    BY <1>2, <1>3, <1>4

LEMMA DeviceIssues ==
  ASSUME LoaderInvariant, DevIssue
  PROVE  Steps \/ Still
  <1>0. dev = NoReq /\ UNCHANGED <<memVars, at>> /\ (Up' <=> Up)
    BY DEF DevIssue, Up
  <1>1. Array' = Array /\ OnItsWay = <<>>
    BY <1>0, NoStore DEF memVars, OnItsWay, NoReq
  <1>2. PICK a \in 0 .. 4 * GB - 1, v \in Byte :
          dev' = [buf |-> base_addr[segno(a)], off |-> offset(a), addr |-> a, val |-> v,
                  inside |-> Up /\ a < size, fresh |-> Up /\ a < size]
    BY DEF DevIssue
  <1>3. CASE Up /\ a < size
    <2>1. OnItsWay' = <<a, v>>
      BY <1>0, <1>2, <1>3 DEF OnItsWay
    <2>2. Array = Flat /\ Flat # <<>> /\ a \in DOMAIN Flat
      BY <1>3, FlatIsArray, GBAssumption DEF Array, Flat
    <2>3. Flattened!Issue
      BY <1>1, <2>1, <2>2 DEF Flattened!Issue, Flattened!None, Array, OnItsWay
    <2> QED
      BY <2>3 DEF Steps
  <1>4. CASE ~(Up /\ a < size)
    <2>1. ~dev'.inside
      BY <1>2, <1>4, Zenon
    <2> QED
      BY <1>1, <2>1 DEF Still, OnItsWay
  <1> QED
    BY <1>3, <1>4

(* One array, whatever segments it is made of: every step of the loader    *)
(* and of the device stores at most one byte of it, at the address it was  *)
(* meant for, or makes the array come or go.                               *)
THEOREM SegmentsAreOneArray ==
  ASSUME StringsAreSequences
  PROVE  Spec => ImplementsFlatMemory
  <1>1. ASSUME Init PROVE Flattened!Init
    <2>1. ~Up
      BY <1>1 DEF Init, Up
    <2> QED
      BY <2>1 DEF Flattened!Init, Flattened!None
  <1>2. ASSUME LoaderInvariant, LoaderInvariant', [Next]_vars PROVE Steps \/ Still
    <2>1. CASE break_machine \/ DevCv \/ UNCHANGED vars
      <3>1. UNCHANGED <<memVars, dev, at>>
        BY <2>1 DEF break_machine, DevCv, vars, shellVars, devVars, memVars
      <3>2. Up' <=> Up
        BY <3>1 DEF Up
      <3>3. Array' = Array
        BY <3>1, <3>2, NoStore DEF memVars
      <3> QED
        BY <3>1, <3>2, <3>3 DEF Still, OnItsWay
    <2>2. CASE Map
      BY <1>2, <2>2, MapGains DEF Steps
    <2> QED
      BY <1>2, <2>1, <2>2, WorkingWrites, ResizeIsGone, DeviceLands, DeviceIssues
      DEF Next, Shell, Device, Working
  <1>3. LoaderInvariant /\ LoaderInvariant' /\ [Next]_vars
          => [Flattened!Gain \/ Flattened!Lose \/ Flattened!Write \/ Flattened!Issue \/ Flattened!Land]_
               <<IF Up THEN Flat ELSE <<>>,
                 IF Up /\ dev.inside /\ dev.fresh THEN <<dev.addr, dev.val>> ELSE <<>> >>
    BY <1>2 DEF Steps, Still, Array, OnItsWay
  <1> QED
    BY LoaderAlways, <1>1, <1>3, PTL DEF Spec, ImplementsFlatMemory, Flattened!Spec
=============================================================================
