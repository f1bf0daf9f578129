---------------------------- MODULE LoaderProps ----------------------------
(***************************************************************************)
(* What the loader promises, stated over module Loader.                    *)
(***************************************************************************)
EXTENDS Loader

Places == {"main", "boot", "unmap", "free", "alloc", "clear", "script", "prompt", "directive",
           "restore", "save", "wait", "waiting", "waited", "closed", "crash"}

MemSizes == {InitialSize, RecoverSize} \cup {2^b : b \in MinBits .. MaxBits}

(* The type of every variable; a place in a directive is one whose         *)
(* directive is being run, and what .wait looks for can be seen.           *)
LoaderTypeOK ==
  /\ mode \in {"INTERACTIVE", "MACHINE", "SHUTDOWN"}
  /\ at \in Places /\ from \in {"script", "prompt"}
  /\ size \in {0} \cup MemSizes
  /\ data \in [Segs -> BufIds \cup {NULL}] /\ base_addr \in [Segs -> BufIds \cup {NULL}]
  /\ DOMAIN buffer_map_ \subseteq BufIds
  /\ \A b \in DOMAIN buffer_map_ : \A o \in DOMAIN buffer_map_[b] : buffer_map_[b][o] \in Byte
  /\ at \in {"restore", "save"} => cmd[1] = ".sr"
  /\ at \in {"wait", "waiting", "waited"} => cmd[1] = ".wait" /\ job.value \in Byte
  /\ at = "alloc" => job.seg \in 0 .. 4

(* While the memory is up every address has its byte, and the device's     *)
(* registers lead to the same byte as the host's pointers.                 *)
SegmentsCover ==
  Up => \A a \in 0 .. size - 1 : Backed(a) /\ base_addr[segno(a)] = data[segno(a)]

(* No directive reaches outside the memory through operator[], whatever    *)
(* addresses were typed: .mem checks its ranges, the others wrap around.   *)
TouchesMemory == Up => \A a \in touched : a \in 0 .. size - 1 /\ Backed(a)

(* A store the device sent to an address of the memory arrives there,      *)
(* unless .resize or .exit took the memory away under the running device.  *)
StoresArrive == lost => moved

(* What .wait says is what happened: it timed out only if the value was    *)
(* never found, it observed only what the last poll found, and it was      *)
(* aborted only by a signal.                                               *)
ReportHonest ==
  at = from /\ cmd # <<>> /\ cmd[1] = ".wait" =>
    /\ report = "timed out" => job.numms = job.timeout /\ ~job.matched
    /\ report = "observed" => job.matched
    /\ report = "aborted" => job.pressed

(* .sr -r puts the file where it was told, around the end of the memory if *)
(* need be, clears one byte after it and leaves every other byte alone.    *)
RestoreLands ==
  at = from /\ report = "squashed" /\ ~running /\ Len(job.file) < size =>
    \A a \in 0 .. size - 1 :
      LET i == (a - job.begin) % size
      IN At(a) = CASE i < Len(job.file) -> job.file[i + 1]
                   [] i = Len(job.file) -> 0
                   [] OTHER -> before[a]

----------------------------------------------------------------------------
(* Why the memory is sound: what holds while a resize is under way.        *)

(* A register is cleared, or names its segment.                            *)
MappedInv ==
  /\ data \in [Segs -> BufIds \cup {NULL}] /\ base_addr \in [Segs -> BufIds \cup {NULL}]
  /\ \A s \in Segs : base_addr[s] \in {NULL, data[s]}
  /\ at \in {"free", "alloc"} => base_addr = NoSegs

(* What is left to allocate fits in the segments that are left.            *)
PhaseInv ==
  /\ at \in Places /\ from \in {"script", "prompt"}
  /\ DOMAIN job = DOMAIN NoJob
  /\ at \in {"unmap", "free"} => job.seg = 0 /\ job.bytes \in 0 .. 4 * GB
  /\ at = "alloc" =>
       /\ job.seg \in 0 .. 4 /\ job.bytes \in Nat
       /\ job.bytes + job.seg * GB <= 4 * GB
       /\ \A s \in Segs : s >= job.seg => data[s] = NULL

(* Segment s has a buffer long enough for its part of the memory.          *)
Covers(s) ==
  \A o \in 0 .. GB - 1 :
    s * GB + o < size => data[s] \in DOMAIN buffer_map_ /\ o \in DOMAIN buffer_map_[data[s]]

(* The segments allocated so far cover the memory so far.                  *)
CoverInv ==
  /\ size \in 0 .. 4 * GB
  /\ at = "alloc" =>
       /\ size <= job.bytes + job.seg * GB
       /\ job.bytes > 0 => size = job.bytes + job.seg * GB
       /\ \A s \in Segs : s < job.seg => Covers(s)
  /\ Up => base_addr = data /\ \A s \in Segs : Covers(s)

(* A store under way names the byte it was addressed to, until the memory  *)
(* goes away under the device.                                             *)
Aimed ==
  /\ dev.addr \in Nat /\ dev.addr < 4 * GB
  /\ dev.buf = data[segno(dev.addr)] /\ dev.off = offset(dev.addr) /\ Lands
StoreInv ==
  /\ lost => moved
  /\ running => at \notin {"main", "boot"} /\ (at \in {"free", "alloc"} => moved)
  /\ DOMAIN dev = DOMAIN NoReq
  /\ dev.inside => running /\ (~moved => Aimed)

----------------------------------------------------------------------------
(* The memory, whatever segments it is made of, is one array that host and *)
(* device share.                                                           *)
Flattened ==
  INSTANCE FlatMemory WITH
    mem     <- IF Up THEN Flat ELSE <<>>,
    pending <- IF Up /\ dev.inside /\ dev.fresh THEN <<dev.addr, dev.val>> ELSE <<>>,
    Sizes   <- MemSizes

ImplementsFlatMemory == Flattened!Spec

(* A directive ends and the loader reads its next line, unless it was told *)
(* to wait for ever or to save a range that ends before it begins.         *)
Endless ==
  \/ cmd[1] = ".wait" /\ Len(cmd) >= 4 /\ uint64_t(Number(4).val) = 0
  \/ cmd[1] = ".sr" /\ SaveArgs /\ Number(5).val < Number(4).val
DirectiveEnds == at = "directive" /\ ~Endless ~> at \in {from, "crash"}

(* The help of .wait (messages.cpp:107) says that it runs "until           *)
(* interrupted through SIGINT": a signal that comes while the directive    *)
(* runs ends the waiting.                                                  *)
InterruptEndsWait == at = "waiting" /\ job.pressed ~> at # "waiting"
=============================================================================
