----------------------------- MODULE LoaderInv -----------------------------
(***************************************************************************)
(* The inductive invariant behind the properties of LoaderProps that are   *)
(* about directives and about the memory's contents: what each directive's *)
(* locals say while it runs.                                               *)
(***************************************************************************)
EXTENDS LoaderProps

Resizing == {"unmap", "free", "alloc"}
Polling  == {"wait", "waiting", "waited"}

(* Lines are split into words whose meaning is known; until a first line   *)
(* is read there is no directive and nothing was printed.                  *)
WordsInv ==
  /\ start \in Starts /\ script \in Seq(Lines) /\ cmd \in Seq(Spoken)
  /\ mode \in {"INTERACTIVE", "MACHINE", "SHUTDOWN"}
  /\ at \in {"script", "prompt"} => at = from
  /\ at \in {"main", "boot"} \/ (at \in Resizing /\ job.next = "boot") => cmd = <<>> /\ report = ""
  /\ at \in {"restore", "save"} => cmd[1] = ".sr"
  /\ at \in Polling => cmd[1] = ".wait"

(* A memory that is there or is being made has one of the sizes.           *)
SizeInv ==
  /\ size \in {0} \cup MemSizes
  /\ at \in {"unmap", "free"} /\ job.next # "exit" => job.bytes \in MemSizes
  /\ at = "alloc" => job.next # "exit" /\ size \in MemSizes
  /\ Up => size \in MemSizes

(* Every byte in a buffer, in a file and on its way there is a byte.       *)
BytesInv ==
  /\ \A b \in DOMAIN buffer_map_ : \A o \in DOMAIN buffer_map_[b] : buffer_map_[b][o] \in Byte
  /\ dev.val \in Byte
  /\ at = "restore" => job.file \in Seq(Byte)

(* The locals of the directives.                                           *)
LocalsInv ==
  /\ at \in {"directive"} \cup Resizing => job.k = 0
  /\ at \in {"directive", "wait"} => job.numms = 0 /\ ~job.matched
  /\ at \in {"clear", "restore", "save"} => job.k \in Nat
  /\ at \in {"restore", "save"} => job.begin \in Int
  /\ at = "save" => job.end \in Int
  /\ at \in Polling =>
       /\ job.numms \in Nat /\ job.timeout \in Nat /\ job.value \in Byte
       /\ ~job.mmio => job.begin \in 0 .. size - 1

(* What was touched was touched in this memory: no directive starts or     *)
(* resizes with addresses of an earlier one.                               *)
TouchInv ==
  /\ at \in {"main", "boot", "directive"} => touched = {}
  /\ at \in Resizing => touched = {} \/ job.next = "exit"
  /\ Up => touched \subseteq 0 .. size - 1

(* The wait goes on only while the value was not found, nobody pressed a   *)
(* key and the time is not over.                                           *)
WaitInv ==
  /\ at \in {"waiting", "waited"} => mode = "MACHINE" \/ job.pressed
  /\ at = "waiting" => ~job.matched
  /\ at = "waited" =>
       IF job.matched THEN job.numms < job.timeout \/ job.timeout = 0
       ELSE mode # "MACHINE" \/ (job.numms >= job.timeout /\ job.timeout # 0)
  /\ at \in Polling => job.numms <= job.timeout

(* The restored part of the memory is the file's, the rest is as before.   *)
Place(a) == (a - job.begin) % size
RestoreInv ==
  /\ ~running => dev = NoReq
  /\ at = "restore" /\ ~running /\ Len(job.file) < size =>
       /\ job.k <= Len(job.file)
       /\ \A a \in 0 .. size - 1 :
            At(a) = IF Place(a) < job.k THEN job.file[Place(a) + 1] ELSE before[a]

(* A store of the device to the memory it is still part of names its byte. *)
FreshInv ==
  /\ at \in {"free", "alloc"} => ~dev.fresh
  /\ dev.inside \in BOOLEAN /\ dev.fresh \in BOOLEAN
  /\ dev # NoReq => dev.off \in 0 .. GB - 1
  /\ Up /\ dev.inside /\ dev.fresh => Aimed /\ dev.addr < size

DirectiveInv ==
  /\ WordsInv /\ SizeInv /\ BytesInv /\ LocalsInv
  /\ TouchInv /\ WaitInv /\ RestoreInv /\ FreshInv
=============================================================================
