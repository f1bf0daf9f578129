------------------------------- MODULE Loader -------------------------------
(***************************************************************************)
(* The loader cload: main and its signal handler (cload_entry.cpp),        *)
(* Shell_Cload::Run (shell_cload.cpp) and the directives                   *)
(* (runtime_call.cpp), over module HostMemory, with the device running     *)
(* beside it once .run has let it.                                         *)
(*                                                                         *)
(* Three things interleave: the loader, one step of a loop or one call at  *)
(* a time; the signal SIGINT; and the device, which stores into memory     *)
(* through its base registers and sets the value MMIO_CV reads.            *)
(***************************************************************************)
EXTENDS HostMemory, Sequences, Text, Options

CONSTANTS
  Starts,        \* how cload is started: [args, script] records
  Typed,         \* what may be typed at the prompt
  Files,         \* the files fopen can read: name -> bytes
  Writable,      \* the names fopen can write
  InitialSize,   \* 64MB
  RecoverSize,   \* 16KB
  DefaultTimeout, \* of .wait: 1000
  MinBits, MaxBits,              \* what .resize takes: 16 and 32
  UIntMod,       \* a uint64_t is a number below this: 2^64
  MaxTyped, MaxInts, MaxStores, MaxCvs, MaxFails   \* bounds of a run

ASSUME SizeAssumption ==
  /\ InitialSize \in 1 .. 4 * GB /\ RecoverSize \in 1 .. 4 * GB
  /\ MinBits \in Nat /\ MaxBits \in Nat /\ UIntMod \in Nat \ {0}
  /\ \A b \in MinBits .. MaxBits : 2^b \in 1 .. 4 * GB

ASSUME LinesAssumption ==
  /\ Typed \subseteq STRING
  /\ \A s \in Starts : s.args \in Seq(STRING) /\ s.script \in Seq(STRING)

VARIABLES
  start,      \* how cload was started
  mode,       \* Env::current_Mode
  at,         \* where the loader is
  from,       \* where it reads its lines: "script" or "prompt"
  script,     \* the script's lines left
  cmd,        \* the words of the directive
  job,        \* the locals of the directive or of resize
  report,     \* what the last line printed
  running,    \* MMIO_GO was written
  cv,         \* what MMIO_CV reads
  dev,        \* the device's store on its way
  touched,    \* history: the addresses the last step read or wrote
  moved,      \* history: the memory was taken away under a running device
  lost,       \* history: a store of the device to the memory went elsewhere
  before,     \* history: the memory when the restore began
  left        \* what is left of the bounds

shellVars == <<start, mode, from, script, cmd, report, running>>
devVars   == <<cv, dev, lost>>
history   == <<touched, moved, before>>
vars == <<memVars, shellVars, at, job, devVars, history, left>>

NoReq == [buf |-> NULL, off |-> 0, addr |-> 0, val |-> 0, inside |-> FALSE, fresh |-> FALSE]
NoJob == [bytes |-> 0, seg |-> 0, next |-> "none", k |-> 0, begin |-> 0, end |-> 0, file |-> <<>>,
          mmio |-> FALSE, value |-> 0, timeout |-> 0, numms |-> 0, matched |-> FALSE,
          pressed |-> FALSE]

(* The memory is there and the loader has told the device so.              *)
Up == at \notin {"main", "boot", "unmap", "free", "alloc", "closed", "crash"}

Flat == [a \in 0 .. size - 1 |-> At(a)]

Init ==
  /\ MemInit
  /\ start \in Starts /\ mode = "INTERACTIVE" /\ at = "main" /\ from = "prompt"
  /\ script = <<>> /\ cmd = <<>> /\ job = NoJob /\ report = "" /\ running = FALSE
  /\ cv = 0 /\ dev = NoReq /\ touched = {} /\ moved = FALSE /\ lost = FALSE /\ before = <<>>
  /\ left = [typed |-> MaxTyped, ints |-> MaxInts, stores |-> MaxStores, cvs |-> MaxCvs,
             fails |-> MaxFails]

----------------------------------------------------------------------------
(* Starting and stopping                                                   *)

(* requestAfu and the constructor: no accelerator or only busy ones, no    *)
(* driver, and no MPF or VTP, which nothing catches.                       *)
Connect ==
  /\ at = "main"
  /\ at' \in {"boot", "closed", "crash"}
  /\ UNCHANGED <<memVars, shellVars, job, devVars, history, left>>

Resize(bytes, next) ==
  /\ at' = "unmap"
  /\ job' = [NoJob EXCEPT !.bytes = bytes, !.next = next]

Boot ==
  /\ at = "boot"
  /\ LET env == characterize_Env(start.args)
     IN /\ mode' = env.mode
        /\ IF env.AsmInput /\ (env.asmInputs = <<>> \/ env.asmInputs[1] \notin DOMAIN Files)
           THEN Resize(0, "exit") /\ UNCHANGED <<from, script>>
           ELSE /\ Resize(InitialSize, "boot")
                /\ from' = IF env.AsmInput THEN "script" ELSE "prompt"
                /\ script' = IF env.AsmInput THEN start.script ELSE <<>>
  /\ UNCHANGED <<memVars, start, cmd, report, running, devVars, history, left>>

(* The handler; it also runs while the loader is inside a directive.       *)
break_machine ==
  /\ at \notin {"main", "closed", "crash"} /\ left.ints > 0
  /\ mode' = "INTERACTIVE"
  /\ job' = [job EXCEPT !.pressed = TRUE]
  /\ left' = [left EXCEPT !.ints = @ - 1]
  /\ UNCHANGED <<memVars, start, from, script, cmd, report, running, at, devVars, history>>

----------------------------------------------------------------------------
(* mmem::resize and the destructor                                         *)

Unmap ==
  /\ at = "unmap" /\ dealloc_unmap
  /\ at' = "free"
  /\ moved' = (moved \/ running)
  /\ dev' = [dev EXCEPT !.fresh = FALSE]
  /\ UNCHANGED <<shellVars, job, cv, lost, touched, before, left>>

Free ==
  /\ at = "free" /\ dealloc_free
  /\ IF job.next = "exit"
     THEN at' = "closed" /\ UNCHANGED size
     ELSE at' = "alloc" /\ size' = job.bytes
  /\ UNCHANGED <<base_addr, shellVars, job, devVars, history, left>>

Alloc ==
  /\ at = "alloc" /\ job.bytes > 0
  /\ LET bytes == IF job.bytes >= GB THEN GB ELSE job.bytes
     IN /\ malloc(job.seg, bytes)
        /\ job' = [job EXCEPT !.bytes = @ - bytes, !.seg = @ + 1]
  /\ UNCHANGED <<shellVars, at, devVars, history, left>>

(* Out of memory: only .resize catches it, and only the first time; any    *)
(* other exception of the library ends the program.                        *)
AllocFails ==
  /\ at = "alloc" /\ job.bytes > 0 /\ left.fails > 0
  /\ left' = [left EXCEPT !.fails = @ - 1]
  /\ \/ job.next = "resize" /\ Resize(RecoverSize, "recover")
     \/ at' = "crash" /\ UNCHANGED job
  /\ UNCHANGED <<memVars, shellVars, devVars, history>>

Map ==
  /\ at = "alloc" /\ job.bytes = 0 /\ map_mem
  /\ at' = IF job.next = "boot" THEN from ELSE "clear"
  /\ UNCHANGED <<shellVars, job, devVars, history, left>>

(* mmem::reset, byte by byte.                                              *)
Clear ==
  /\ at = "clear"
  /\ IF job.k < size
     THEN /\ SetAt(job.k, 0) /\ touched' = {job.k}
          /\ job' = [job EXCEPT !.k = @ + 1] /\ UNCHANGED <<at, report>>
     ELSE /\ at' = from /\ report' = "reset" /\ UNCHANGED <<memVars, job, touched>>
  /\ UNCHANGED <<start, mode, from, script, cmd, running, devVars, moved, before, left>>

----------------------------------------------------------------------------
(* Lines                                                                   *)

(* Every line that can come, its words, and what the words mean as numbers *)
(* and as ranges.                                                          *)
Lines   == {ReadFromInput(l) : l \in Typed} \cup UNION {Range(s.script) : s \in Starts}
Words   == [l \in Lines |-> chop_string(l)]
Spoken  == UNION {Range(Words[l].val) : l \in {k \in Lines : Words[k].err = ""}}
Numbers == [w \in Spoken |-> numeric_interpret(w)]
Ranges  == [w \in Spoken |-> range(w)]

ASSUME FilesAssumption ==
  /\ \A f \in DOMAIN Files : Files[f] \in Seq(Byte)
  /\ DefaultTimeout \in Nat

(* chop_string is outside the try block.                                   *)
Accept(val) ==
  LET words == Words[val]
  IN /\ at' = IF words.err # "" THEN "crash"
              ELSE IF SubSeq(val, 1, 1) = "." THEN "directive" ELSE at
     /\ cmd' = IF words.err = "" THEN words.val ELSE <<>>
     /\ report' = IF words.err = "" /\ words.val # <<>> /\ SubSeq(val, 1, 1) # "." THEN "help" ELSE ""
     /\ job' = NoJob /\ touched' = {} /\ before' = <<>>
     /\ UNCHANGED <<memVars, start, mode, from, running, devVars, moved>>

(* The script goes on whatever the mode; .exit in it does not stop it.     *)
ReadScript ==
  /\ at = "script" /\ script # <<>>
  /\ script' = Tail(script)
  /\ Accept(Head(script))
  /\ UNCHANGED left

EndScript ==
  /\ at = "script" /\ script = <<>>
  /\ at' = "prompt" /\ from' = "prompt"
  /\ mode' = IF mode = "SHUTDOWN" THEN mode ELSE "INTERACTIVE"
  /\ UNCHANGED <<memVars, start, script, cmd, report, running, job, devVars, history, left>>

(* In MACHINE mode the prompt is skipped, over and over.                   *)
Type ==
  /\ at = "prompt" /\ mode = "INTERACTIVE" /\ left.typed > 0
  /\ left' = [left EXCEPT !.typed = @ - 1]
  /\ \E line \in Typed : Accept(ReadFromInput(line))
  /\ UNCHANGED script

Leave ==
  /\ at = "prompt" /\ mode = "SHUTDOWN"
  /\ Resize(0, "exit")
  /\ UNCHANGED <<memVars, shellVars, devVars, history, left>>

----------------------------------------------------------------------------
(* Directives                                                              *)

Directive(name) == at = "directive" /\ cmd[1] = name
Number(k) == Numbers[cmd[k]]

Done(said) == at' = from /\ report' = said
Stays == UNCHANGED <<memVars, start, from, script, cmd, devVars, moved, left>>

exit == Directive(".exit") /\ mode' = "SHUTDOWN" /\ Done("")
          /\ UNCHANGED <<running, job, touched, before>> /\ Stays

go == Directive(".run") /\ running' = TRUE /\ Done("")
          /\ UNCHANGED <<mode, job, touched, before>> /\ Stays

Directives == {".exit", ".run", ".help", ".rst", ".sr", ".mem", ".resize", ".wait"}

(* .help, and a directive that does not exist.                             *)
help_loader ==
  /\ at = "directive"
  /\ \/ cmd[1] = ".help" /\ Done("help")
     \/ cmd[1] \notin Directives /\ Done("does not exist")
  /\ UNCHANGED <<mode, running, job, touched, before>> /\ Stays

(* -afu does nothing: the calls are commented out.                         *)
reset ==
  /\ Directive(".rst")
  /\ IF Len(cmd) = 1 \/ cmd[2] = "-host"
     THEN at' = "clear" /\ UNCHANGED report
     ELSE Done(IF cmd[2] = "-afu" THEN "" ELSE "no reset")
  /\ UNCHANGED <<mode, running, job, touched, before>> /\ Stays

RestoreArgs == Len(cmd) >= 4 /\ cmd[2] = "-r" /\ cmd[3] \in DOMAIN Files /\ Number(4).err = ""
SaveArgs == Len(cmd) >= 5 /\ cmd[2] = "-s" /\ cmd[3] \in Writable
              /\ Number(4).err = "" /\ Number(5).err = ""

sr ==
  /\ Directive(".sr")
  /\ CASE RestoreArgs ->
            /\ at' = "restore" /\ before' = Flat /\ UNCHANGED report
            /\ job' = [job EXCEPT !.begin = Number(4).val, !.file = Files[cmd[3]]]
       [] SaveArgs ->
            /\ at' = "save" /\ UNCHANGED <<report, before>>
            /\ job' = [job EXCEPT !.begin = Number(4).val, !.end = Number(5).val]
       [] OTHER -> Done("sr error") /\ UNCHANGED <<job, before>>
  /\ UNCHANGED <<mode, running, touched>> /\ Stays

(* Mutant: the file goes to the beginning of the memory.                   *)
FromZero == job.k % size
RestoreByte == (job.begin + job.k) % size

(* The byte read is stored before the end of the file is noticed, so one   *)
(* zero follows the file.                                                  *)
Restore ==
  /\ at = "restore"
  /\ LET eof == job.k >= Len(job.file)
     IN /\ SetAt(RestoreByte, IF eof THEN 0 ELSE job.file[job.k + 1])
        /\ touched' = {RestoreByte}
        /\ IF eof THEN Done("squashed") ELSE UNCHANGED <<at, report>>
  /\ job' = [job EXCEPT !.k = @ + 1]
  /\ UNCHANGED <<start, mode, from, script, cmd, running, devVars, moved, before, left>>

(* The count is compared with end - begin as an unsigned number: with end  *)
(* below begin there is no end to it, and only its place in memory counts. *)
Save ==
  /\ at = "save"
  /\ IF job.end < job.begin \/ job.k < job.end - job.begin
     THEN /\ touched' = {(job.begin + job.k) % size}
          /\ job' = [job EXCEPT !.k = IF job.end < job.begin THEN (@ + 1) % size ELSE @ + 1]
          /\ UNCHANGED <<at, report>>
     ELSE Done("wrote") /\ UNCHANGED <<job, touched>>
  /\ UNCHANGED <<mode, running, before>> /\ Stays

(* The options of .mem count as the words before its ranges wherever they  *)
(* stand; the last -b tells the size of a word, which is 2, 4 or 8 then.   *)
Options(names) == {i \in 1 .. Len(cmd) : cmd[i] \in names}
WordBytes(i)   == IF i = Len(cmd) THEN 0 ELSE atoi(cmd[i + 1])
BadOption      == \E i \in Options({"-b"}) : WordBytes(i) \notin {2, 4, 8}
LastSize       == CHOOSE i \in Options({"-b"}) : \A j \in Options({"-b"}) : j <= i
Bytes    == IF Options({"-b"}) = {} THEN 1 ELSE WordBytes(LastSize)
RangeArgs == 2 + Cardinality(Options({"-h", "-a"})) + 2 * Cardinality(Options({"-b"})) .. Len(cmd)

(* Mutant: a word of several bytes is only checked at its first one.       *)
FirstOutOfBounds(a, bytes) == a < 0 \/ a >= size
(* The last word of the memory is refused as well.                         *)
OutOfBounds(a, bytes) == a < 0 \/ a >= size \/ (bytes > 1 /\ a + bytes >= size)

(* The words of a range that are read: those before the first that is out  *)
(* of bounds, and no range is looked at after one that failed.             *)
Malformed(i) == Ranges[cmd[i]].err # ""
Count(i)     == Ranges[cmd[i]].val.bound
WordAt(i, j) == Ranges[cmd[i]].val.first + (j - 1) * Ranges[cmd[i]].val.step
Fails(i)     == Malformed(i) \/ \E j \in 1 .. Count(i) : OutOfBounds(WordAt(i, j), Bytes)
ReadBytes(i) ==
  IF Malformed(i) THEN {}
  ELSE {WordAt(i, j) + b :
          j \in {k \in 1 .. Count(i) : \A l \in 1 .. k : ~OutOfBounds(WordAt(i, l), Bytes)},
          b \in 0 .. Bytes - 1}

mem ==
  /\ Directive(".mem")
  /\ IF BadOption \/ (Options({"-a"}) # {} /\ Bytes # 1)
     THEN Done("mem error") /\ UNCHANGED touched
     ELSE LET shown == {i \in RangeArgs : \A k \in RangeArgs : k < i => ~Fails(k)}
          IN /\ Done(IF \E i \in RangeArgs : Fails(i) THEN "mem error" ELSE "")
             /\ touched' = UNION {ReadBytes(i) : i \in shown}
  /\ UNCHANGED <<mode, running, job, before>> /\ Stays

(* Mutant: all of it is kept.                                              *)
Whole(v) == v
uint8_t(v) == v % ByteMod

(* A number typed with a minus sign wraps around.                          *)
uint64_t(v) == v % UIntMod

(* Mutant: there is no timeout unless one was typed.                       *)
NoTimeout == IF Len(cmd) >= 4 THEN Number(4) ELSE Return(0)
Timeout == IF Len(cmd) >= 4 THEN Number(4) ELSE Return(DefaultTimeout)

(* The value is cut to a byte, for the device's register too.              *)
wait ==
  /\ Directive(".wait")
  /\ IF Len(cmd) < 3 \/ (cmd[2] # "-m" /\ Number(2).err # "") \/ Number(3).err # ""
                     \/ Timeout.err # ""
     THEN Done("wait error") /\ UNCHANGED job
     ELSE /\ at' = "wait" /\ UNCHANGED report
          /\ job' = [job EXCEPT !.mmio = cmd[2] = "-m",
                                !.begin = IF cmd[2] = "-m" THEN 0 ELSE Number(2).val % size,
                                !.value = uint8_t(Number(3).val),
                                !.timeout = uint64_t(Timeout.val)]
  /\ UNCHANGED <<mode, running, touched, before>> /\ Stays

(* A signal before this assignment is lost.                                *)
WaitBegin ==
  /\ at = "wait"
  /\ at' = "waiting" /\ mode' = "MACHINE"
  /\ UNCHANGED <<running, job, report, touched, before>> /\ Stays

Waiting == mode = "MACHINE" /\ (job.numms < job.timeout \/ job.timeout = 0)

(* Mutant: a poll that finds the value is counted as well.                 *)
PollCounted ==
  LET seen == IF job.mmio THEN cv ELSE At(job.begin)
  IN /\ touched' = IF job.mmio THEN {} ELSE {job.begin}
     /\ job' = [job EXCEPT !.matched = seen = job.value,
                           !.numms = IF job.timeout = 0 THEN @ ELSE @ + 1]
     /\ at' = IF seen = job.value THEN "waited" ELSE at
(* numms only matters when there is a timeout.                             *)
Poll ==
  LET seen == IF job.mmio THEN cv ELSE At(job.begin)
  IN /\ touched' = IF job.mmio THEN {} ELSE {job.begin}
     /\ job' = [job EXCEPT !.matched = seen = job.value,
                           !.numms = IF seen = job.value \/ job.timeout = 0 THEN @ ELSE @ + 1]
     /\ at' = IF seen = job.value THEN "waited" ELSE at

WaitPoll ==
  /\ at = "waiting"
  /\ IF Waiting THEN Poll ELSE at' = "waited" /\ UNCHANGED <<job, touched>>
  /\ UNCHANGED <<mode, running, report, before>> /\ Stays

(* The shell is interactive again, even if .exit had ended it.             *)
WaitEnd ==
  /\ at = "waited"
  /\ Done(CASE job.numms = job.timeout /\ job.timeout # 0 -> "timed out"
            [] (job.numms # job.timeout \/ job.timeout = 0) /\ mode # "MACHINE" -> "aborted"
            [] OTHER -> "observed")
  /\ mode' = "INTERACTIVE"
  /\ UNCHANGED <<running, job, touched, before>> /\ Stays

resize ==
  /\ Directive(".resize")
  /\ IF Len(cmd) < 2 \/ Number(2).err # "" \/ Number(2).val \notin MinBits .. MaxBits
     THEN Done("no resizing") /\ UNCHANGED job
     ELSE Resize(2^Number(2).val, "resize") /\ UNCHANGED report
  /\ UNCHANGED <<mode, running, touched, before>> /\ Stays

----------------------------------------------------------------------------
(* The device: what it stores goes to the buffer its registers named when  *)
(* the request left, at whatever address it likes; through a cleared       *)
(* register it goes nowhere.                                               *)

DevIssue ==
  /\ running /\ dev = NoReq /\ left.stores > 0
  /\ left' = [left EXCEPT !.stores = @ - 1]
  /\ \E a \in 0 .. 4 * GB - 1, v \in Byte :
       dev' = [buf |-> base_addr[segno(a)], off |-> offset(a), addr |-> a, val |-> v,
               inside |-> Up /\ a < size, fresh |-> Up /\ a < size]
  /\ UNCHANGED <<memVars, shellVars, at, job, cv, lost, history>>

Lands == dev.buf \in DOMAIN buffer_map_ /\ dev.off \in DOMAIN buffer_map_[dev.buf]

DevLand ==
  /\ dev # NoReq
  /\ IF Lands THEN Store(dev.buf, dev.off, dev.val) ELSE UNCHANGED buffer_map_
  /\ lost' = (lost \/ (dev.inside /\ ~(Lands /\ dev.buf = data[segno(dev.addr)])))
  /\ dev' = NoReq
  /\ UNCHANGED <<size, data, base_addr, shellVars, at, job, cv, history, left>>

DevCv ==
  /\ running /\ left.cvs > 0
  /\ left' = [left EXCEPT !.cvs = @ - 1]
  /\ cv' \in Byte \ {cv}
  /\ UNCHANGED <<memVars, shellVars, at, job, dev, lost, history>>

----------------------------------------------------------------------------
(* Everything the loader does without being typed at.                      *)
Shell ==
  \/ Connect \/ Boot
  \/ Unmap \/ Free \/ Alloc \/ AllocFails \/ Map \/ Clear
  \/ ReadScript \/ EndScript \/ Leave
  \/ exit \/ go \/ help_loader \/ reset \/ sr \/ Restore \/ Save \/ mem
  \/ wait \/ WaitBegin \/ WaitPoll \/ WaitEnd \/ resize

Device == DevIssue \/ DevLand \/ DevCv

Next == Shell \/ Type \/ break_machine \/ Device

Spec == Init /\ [][Next]_vars

(* The loader's process is scheduled; nobody has to type, signal or store. *)
FairSpec == Spec /\ WF_vars(Shell)
=============================================================================
