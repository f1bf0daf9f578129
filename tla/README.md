# Formal model of the FFT processor and its tools

The repository holds a capstone design: a small RISC processor with an FFT
accelerator in SystemVerilog, an arbiter that shares one memory port among them,
the glue that connects that port to a host over PCIe, and in C++ the tools of
the host: an assembler, a converter, and a loader that gives the device its
memory, starts it and watches it. TLC checks the models on small instances;
TLAPS proves the most important results for every size.

Paths below are relative to `src/`.

## The system

| part | files | state | what it does |
|---|---|---|---|
| top level | `PROCFiles/proc.sv` | none of its own | wires CPU, accelerator and arbiter together |
| instruction flow | `CPUFiles/cpu.sv`, `fetch_stage.sv`, `program_counter.sv`, `control_unit.sv`, `decode_stage.sv`, `execute_stage.sv`, `cause_register.sv`, `MEMFiles/instr_cache.sv` | program counter, instruction cache, exception registers | one instruction at a time; held by a fetch miss, by the memory stage, by an exception, by HALT and by a transform under way |
| memory stage and data cache | `CPUFiles/memory_stage.sv`, `MEMFiles/data_cache.sv` | nine-state machine; direct-mapped write-back cache | a load or store, with eviction and line load on a miss |
| arbiter | `MEMFiles/mem_arb.sv` | twelve-state machine, block counter `sigOffset`, signal table | serves accelerator, data cache and fetch, in this priority, one block at a time |
| accelerator buffers | `MEMFiles/a_buf_in.sv`, `a_buf_out.sv`, `a_buf_top.sv` | a buffer each way, two indices, full flags | blocks to entries and back |
| accelerator | `FFTFiles/fft_accel.sv`, `control.sv`, `fft_ram.sv`, `address_generator.sv`, `butterfly_unit.sv`, `twiddle_ROM.sv` | nine-state machine, four counters, RAM | load 1024 entries, ten stages of 512 butterflies, unload |
| memory controller | `class/rtl/mem_ctrl.sv` | four-state machine, fill count, line buffer, bubble | turns the arbiter's requests into DMA transfers of one line |
| DMA engine | `class/contrib/dma_loopback/hw/cci_dma.sv`, `fifo.sv` | remaining and pending counts, request registers, read FIFO | CCI-P reads and writes of host memory |
| AFU | `class/contrib/dma_loopback/hw/afu.sv`, `class/rtl/cpu.sv` | none of its own; the loopback client keeps a line | wires requester, controller and DMA engine |
| memory map, address translation | `memory_map.sv`, `class/rtl/addr_tr_unit.sv` | base addresses, go | which buffer an address of the device reaches; modelled from the loader's side |
| assembler | `class/src/shell.cpp`, `mips.cpp`, `syms_table.cpp`, `program.cpp`, `mtsstream.cpp`, `env.cpp`, `ustrop.cpp` | source lines kept, labels, two address counts, program image, output stream | two passes over a source, then a binary, hexadecimal or MIF file |
| converter | `class/src/x2b.cpp` | the digits so far | a hexadecimal listing into bytes |
| loader | `class/src/cload_entry.cpp`, `shell_cload.cpp`, `runtime_call.cpp` | mode, script, the directive under way | starts the device, reads directives from a script and a prompt: `.run`, `.rst`, `.sr`, `.mem`, `.wait`, `.resize`, `.exit` |
| loader memory | `class/src/mmem.cpp`, `class/contrib/dma_loopback/sw/AFU.cpp` | size, four segments, live shared buffers, the device's base registers | the memory host and device share |
| vendor shell | `hal.sv`, `ccip_std_afu.sv`, `csr_mgr.sv` | | not modelled |
| arithmetic units, register file | `CPUFiles/alu.sv`, `rf.sv`, ... | registers | not modelled: no control depends on them but through addresses |
| earlier CPU | `EXHANDLECPU/` | | not modelled: `proc.sv` does not use it |
| ISA generator, scripts | `class/src/ISA_gen.cpp`, `ISA_desc.cpp`, `Scripts/` | | not modelled, see below |

How they interact. All parts of the chip share one clock; what they tell one another are
wires, high for as long as the state machine behind them stays in a state. The
fetch stage raises `cacheMissFetch`, the memory stage `cacheMiss` and
`cacheEvict`, the accelerator `startF`/`startI` (from the control unit, for one
cycle) and `outFifoReady`; the arbiter answers with an acknowledgement that is
again high for a state. Nothing is queued and nothing is latched on the way.

On the host, the assembler and the converter run to their end on one file. The
loader is one thread, but not alone: SIGINT runs a handler that writes the mode
between any two of its steps, also inside a directive, and once `.run` has
written `MMIO_GO` the device stores into the shared buffers, through whatever
its base registers held when the store left, and changes the value `MMIO_CV`
reads. The assembler and the processor meet in the instruction word: one packs
its fields, the other cuts them out.

What is hard here:

* **Interleaving.** Three requesters raise and drop requests while another is
  served. A service that outlived its request would fill the wrong cache; a
  start pulse that met a busy arbiter would be lost for good.
* **Counters that are never reset.** `sigOffset`, both buffer indices and
  `cycleCount` keep their value between transfers and are right only if each
  wraps exactly once a transfer.
* **Off-by-one cycles.** `loadExternal`, the buffer's `inFullInt`, the read index
  and the load counter start and stop in different cycles.
* **Strobes instead of handshakes.** `accelRdBlkDone`, the cache's load strobe
  and `en` are high while the arbiter waits for data, not when data comes.
* **Registers with two drivers.** `bufferFull` is assigned by two clocked blocks
  in each buffer.
* **Fixed priority**, so starvation is a question.
* **The dirty victim.** Four steps over two components, during which the
  victim's data must stay on the bus.
* **A host that reorders.** Requests stay in flight for any time, reads and
  writes are answered in any order, and either channel may be almost full in any
  cycle, also the one between the controller's decision to write and the write.
* **Memory that is taken away.** `.resize` frees and allocates the segments of a
  running device, and an allocation may fail half way, also the one that was to
  recover from the first.
* **A mode with two writers.** `.wait` and the signal handler both write it, and
  what `.wait` reports is worked out from it after the fact.
* **Two passes that must agree.** Addresses are counted once in lines and once in
  bytes, and each pass splits the text for itself, the second one after labels
  and newlines were cut off by position.

`PROJECT.json` lists these hazards line by line with the properties that would
catch them. For a hazard that none of them would catch, a note says why: mostly
the code does something that no line of the repository speaks for or against.

## Modules

| module | models | correspondence |
|---|---|---|
| `Params` | | constants used by several components |
| `MemArb` | `mem_arb.sv` | one action for each state of the machine, `Goto` for the state register, `SigCounter` for `sigOffset`; each combinational output is an operator |
| `MemStage` | `memory_stage.sv` + `data_cache.sv` | one action for each state of the machine; the cache is an array of records [valid, dirty, tag, data] |
| `ABuf` | the two buffers | `InStep` and `OutStep` are one clock edge of each; `OneOf` is the register with two drivers |
| `AddressGenerator` | `address_generator.sv` | pure operators on stage and cycle |
| `FftAccel` | `fft_accel.sv`, `control.sv`, `fft_ram.sv` | `CtlStep` is the control machine, an operator for each counter's flip-flop, `RamStep` the RAM with its multiplexer |
| `FftNet` | the calculating phase over exact numbers | the same counters and RAM, with the butterfly's arithmetic in Z[w] |
| `Cpu` | the instruction flow | which instruction is in the pipe-less core, whether the fetch missed, stalls, exceptions, starts |
| `Proc` | `proc.sv` with the memory controller of `proc_tb.sv` | `Clock` is one clock edge of everything; `Tick` an edge without, `Answer` an edge with `tx_done` |
| `MemCtrl` | `mem_ctrl.sv` | an action for each state of the machine, HOSTOP by its four cases; each output is an operator of the state and of this cycle's `op` |
| `CciDma` | `cci_dma.sv` with `fifo.sv` | `ReadChannel` and `WriteChannel` are one clock edge of each channel; a request register is a sequence of none or one request |
| `HostLink` | the wires of `afu.sv` and the host | `LinkClock` is one clock edge of controller, DMA engine and host; requests in flight are two sequences from which the host takes any |
| `Link` | the link under the contract of the loopback client `cpu.sv` | a request is driven until `tx_done`, the line of a read is taken while `rd_valid` is high |
| `Afu` | the link with the processor's arbiter as the requester | `MemArb` and `HostLink` on one clock |
| `Text` | `ustrop.cpp`, `range.cpp`, `priscas::chop_string` | words of a line with quotes, escapes and comments; numbers by prefix; ranges; hexadecimal listings |
| `Options` | `env.cpp` | a fold over the arguments |
| `Isa` | `mips.cpp`, `ISA.h`, `primitives.h` | `assemble` makes a word (the set of its bits) of the words of a line; `opcodeOf`, `rsOf`, `immediateOf` ... are the fields as `control_unit.sv`, `decode_stage.sv` and `execute_stage.sv` cut them out |
| `Assembler` | `shell.cpp` with `syms_table.cpp`, `program.cpp`, `mtsstream.cpp` | one step a source line (`SymbolsError`, `SkipLine`, `TakeLine`), one step an instruction (`AsmFlash`), one step an instruction written (`WriteInst`) |
| `X2b` | `x2b.cpp` | a fold over the characters |
| `HostMemory` | `mmem.cpp`, `AFU.cpp`, base registers of `memory_map.sv`, `addr_tr_unit.sv` | segments, buffers, registers, and the operations `resize` is made of |
| `Loader` | `cload_entry.cpp`, `shell_cload.cpp`, `runtime_call.cpp` | an action for each directive, for each step of its loop, for each stage of a resize; `break_machine` is the signal handler; `DevIssue`, `DevLand`, `DevCv` the device |
| `FlatMemory` | nothing: an abstract specification | one array of bytes that is there or not, one store at a time |
| `Memory` | nothing: an abstract specification | a memory of words: a step stores one word, or returns the word stored at an address, or changes nothing |
| `ProcProps` | | the properties, each with the behaviour it is about |
| `ProcInv`, `TransformInv` | | the inductive invariants, in named parts: of control and caches, and of what becomes of a signal |
| `Proc_proofs`, `Transform_proofs` | | theorems and proofs about each |
| `FftNet_proofs` | | theorems and proofs about what a transform computes |
| `MCProc` | | small instances: which instructions the program is made of |
| `AsmProps`, `LoaderProps` | | the properties of assembler and loader, with the parts of their invariants |
| `LinkInv`, `LoaderInv` | | the inductive invariants of link and loader, in named parts |
| `Assembler_proofs`, `Link_proofs` | | theorems and proofs |
| `Loader_proofs` | | theorems and proofs about the loader's memory, its directives and the refinement of `FlatMemory` |
| `Text_proofs` | | what the recursive definitions of `Text` and `Options` return, for texts of any length |
| `Numbers_proofs` | | lemmas about natural numbers: least elements, induction over a set, division with remainder, powers of two and the pairs of butterfly addresses |
| `MCAssembler`, `MCLoader` | | sources and command lines; scripts, typed lines and files |

One step of `Proc` is one clock edge, so there is no interleaving inside the
chip: it is synchronous hardware, and an order among its parts would be an
order the chip does not have. What is nondeterministic is what the chip does
not decide: the program, which fetch misses, how many cycles the controller
takes (`Tick` any number of times before `Answer`), what `rd_valid` does
(`RdLatency`), and which driver of `bufferFull` a simulator lets win.
The runs take the testbench's controller, which delivers in the first cycle it is
waited for (`RdLatency = {TRUE}`); the proofs say what holds for any other.

A step of `Loader` is one byte of a loop, one allocation or one poll, and
otherwise a directive: the device and the signal come between any two of them.
The four writes that clear the base registers are one step, as are the four that
set them, because a store that leaves between two of them cannot be told from
one that left before or after: in between, no buffer is freed or handed out.

Abstractions.

* An instruction is what it asks of the rest of the system: its class, its
  address, the value it stores, its signal number, its filter bit. The program
  is any sequence of the instructions in `Program`; any fetch may hit or miss.
* An entry of a signal is its position and the number of butterflies it has
  been through, in `Proc`; a number of Z[w] in `FftNet`.
* `io_addr` of the caches. `dataAddrAligned` is declared one bit wide, so the
  host memory the caches reach is one word line of `io_addr`: `AddrAligned` is
  that bit, `host` a block for each of its values.
* `signumTable` is written in row 0 only (`mem_arb.sv:122`); the model has the
  base of that row.
* In `Link` and `Afu` a transfer is one line and an address a line address, as
  `afu.sv` ties the sizes to 1. A word of the controller is a whole line there:
  `FILL_BITS` is 0, its counter two bits wide, so that FILL lasts four cycles and
  shows the line in the first. The part-select by which a written line is
  shifted in is then empty, and what is kept is the incoming line.
  `c1Empty` follows a request after two cycles, as `cci_dma.sv:170` says.
  The host reads and writes its memory when it answers; `raced` records what was
  in flight at that moment.
* The host side of a signal (what the accelerator reads and writes) is not kept:
  what matters is which block is asked for and which entry comes out where.
* `valid` flags, `fifoEmpty`, the filter outputs of `control.sv` and the `FETCH`
  machine of `fetch_stage.sv:77-96` drive nothing and are left out.

* Sources are strings in `Assembler`: words, labels, numbers and comments are what
  it is about. A register number is copied without its terminator
  (`mips.cpp:524`), so `atoi` may read on: `StrayDigits` are the digits that may
  follow. A word is a set of bits, so that shifts and masks are sets too.
* The value of `-b` is read by the C library's `atoi` (blanks, a sign, digits; 0
  if there are none) and kept in an `unsigned`: of what may be typed only a
  multiple of 2^32 is refused, and `-b -1` asks for words of 4294967295 bytes.
  `UnsignedMod` is 2^32 in the code and 256 in the runs, where `-b -1` gives words
  of 255 bytes and, as in the code, a header with `WIDTH=-8`, which
  `fprintf` makes of eight times as much (`mtsstream.cpp:70`). `.mem -b` reads its
  size the same way, into a `size_t`, where a negative number is as wrong as a
  large one. What `atoi` makes of a number that does not even fit a `long` (C leaves it
  undefined) is not modelled: it wraps around like the others.
* In `Loader` a line is a string, but what its words mean is worked out once for
  each line that can come. Numbers are integers; a negative one is taken
  modulo the size of the memory, as the code does with its unsigned value
  (sizes are powers of two). The timeout of `.wait` is taken modulo `UIntMod`,
  2^64 in the code and 4 in the runs: a timeout of -1 is the longest there is.
  `.help`, `.none` and a word without a dot stand for everything that only prints. `report` is which of its messages a directive
  printed last.
* The library hands out some free buffer, and which one is not observable: it
  is any fixed choice. Fresh pages hold one value throughout, any value.
* `Connect` is everything that can go wrong before there is a device:
  no accelerator, no driver, an uncaught exception.

## Not modelled

* Fixed-point rounding and overflow, register values, branch targets and the
  lines of the instruction cache; the pipelined variant; the vendor's shell.
* The ISA generator (`ISA_gen.cpp`, `ISA_desc.cpp`): no target of the Makefile
  builds it and it does not compile (`ISA_desc.cpp:81` iterates over a `range`).
* `streams.cpp`, `messages.cpp`, `priscas_osi.cpp`, `mt_exception.h`: output, help
  texts, a sleep, and exception classes, which the models name by their kind.
* What nothing calls: breakpoints, `scan_for_values`, `mono_syms_table`,
  `AFU::reset`, `mallocNonvolatile`, the predicates of a simulator in `mips.cpp`.
* Failing MMIO accesses, and the end of standard input, at which the loader asks
  for a line again every ten milliseconds (`shell.cpp:511`).
* Scripts that generate test data, and the tests themselves.

## Runs

The runs of the hardware check deadlock. Assembler and loader are programs that
end, so theirs do not.

| run | instance | shows |
|---|---|---|
| `control` | three blocks, one cache line, two signal numbers, transform of 4 points in 2 blocks, every instruction class | services match requests, no start lost, no dirty line dropped, the inductive invariant |
| `transform` | 16 points in 4 blocks; forward, inverse, other instructions | what becomes of each entry on the way through buffers, RAM, butterflies and back |
| `memory` | three addresses in two blocks, two lines, transforms in between | implements `Memory` |
| `progress` | one cache line, two conflicting blocks, transforms | fetches, accesses and transforms end |
| `network` | 32 points, every unit impulse, first and later transforms | the butterflies compute the discrete Fourier transform, in bit-reversed order |
| `link` | two lines, two contents, host that answers at any time and in any order | no acknowledged write is lost, doubled or overtaken; no read takes another's line; every request ends |
| `assemble` | every source of at most two lines out of 27, and eight longer ones; the longer ones under 17 sets of options | both passes agree and keep the program, labels resolve, the processor reads what was written, every output format holds it, also through `x2b` |
| `loader` | segments of two bytes, at most four; pages of two bytes; bytes 0 and 1; three scripts, and one of 30 lines typed at the prompt; one signal, one store, one change of `MMIO_CV`; two failed allocations | the memory is one flat array through every resize, nothing leaks, stores arrive, `.wait` reports what happened, directives end |

Why the bounds are enough. A one-line cache with two legal blocks has every
combination of hit, clean miss and dirty miss; the illegal block raises the
exceptions. Two blocks a buffer is the least for which the block counter and
the last block differ, 16 points in 4 blocks the least for which stage, block
and slot counts all differ. Nothing in the code depends on a count other than
by comparing it with zero and its last value, and the address generator
runs with 4, 16 and 32 points. `starts` and `transforms` are history counters capped at
2: they distinguish the first transform from later ones.

In `link` two addresses and two contents tell a misdirected, lost or stale line
from a right one. The channels never hold more than one request
(`WritesLand` and `ReadChannelQuiet` say so), so a longer FIFO or more requests
in flight would not be used.

In `assemble` the sets of options leave out values, ask for words of 3, 6, 8 and 255
bytes (the last by `-b -1`), and for none (`0`, `x`, and a number that wraps around to 0). A line buffer of 20 characters (254 in the code) cuts the comment of
`; a long comment on halt` in two, and a program memory of three instructions
overflows in one of the longer sources. Two lines are enough for a label before
and after its use, a label defined twice, and two labels of one address; the
longer sources have labels that stand alone, at the end, and far away. In
`loader` the sizes 1, 4 and 8 are less than a segment, two and four; size 1
needs its page rounded up. Four buffers are what four segments need, so a leaked
one shows as an allocation that fails. One signal, one store and one change of
the register fall between any two steps; the scripts run several directives in a row,
what is typed comes after them. Two failures are the least for which the
recovery fails as well.

Fairness. `WF(Tick)`: the clock does not stop. `WF(Answer)`: the host answers a
request that stays up; the arbiter holds `op` until `tx_done`, so the request
does stay up. Nothing is assumed of the program: HALT and an exception stop it
and that is no violation. In `link` and `afu_deadlock`: the clock runs, the host
writes `go`, answers every read and completes every write, each weakly fair; a
channel may be almost full at any time and for ever, so `RequestEnds` assumes
that this ends. (It needs no less: a channel that is almost full in just the
cycle after each bubble makes a write start over for ever.) The fairness is
stated over the variables the clock drives, without `almFull`: otherwise a
hanging link would be obliged to toggle it, and the assumption would hide the hang.
In `loader`: `WF(Shell)`, the loader's process is scheduled. Nobody has to type, to
press a key, or to store. `DirectiveEnds` excepts a `.wait` with timeout 0
and a `.sr -s` whose range ends before it begins.

### Runs that TLC refutes

Each is a statement of a testbench or comment that the code does not keep.

* `memory_conflict`: two blocks that share a line share their place in host
  memory too, since `dataAddrAligned` has one bit (`mem_arb.sv:100`). `memory`
  holds only because its blocks do not conflict.
* `afu_deadlock`: the controller raises `rd_valid` while `op` is READ, up to and with
  `tx_done`; the arbiter drops `op` at `tx_done` and only then waits for
  `rd_valid` (`mem_arb.sv:197`). With the testbench's controller, which `Proc`
  uses, the processor works; with `mem_ctrl.sv`, which `afu.sv` gives it, the
  first fetch never ends.
* `jump_label`: a jump to a label is encoded with the label's word address
  (`mips.cpp:401`), and the processor adds it to the address of the next
  instruction (`execute_stage.sv:56`). `subroutine.s` jumps to labels.
  Labels of the I format are relative, as `InstructionsRoundTrip` shows.
* `wait_interrupt`: a signal that comes after `.wait` has begun and before it sets
  the mode (`runtime_call.cpp:481`) is overwritten; with a timeout of 0 the wait
  goes on, although the help (`messages.cpp:107`) says a signal ends it.

### Seen while reading, with no run

In the hardware:

* the dirty victim is written to the address of the access that missed
  (`mem_arb.sv:216`); `memory_stage_tb.sv:190` writes it back where it came from;
* `stageCount` is 10 for one cycle before `doneCalculating` stops the
  butterflies (`fft_accel.sv:150`), so one more is written: both its addresses are
  slot 0, whose value is doubled. It leaves `cycleCount` at 1 too, so the next
  transform skips a butterfly of stage 0. `OneButterflyPerStage` shows that no
  other slot is affected, `network` that without it the result is right;
* the read index of the input buffer rests at 1 after a transfer
  (`a_buf_in.sv:92`): from the second forward transform on the signal is rotated
  by one. `IDLE_LOADI` raises `loadExternal` a cycle early (`control.sv:81`),
  which rotates the first inverse transform the other way, and together with
  this rotation puts later ones in order;
* `tx_done` of a write means that the line was handed to the DMA engine; a read
  that follows does not wait for it, and the host may answer the read first.
  `ReadCurrent` shows that this race is the only way to read an old line;
* with a controller that waits between `tx_done` and `rd_valid` the input buffer
  would take stale blocks, as `accelRdBlkDone` does not look at `rd_valid`
  (`mem_arb.sv:237`);
* `isIFFT` (`control.sv:119`) is read by nothing, so STARTI computes a forward
  transform; `fifoCounterReversal` (`fft_accel.sv:211`) is read by nothing, so the
  result leaves in the bit-reversed order of `SpectrumBitReversed`;
* a load that raises an exception writes its register in every cycle it is held
  (`decode_stage.sv:95`); STARTF that raises invalidFilterEx still starts the
  accelerator (`control_unit.sv:79`); an access to an illegal address goes on when
  the accelerator finishes (`memory_stage.sv:215`); a line of the signal that is
  cached stays stale when the accelerator writes its result (`data_cache.sv:104`);
* `cpu_in` and `cpu_out` are 32 bits wide in `afu.sv` where the processor's bus
  has 512; the butterfly keeps bits 63:32 of a product whose factors have 16
  fraction bits each (`butterfly_unit.sv:56`, `fft_alg_tb.sv:110` keeps 47:16).

In the tools:

* the last character of a source is taken off as its newline, also when it is
  none (`shell.cpp:168`): a file that ends in `lbi $3 12` assembles `lbi $3 1`;
* registers are numbers of up to 32 with friendly names, of which the encoding
  keeps four bits; xori and andni check `rd`, which they leave zero, where they
  mean `rt` (`mips.cpp:253`);
* `-b -1` passes the test for a positive word size, as the number compared is
  unsigned (`env.cpp:57`), and a MIF file is filled up accordingly; `.mem -b 1` is
  refused by a message that offers 1 (`runtime_call.cpp:352`);
* `x2b` pushes bytes to the front: the bytes of an instruction come out in order,
  the instructions in reverse (`HexThroughX2b` says so);
* `.sr -r` writes one zero after the file (`mmem.cpp:104`), over its first byte when
  it fills the memory; `.sr -s` with a range that ends before it begins writes for
  ever (`mmem.cpp:85`);
* `.mem` refuses the last word of the memory when a word has several bytes
  (`runtime_call.cpp:378`); `.wait` compares with the low byte of its value, for the
  device's register too, as `value_wait_mmio` is never used;
* a signal, or the end of a `.wait` in a script, makes the shell interactive again
  after `.exit` (`cload_entry.cpp:43`); an odd number of quotes ends the loader
  with an uncaught exception (`shell_cload.cpp:128`);
* the comment at `range.h:43` counts the end of a range in and its example leaves
  it out.

## Proofs

`Proc_proofs` proves, for all values of the constants that satisfy the
assumptions of `Params`, `MemArb`, `MemStage`, `FftAccel`, `AddressGenerator`,
`Cpu` and `Proc` (sizes are positive, the blocks of a buffer make up its depth,
and the depth is twice the butterflies of a stage):

* for any controller (`RdLatency` any): `TypeCorrect`, `CacheInvariant`,
  `VictimDriven`, `AccessesComplete`, `DirtyKept`, `SignalHeld`;
* for a controller that delivers in the first cycle it is waited for, as the
  testbench does (`RdLatency = {TRUE}`): `Invariant`, `ServiceMatches`,
  `StartsServed`, `OffsetsAgree`, `FillsWhenEmpty`, `SignalComplete`,
  `ResultComplete`. Without it `SignalComplete` is false: the buffer takes a block
  in every cycle of ACCEL_RD_DONE.

The argument. No property is inductive by itself. `CacheInv` relates the four
machines on the cache side: who is being served, in which state the requester
must be, that the line of the access is the victim while it is evicted, that
its data are on the bus, and that host holds them when the acknowledgement is
up. `AccelInv` relates the arbiter's block counter, the buffers' indices and
flags, the load counter and the control machine: in each phase, which of them
are at rest and which have moved in step. The parts:

| part | says |
|---|---|
| `FetchInv`, `StageInv`, `DataInv`, `WriteBackInv` | each state of the arbiter's cache services against fetch and memory stage |
| `AccelRdInv`, `AccelWrInv` | the same against the accelerator's control machine |
| `OffsetInv` | block counter against buffer index, zero at rest |
| `InFullInv`, `OutFullInv` | when the two full flags and indices may be what |
| `LoadCounterInv`, `DrainInv` | the RAM's and the output buffer's load counters |
| `SignalInv` | the blocks taken so far are the first blocks of the signal |

Each of `Init => Inv` and `Inv /\ [Next]_vars => Inv'` is proved with a lemma
for each component and part; `TypeOK` and `CacheInv` are proved first, `AccelInv`
uses both. The action properties follow from the invariant at the two ends of a
step. TLC checks `IInv`, of which `TypeOK` is a part, in `control`.

`CacheIsMemory`, in the same module, is the refinement `ActsAsMemory`: every step
of the processor maps to a step of `Memory` or leaves the words alone, for any
controller. Its hypothesis is `NoSharedLine`, that the blocks of legal addresses
in use have lines of their own; run `memory_conflict` shows that it is needed. Under it
`LinesInv` holds: a valid line has the tag of the one block in use that maps to
it, so nothing is ever evicted for another block, and a line is loaded only when
it was invalid and the block in host memory is current. `LineEdge` says what one
edge may do to a line, `WordStep` what that does to the words.

`Transform_proofs` proves `EntriesKept`, `FirstInOrder` and `OneEachStage`, for
every number of points and of blocks a buffer, and for any sequence of forward
and inverse transforms (`RdLatency = {TRUE}`, as `SignalComplete` needs). The parts of
`TransformInvariant`, which uses `IInv`:

| part | says |
|---|---|
| `LoadingInv` | while the RAM is loaded the input buffer holds the whole signal and hands out an entry a cycle |
| `RotationInv` | the slots loaded so far hold entries that follow one another, wherever the read index started; then the RAM is a rotation of the signal |
| `FirstInv` | in the first forward transform that index is the load counter's |
| `CountersInv` | stage and cycle rest at stage 0, cycle 0 or 1, and stage `LOGN` lasts one cycle |
| `ButterflyInv` | each slot but 0 and `HALF` has been through the stages before, and this one if its cycle has passed |

`ButterflyInv` needs that a stage's butterflies touch every slot exactly once. The
address generator masks and shifts; `CycleOf` is its inverse, and `OnePair` in
`Numbers_proofs` says that slot k is an address of the butterfly of cycle c
iff c is `CycleOf(k)`. That needs powers of two and division with remainder, which
the SMT solver does not know: `Divided` (quotient and remainder are unique), `Nested`
(dividing twice), `PowerSplits` (2^(a+b)), the last two by induction, as is
`Doubling`, which counts subsets. (`Greatest`, `Least` and `Inductive` are
induction with a set in the place of a predicate, which is first-order.)

`FftNet_proofs` proves `StagesTransform` and `SpectrumComputed` for every number of points
above two: after every cycle of every stage each slot holds the coefficient of the
partial transform that the decimation in frequency puts there, and after the
last stage the RAM is the Fourier transform of the impulse, in bit-reversed
order. (The network is linear, so the impulses determine it for every signal; that
step is not formal.) `NetInv` is the two properties with the ranges of the
counters. The argument goes through

* `ReversesExists` and `ReversedSteps`: the recursive function inside `Reversed` exists
  and obeys its equations, by induction over its domain; the same function is
  inside `BitReverse`, by which the twiddles are addressed (`BitReverseIs`);
* `LowestBit` and `HighZeros`: appending a bit to a number puts it in front of the
  reversed one, and a number with high bits zero reversed is a multiple;
* `Periodic`, `Opposite`, `Turned`, `WithZero`: powers of w in Z[w], with w^HALF = -1;
* `ButterflyTransforms`: one butterfly takes two coefficients of level s to two of
  level s + 1; `OnePerStage`: none is taken twice.

`Loader_proofs` proves, for every segment size, page size, byte width, set of
buffers, memory size and script, under `GBAssumption`, `NullAssumption` and
`SizeAssumption` (the sizes fit in four segments), with no bound on signals,
stores, failures or typed lines but that there is one: `NothingLeaks`,
`NeverMapsFreed`, `SegmentsCover` and `StoresArrive`. None is inductive. The parts:

| part | says |
|---|---|
| `MappedInv` | a base register is cleared or names its segment, and all are cleared while buffers are freed and allocated |
| `PhaseInv` | what is left to allocate fits in the segments left, which are empty |
| `CoverInv` | the segments allocated so far cover the memory so far; once it is up, all of it |
| `StoreInv` | a store on its way names the byte it was addressed to, until the memory goes away under the device |

The same module proves `LoaderTypeOK`, `TouchesMemory`, `ReportHonest` and
`RestoreLands` under the assumptions above and three more, with these further
parts of `LoaderInv`:

| part | says |
|---|---|
| `WordsInv` | a directive is carried out with its own words, and the loader is back at its lines when none is |
| `SizeInv` | a memory that is there or is being made has one of the sizes |
| `BytesInv` | buffers, stores and files hold bytes |
| `LocalsInv` | the locals of each directive are set before its loop starts |
| `TouchInv` | what was touched lies in the memory that is there now, not in an earlier one |
| `WaitInv` | the wait goes on only while there is a reason to, and ends for the reason it reports |
| `RestoreInv` | the part of the file restored so far is in place, also around the end of the memory, and the rest is as before |
| `FreshInv` | a store to the memory it was sent to names its byte |

Two of the three are about the constants: `LinesAssumption` (arguments, script
lines and typed lines are strings) and `FilesAssumption` (files hold bytes). That a
line splits into words, that a word read as a number is an integer, and as a
range has a first value, a step and a number of values is proved
(`TextTyped`, from `ChopType`, `NumberType`, `RangeType`, `ReadType` and `ModeType` of
`Text_proofs`), from the third, `StringsAreSequences`: there is a set of characters and strings are
the sequences of them. That is so in TLA+, but to the provers a string is
an atom. (What the literals in `Text` are, `LiteralsAssumption` says; TLC evaluates it.) With that it is proved that `.mem` reads only where its check has looked (`memTouches`,
for which `Greatest` finds its last `-b`), that addresses that wrap around hit
every byte once (`Around`), that a store through segment and offset changes one
byte of the array (`StoresOne`).

`SegmentsAreOneArray`, under the same assumptions, says that every step of the loader
maps to a step of `FlatMemory` or leaves the array alone: a byte written by
`.sr` or `.rst` and a store that lands are each one write of the array
(`WritesOne` and the device's store), a resize takes the array away with its first
step and puts another in its place with its last, and every step between is a
stutter.

`Assembler_proofs` proves `PassesAgree` for every source, every set of options and
every size of line buffer and program memory. `CountsInv` says what the two
counts are, `TablesInv` that every kept line has its address in both tables;
neither looks into a line, so what the folds of `Text` and `Isa` make of it does
not matter.

`InstructionsRoundTripHolds`, in the same module, says for every source, whatever its
length, labels, mnemonics and numbers, that the fields the processor cuts
out of an assembled word are what its line says, up to the width of each field.
`SourceInv` keeps the text text, `EncodedInv` says that the bytes of the k-th kept line
are those of its words, assembled, unless digits strayed in. The argument goes through

* `BitsSteps`, `BitsOfNumber`, `DigitIsBit`: the number that the bits of a field make is the
  number put there modulo 2^width (`FieldRead`), and the four bytes of a word
  put together are the word (`WordRead`);
* `ROperandsRead`, `I1OperandsRead`, `I2OperandsRead`, `JOperandsRead`, `SignalRead`: no
  two fields of a format overlap, so each is read back;
* `JoinType`, `ChopType`, `NumberType` (of `Text_proofs`), `RegisterType`: the recursive
  functions inside the operators of `Text` exist and return texts, lists of words and
  numbers;
* `OperandRead`, `Assembled`: without an exception each field was set by one
  operand; `RMeans` to `BareMeans` follow the formats, `OffsetRead` a branch from
  its label to the immediate, `Immediate19` to `Immediate27` the sign extension.

Its hypothesis is `StringsAreSequences`, as for the loader. `CasesAssumption` says that
sources are strings and command lines lists of strings.

`SourceKeptHolds` and `LabelsResolveHolds` say, under the same hypothesis, that pass 1
hands on the program that was written: for every source of whole lines without
quotes (`PlainSource`), whatever its length, its kept lines are its instruction lines,
in order, with the same words, and each label has the address of the instruction
behind it. `SplitInv` is the invariant: pass 1 stands behind some line of the
source, and all that its five tables should hold for the lines before it they do. It
is not enough that a line is read back word by word, because pass 1 cuts by position: the last
character, and everything through the first colon. The argument goes through

* `LineAhead`: what `fgets` returns is the next line of the source, `Newlines` and
  `Cardinality` saying which; `NextPlace`, `CountMore`, `CodeCounts` count lines;
* `ScanSteps`, `PlainScan`, `PlainContent`: without quotes and escapes the words of a line are those of its
  characters up to the comment, and no character adds to an earlier word;
* `ChopPopped`: taking the newline off leaves the words as they were;
* `FirstAlong`, `ColonFreeMore`, `EarlyColonMore`, `AheadPushed`: the scan of a whole line follows the scan of what
  is behind its first colon, one word ahead;
* `LabelScan`, `ChopTrimmed`: so the words of a line without its label are all its words but the first,
  unless the label itself holds a colon, which `IsKept` leaves out (of `a:b: nop` the code
  keeps `b: nop`, and pass 2 does not know the mnemonic `b:`);
* `LabelEntered`, `LineKept`, `LabelsStay`: what a step enters stays what it was.

`OutputMatchesProgramHolds` says, under the same hypothesis, that a reader of a
finished file gets the program back byte for byte: for every program, each of the three
formats and every width of a MIF word, also one that is no multiple of four, where
the last word is filled with zeros and the depth in the header counts it. `OutputInv`
(`OutputInvHolds`) is the invariant: an accepted command line leaves one of the three formats
and a positive width (`UnsignedAssumption`: there are numbers below `UnsignedMod`), and the stream holds the first n instructions in the form
of its format, until all of them have been written and it is finished. The argument goes through

* `OptionsRead`, `ErrorsOfAssemble`: what a command line without an error leaves in the environment, for
  every sequence of its words (`AtoiType`, `Wrapped`: what `atoi` returns is a number, and one that is
  not negative as an unsigned); that no error is called `success`;
* `WriteStep`, `Finalized`: what writing an instruction and finishing do to each field of the file;
* `HexSteps`, `HexText`, `PairsOfText`: an instruction as text is two digits a byte, the
  last byte first, and the reader cuts it there again;
* `ConcatSteps`, `ConcatBlocks`, `JoinBlocks`, `BlockPlaces`: in blocks of one width, put one behind
  the other, each element keeps its place;
* `ValueSteps`, `DigitRead`, `HexRead`, `ByteRead`: two digits behind `0x` are read as their byte;
* `Rounding`, `MifHolds`, `PaddedMatches`: the words of a MIF file, each written from its end, are
  those of the padded program. That the filler `00` is two digits zero,
  `ZeroAssumption` says; TLC evaluates it, as strings are atoms to the prover.

`HexThroughX2bHolds` says that `x2b` accepts every finished hexadecimal listing and makes of it
the bytes of the instructions, the last instruction first. It uses `OutputInv` again:
`TakingSteps` gives the states of the converter between two characters (a pair is
complete or its first digit waits), `LineTaken` that the nine characters of a line put the
four bytes of its instruction in front of those before, `LineReadBack` that this keeps
the blocks in reverse order, line by line; `SameBlocks` that the blocks say all.

`Link_proofs` proves `LinkHolds`, `WritesAllLand` and `ReadChannelRests` for every
set of addresses and lines and every `FILL_CYCLES`, and `ReadsAreCurrent` for
every `FILL_CYCLES` above 1. The code's is four (`mem_ctrl.sv:72`). With one cycle the
controller would leave FILL before the line that the client drives has been
taken, so the hypothesis is one the property needs. The parts of
`LinkInvariant`:

| part | says |
|---|---|
| `McInv` | controller against client: the request stands while it is worked on, its line is in the buffer from FILL on |
| `WriteArmedInv` | the write channel is armed for the address that is being asked for |
| `InFlightInv` | a write is in one place only, from the acknowledgement to host memory |
| `ReadPhaseInv` | a read is in exactly one of five places from the request to the line buffer |
| `ReadLineInv` | the line on its way is what its address held, or a write to it was in flight |

Every invariant and every action property of the passing runs is stated by a
theorem. Model-checked only is what needs fairness: `FetchServed`, `AccessServed`,
`TransformEnds`, `RequestEnds` and `DirectiveEnds` are out of the prover's reach.

## Plan

1. A memory of lines as the link's abstract specification, with the acknowledged
   write still on its way.
2. The rest of the instruction flow, `Core`: decoding (`control_unit.sv`), ALU,
   branches and jumps, register file with the writes of a held instruction,
   exception registers, and the instruction cache by line, with the programs
   `Assembler` makes.
3. Fixed-point butterfly: rounding and overflow at a small width, against the
   arithmetic of `fft_alg_tb.sv`.
