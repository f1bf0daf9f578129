------------------------------ MODULE LinkInv ------------------------------
(***************************************************************************)
(* The inductive invariant behind the safety properties of Link: where the *)
(* controller is, and where the one read or write of the moment is.        *)
(***************************************************************************)
EXTENDS Link

OneOrNone(S) == {<<>>} \cup {<<x>> : x \in S}

(* What is in flight: at most one of everything, for addresses and lines   *)
(* that exist.                                                             *)
Writes == [addr : LineAddrs, data : Lines]

LinkTypeInv ==
  /\ mcState \in {"STARTUP", "READY", "FILL", "HOSTOP"}
  /\ fill_count \in 0 .. FILL_CYCLES - 1
  /\ bubble \in BOOLEAN /\ line_buffer \in Lines
  /\ req \in Requests
  /\ cci_rd_remaining_r \in {0, 1} /\ dma_rd_remaining_r \in {0, 1}
  /\ cci_wr_remaining_r \in {0, 1} /\ cci_wr_en_delayed \in BOOLEAN
  /\ c0Tx \in OneOrNone(LineAddrs) /\ reads \in OneOrNone(LineAddrs)
  /\ c1Tx \in OneOrNone(Writes) /\ writes \in OneOrNone(Writes)
  /\ fifo \in OneOrNone(Lines)
  /\ hostMem \in [LineAddrs -> Lines] /\ stored \in [LineAddrs -> Lines]
  /\ almFull \in [c0 : BOOLEAN, c1 : BOOLEAN]
  /\ raced \in BOOLEAN

(* The controller is in FILL or HOSTOP for a request, counts in FILL only, *)
(* and has the line of a write in its buffer from FILL's first cycle on.   *)
McInv ==
  /\ mcState \in {"FILL", "HOSTOP"} => req.op # "IDLE_OP"
  /\ mcState # "FILL" => fill_count = 0
  /\ req.op = "WRITE" /\ (mcState = "HOSTOP" \/ fill_count > 0) => line_buffer = req.line

(* An armed write channel holds the address of the write that is being     *)
(* asked for; it is armed in the cycle after the bubble.                   *)
WriteArmedInv ==
  /\ cci_wr_remaining_r = 1 => req.op = "WRITE" /\ wr_addr_r = req.addr
  /\ bubble => mcState = "HOSTOP" /\ cci_wr_remaining_r = 1

(* One write is in flight, in the request register or at the host; every   *)
(* address it is not for has its line.                                     *)
InFlightInv ==
  /\ cci_wr_en_delayed <=> c1Tx # <<>>
  /\ c1Tx = <<>> \/ writes = <<>>
  /\ \A w \in Writes : c1Tx = <<w>> \/ writes = <<w>> => w.data = stored[w.addr]
  /\ \A a \in LineAddrs :
       \/ hostMem[a] = stored[a]
       \/ \E w \in Writes : w.addr = a /\ (c1Tx = <<w>> \/ writes = <<w>>)

(* A read is, in this order, armed, in the request register, at the host   *)
(* and in the FIFO, from which FILL takes it in its first cycle.           *)
ReadIdle == cci_rd_remaining_r = 0 /\ c0Tx = <<>> /\ reads = <<>>
ReadUnderWay ==
  \/ cci_rd_remaining_r = 1 /\ rd_addr_r = req.addr /\ c0Tx = <<>> /\ reads = <<>> /\ fifo = <<>>
  \/ cci_rd_remaining_r = 0 /\ c0Tx = <<req.addr>> /\ reads = <<>> /\ fifo = <<>>
  \/ cci_rd_remaining_r = 0 /\ c0Tx = <<>> /\ reads = <<req.addr>> /\ fifo = <<>>
  \/ ReadIdle /\ fifo # <<>>
ReadPhaseInv ==
  /\ cci_rd_pending_r = Len(c0Tx) + Len(reads)
  /\ IF mcState = "HOSTOP" /\ req.op = "READ" /\ dma_rd_remaining_r = 1
       THEN ReadUnderWay
       ELSE IF mcState = "FILL" /\ req.op = "READ" /\ fill_count = 0
       THEN ReadIdle /\ fifo # <<>> /\ dma_rd_remaining_r = 1
       ELSE ReadIdle /\ fifo = <<>> /\ dma_rd_remaining_r = 0

(* The line of a read that raced no write is the one stored, in the FIFO,  *)
(* in the line buffer and in the client's hands.                           *)
ReadLineInv ==
  req.op = "READ" /\ ~raced =>
    /\ fifo # <<>> => Head(fifo) = stored[req.addr]
    /\ mcState = "FILL" =>
         IF fill_count = 0 THEN line_buffer = stored[req.addr] ELSE taken = stored[req.addr]

LinkInvariant ==
  /\ LinkTypeInv
  /\ McInv
  /\ WriteArmedInv
  /\ InFlightInv
  /\ ReadPhaseInv
  /\ ReadLineInv
=============================================================================
