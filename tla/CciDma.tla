------------------------------- MODULE CciDma -------------------------------
(***************************************************************************)
(* The DMA engine (class/contrib/dma_loopback/hw/cci_dma.sv) with its read *)
(* FIFO (fifo.sv): a read and a write channel that turn go, enable and     *)
(* size into CCI-P requests.  Addresses are line addresses, and a transfer *)
(* is one line (afu.sv ties rd_size and wr_size to 1).                     *)
(***************************************************************************)
EXTENDS Integers, Sequences

CONSTANTS
  LineAddrs,  \* line addresses the client uses
  FIFO_DEPTH  \* lines the read FIFO holds (512)

ASSUME CciDmaAssumption == LineAddrs \subseteq Nat /\ FIFO_DEPTH \in Nat \ {0}

VARIABLES
  cci_rd_remaining_r, cci_rd_pending_r, dma_rd_remaining_r, rd_addr_r,
  cci_wr_remaining_r, wr_addr_r, cci_wr_en_delayed,
  c0Tx,  \* read request register: none or one address
  c1Tx,  \* write request register: none or one [addr, data]
  fifo   \* lines read and not yet taken

rdVars == <<cci_rd_remaining_r, cci_rd_pending_r, dma_rd_remaining_r, rd_addr_r,
            c0Tx, fifo>>
wrVars == <<cci_wr_remaining_r, wr_addr_r, cci_wr_en_delayed, c1Tx>>

-----------------------------------------------------------------------------
(* What the client sees *)

empty == fifo = <<>>
rd_data == IF empty THEN 0 ELSE Head(fifo)
rd_done == dma_rd_remaining_r = 0

wr_done(c1Empty) == ~cci_wr_en_delayed /\ c1Empty /\ cci_wr_remaining_r = 0
host_wr_completed(c1Empty) == cci_wr_en_delayed \/ ~c1Empty

-----------------------------------------------------------------------------
DmaInit ==
  /\ cci_rd_remaining_r = 0
  /\ cci_rd_pending_r = 0
  /\ dma_rd_remaining_r = 0
  /\ cci_wr_remaining_r = 0
  /\ cci_wr_en_delayed = FALSE
  /\ rd_addr_r = 0
  /\ wr_addr_r = 0
  /\ c0Tx = <<>>
  /\ c1Tx = <<>>
  /\ fifo = <<>>

fifoSpace == FIFO_DEPTH - Len(fifo)
cci_rd_en(c0TxAlmFull) ==
  cci_rd_remaining_r > 0 /\ ~c0TxAlmFull /\ cci_rd_pending_r < fifoSpace

(* Mutant: a read already under way starts again.                          *)
CaptureAlways(rd_go) == rd_go

readStarts(rd_go) == rd_go /\ rd_done

(* Mutant: taking the line from the FIFO does not end the transfer.        *)
TakesUncounted(rd_en) == FALSE

takes(rd_en) == rd_en /\ ~empty

(* rsp is the line the host answers with in this cycle, if any.            *)
ReadChannel(rd_go, rd_addr, rd_en, c0TxAlmFull, rsp) ==
  LET issue == cci_rd_en(c0TxAlmFull)
  IN  /\ rd_addr_r' = IF issue THEN rd_addr_r + 1
                      ELSE IF readStarts(rd_go) THEN rd_addr ELSE rd_addr_r
      /\ cci_rd_remaining_r' = IF issue THEN cci_rd_remaining_r - 1
                               ELSE IF readStarts(rd_go) THEN 1 ELSE cci_rd_remaining_r
      /\ dma_rd_remaining_r' = IF takes(rd_en) THEN dma_rd_remaining_r - 1
                               ELSE IF readStarts(rd_go) THEN 1 ELSE dma_rd_remaining_r
      /\ cci_rd_pending_r' = cci_rd_pending_r + (IF issue THEN 1 ELSE 0) - Len(rsp)
      /\ c0Tx' = IF issue THEN <<rd_addr_r>> ELSE <<>>
      /\ fifo' = (IF rd_en /\ ~empty THEN Tail(fifo) ELSE fifo)
                   \o (IF Len(fifo) = FIFO_DEPTH THEN <<>> ELSE rsp)

cci_wr_en(wr_en, c1TxAlmFull) == wr_en /\ ~c1TxAlmFull /\ cci_wr_remaining_r > 0

WriteChannel(wr_go, wr_addr, wr_en, wr_data, c1TxAlmFull, c1Empty) ==
  LET issue == cci_wr_en(wr_en, c1TxAlmFull)
      starts == wr_go /\ wr_done(c1Empty)
  IN  /\ wr_addr_r' = IF wr_en /\ ~c1TxAlmFull THEN wr_addr_r + 1
                      ELSE IF starts THEN wr_addr ELSE wr_addr_r
      /\ cci_wr_remaining_r' = IF issue THEN cci_wr_remaining_r - 1
                               ELSE IF starts THEN 1 ELSE cci_wr_remaining_r
      /\ cci_wr_en_delayed' = issue
      /\ c1Tx' = IF issue THEN <<[addr |-> wr_addr_r, data |-> wr_data]>> ELSE <<>>
=============================================================================
