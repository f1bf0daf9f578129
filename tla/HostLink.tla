------------------------------ MODULE HostLink ------------------------------
(***************************************************************************)
(* Memory controller and DMA engine as afu.sv wires them, and the host     *)
(* behind CCI-P: requests in flight are answered at any time and in any    *)
(* order, reads and writes alike, and either request channel may be almost *)
(* full for a while.                                                       *)
(***************************************************************************)
EXTENDS MemCtrl, CciDma, SequencesExt

VARIABLES
  hostMem,  \* a line for each address
  reads,    \* read requests in flight
  writes,   \* write requests in flight
  almFull   \* c0TxAlmFull and c1TxAlmFull in this cycle

hostVars == <<hostMem, reads, writes, almFull>>
linkVars == <<mcVars, rdVars, wrVars, hostVars>>

(* What the clock drives: all but the almost-full inputs, which no fair    *)
(* clock has to change.                                                    *)
drivenVars == <<mcVars, rdVars, wrVars, hostMem, reads, writes>>

c1Empty == writes = <<>>

(* Mutant: the wire leaves out the write still in flight.                  *)
ReadyWhileInFlight == ~almFull.c1

host_wr_ready == ~almFull.c1 /\ ~host_wr_completed(c1Empty)

(* This cycle's tx_done, for the requester.                                *)
done(op) == tx_done(op, host_wr_ready)

-----------------------------------------------------------------------------
(* The host: answer read number `rsp', complete write number `land'; 0 is  *)
(* neither.                                                                *)
Without(s, i) == IF i = 0 THEN s ELSE RemoveAt(s, i)

Response(rsp) == IF rsp = 0 THEN <<>> ELSE <<hostMem[reads[rsp]]>>

HostStep(rsp, land) ==
  /\ reads' = Without(reads, rsp) \o c0Tx
  /\ writes' = Without(writes, land) \o c1Tx
  /\ hostMem' = IF land = 0 THEN hostMem
                ELSE [hostMem EXCEPT ![writes[land].addr] = writes[land].data]
  /\ almFull' \in [c0 : BOOLEAN, c1 : BOOLEAN]

LinkInit ==
  /\ McInit
  /\ DmaInit
  /\ hostMem = [a \in LineAddrs |-> 0]
  /\ reads = <<>>
  /\ writes = <<>>
  /\ almFull = [c0 |-> FALSE, c1 |-> FALSE]

(* One clock edge, for a requester that drives op, addr and line.          *)
LinkClock(op, addr, line, host_init, rsp, land) ==
  /\ McStep(op, host_init, line, ~empty, rd_data, host_wr_ready)
  /\ ReadChannel(host_rgo(op), addr, host_re(op), almFull.c0, Response(rsp))
  /\ WriteChannel(host_wgo(op), addr, host_we(op, host_wr_ready), line_buffer,
                  almFull.c1, c1Empty)
  /\ HostStep(rsp, land)
=============================================================================
