-------------------------------- MODULE Link --------------------------------
(***************************************************************************)
(* The link to the host under a requester that keeps to the controller's   *)
(* contract, as the loopback client class/rtl/cpu.sv does: it drives a     *)
(* request until tx_done and takes the line of a read while rd_valid is    *)
(* high.  The next request may follow at once.                             *)
(***************************************************************************)
EXTENDS HostLink

VARIABLES
  req,     \* the request the client drives
  taken,   \* the line it took from the bus during this read
  stored,  \* history: the line of the last completed write to each address
  raced    \* history: the host answered this read while a write to its
           \* address was in flight

vars == <<linkVars, req, taken, stored, raced>>

Requests ==
  [op : {"IDLE_OP"}, addr : {0}, line : {0}] \cup [op : {"READ"}, addr : LineAddrs, line : {0}]
    \cup [op : {"WRITE"}, addr : LineAddrs, line : Lines]

txDone == done(req.op)

(* The bus shows the line in the first cycle of FILL only.                 *)
Take == taken' = IF rd_valid(req.op) /\ fill_count = 0 THEN line_buffer ELSE taken

Client ==
  IF req.op = "IDLE_OP" \/ txDone THEN req' \in Requests ELSE UNCHANGED req

Init ==
  /\ LinkInit
  /\ req = [op |-> "IDLE_OP", addr |-> 0, line |-> 0]
  /\ taken = 0
  /\ stored = hostMem
  /\ raced = FALSE

PendingWrites == c1Tx \o writes
WritePending(a) == \E i \in 1 .. Len(PendingWrites) : PendingWrites[i].addr = a

History(rsp) ==
  /\ stored' = IF txDone /\ req.op = "WRITE" THEN [stored EXCEPT ![req.addr] = req.line]
               ELSE stored
  /\ raced' = IF txDone THEN FALSE
              ELSE IF rsp > 0 THEN WritePending(reads[rsp]) ELSE raced

Clock(host_init, rsp, land) ==
  /\ LinkClock(req.op, req.addr, req.line, host_init, rsp, land)
  /\ Take
  /\ Client
  /\ History(rsp)

Next == \E host_init \in BOOLEAN, rsp \in 0 .. Len(reads), land \in 0 .. Len(writes) :
          Clock(host_init, rsp, land)

(* The host starts the link, answers every read and completes every write. *)
Started == \E rsp \in 0 .. Len(reads), land \in 0 .. Len(writes) : Clock(TRUE, rsp, land)
Answered == \E g \in BOOLEAN, rsp \in 1 .. Len(reads), land \in 0 .. Len(writes) :
              Clock(g, rsp, land)
Landed == \E g \in BOOLEAN, rsp \in 0 .. Len(reads), land \in 1 .. Len(writes) :
            Clock(g, rsp, land)

Spec == Init /\ [][Next]_vars

driven == <<drivenVars, req, taken, stored, raced>>
FairSpec ==
  /\ Spec
  /\ WF_driven(Next) /\ WF_driven(Started) /\ WF_driven(Answered) /\ WF_driven(Landed)

-----------------------------------------------------------------------------
(* No acknowledged write is lost, doubled or overtaken by another: what    *)
(* was last written to an address is in host memory or on its way there,   *)
(* alone.                                                                  *)
WritesLand ==
  /\ Len(PendingWrites) <= 1
  /\ \A a \in LineAddrs \ {w.addr : w \in {PendingWrites[i] : i \in 1 .. Len(PendingWrites)}} :
       hostMem[a] = stored[a]
  /\ \A i \in 1 .. Len(PendingWrites) : PendingWrites[i].data = stored[PendingWrites[i].addr]

(* Between operations the read channel is empty, so a read cannot take the *)
(* line of an earlier one, and no read goes out twice.                     *)
ReadChannelQuiet ==
  /\ mcState # "HOSTOP" => c0Tx \o reads = <<>> /\ cci_rd_remaining_r = 0
  /\ mcState = "READY" => fifo = <<>> /\ dma_rd_remaining_r = 0
  /\ cci_rd_pending_r = Len(c0Tx) + Len(reads)
  /\ cci_rd_remaining_r + cci_rd_pending_r + Len(fifo) <= 1

(* A read returns the line last written to its address, unless the host    *)
(* answered it while that write was still in flight.                       *)
ReadCurrent ==
  txDone /\ req.op = "READ" /\ ~raced => taken = stored[req.addr]

(* Every request ends, provided the host's channels do not stay almost     *)
(* full: a write that finds its channel almost full in the cycle after the *)
(* bubble is started over.                                                 *)
RequestEnds ==
  <>[](~almFull.c0 /\ ~almFull.c1) => (req.op # "IDLE_OP" ~> txDone)
=============================================================================
