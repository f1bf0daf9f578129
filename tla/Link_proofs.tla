---------------------------- MODULE Link_proofs ----------------------------
(***************************************************************************)
(* Proofs about the link to the host, for every set of addresses and       *)
(* lines, every depth of the read FIFO and every length of FILL.           *)
(***************************************************************************)
EXTENDS LinkInv, SequenceTheorems, TLAPS

-----------------------------------------------------------------------------
(* Sequences of at most one element *)

LEMMA OneLong ==
  ASSUME NEW S, NEW s \in OneOrNone(S)
  PROVE  /\ s \in Seq(S)
         /\ s = <<>> => Len(s) = 0
         /\ s # <<>> => Len(s) = 1 /\ s = <<s[1]>> /\ s[1] \in S /\ Head(s) = s[1] /\ Tail(s) = <<>>
  <1>1. CASE s = <<>>
    BY <1>1
  <1>2. ASSUME NEW x \in S, s = <<x>>
        PROVE  /\ s \in Seq(S) /\ s # <<>> /\ Len(s) = 1 /\ s[1] = x
               /\ Head(s) = s[1] /\ Tail(s) = <<>>
    <2>1. s \in Seq(S) /\ Len(s) = 1 /\ s[1] = x
      BY <1>2
    <2>2. Head(s) = s[1]
      BY <2>1
    <2>3. Tail(s) \in Seq(S) /\ Len(Tail(s)) = 0
      BY <2>1
    <2>4. Tail(s) = <<>>
      BY <2>3, EmptySeq
    <2> QED
      BY <2>1, <2>2, <2>4
  <1> QED
    BY <1>1, <1>2 DEF OneOrNone

LEMMA WithoutOne ==
  ASSUME NEW S, NEW s \in OneOrNone(S), NEW i \in 0 .. Len(s)
  PROVE  Without(s, i) = IF i = 0 THEN s ELSE <<>>
  <1>1. CASE i = 0
    BY <1>1 DEF Without
  <1>2. CASE i # 0
    <2>1. Len(s) = 1 /\ i = 1 /\ s \in Seq(S)
      BY <1>2, OneLong
    <2>2. SubSeq(s, 1, 0) = <<>> /\ SubSeq(s, 2, 1) = <<>>
      BY <2>1
    <2> QED
      BY <1>2, <2>1, <2>2 DEF Without, RemoveAt
  <1> QED
    BY <1>1, <1>2

LEMMA Joined ==
  ASSUME NEW S, NEW s \in OneOrNone(S), NEW t \in OneOrNone(S), s = <<>> \/ t = <<>>
  PROVE  s \o t = IF s = <<>> THEN t ELSE s
  BY OneLong, ConcatEmptySeq

-----------------------------------------------------------------------------
(* The requester *)

LEMMA RequestTypes ==
  ASSUME NEW r \in Requests
  PROVE  /\ r.op \in {"IDLE_OP", "READ", "WRITE"}
         /\ r.op # "IDLE_OP" => r.addr \in LineAddrs
         /\ r.op = "WRITE" => r.line \in Lines
  BY DEF Requests

LEMMA IdleRequest == [op |-> "IDLE_OP", addr |-> 0, line |-> 0] \in Requests
  BY DEF Requests

-----------------------------------------------------------------------------
(* The controller and the write channel *)

LEMMA ControllerStep ==
  ASSUME LinkTypeInv, McInv, WriteArmedInv,
         NEW host_init \in BOOLEAN, NEW rsp, NEW land, Clock(host_init, rsp, land)
  PROVE  /\ mcState' \in {"STARTUP", "READY", "FILL", "HOSTOP"}
         /\ fill_count' \in 0 .. FILL_CYCLES - 1
         /\ bubble' \in BOOLEAN
         /\ line_buffer' = IF mcState = "FILL" /\ req.op = "WRITE" THEN req.line
                           ELSE IF mcState = "HOSTOP" /\ req.op = "READ" /\ ~empty THEN Head(fifo)
                           ELSE line_buffer
         /\ req' \in Requests
         /\ req' = req \/ req.op = "IDLE_OP" \/ txDone
         /\ McInv'
  <1> USE MemCtrlAssumption
  <1>1. req' \in Requests /\ (req' = req \/ req.op = "IDLE_OP" \/ txDone)
    BY DEF Clock, Client, LinkTypeInv
  <1>2. req'.op \in {"IDLE_OP", "READ", "WRITE"} /\ req.op \in {"IDLE_OP", "READ", "WRITE"}
    BY <1>1, RequestTypes DEF LinkTypeInv
  <1>3. McStep(req.op, host_init, req.line, ~empty, rd_data, host_wr_ready)
    BY DEF Clock, LinkClock
  <1>4. txDone <=> \/ mcState = "HOSTOP" /\ req.op = "WRITE" /\ host_wr_ready /\ bubble
                   \/ mcState = "FILL" /\ req.op = "READ" /\ fill_count = FILL_CYCLES - 1
    BY DEF txDone, done, tx_done, host_we, host_wgo, rd_valid, host_re, lastFill
  <1>5. CASE Startup(host_init)
    BY <1>1, <1>2, <1>4, <1>5 DEF Startup, LinkTypeInv, McInv
  <1>6. CASE Ready(req.op)
    BY <1>1, <1>2, <1>4, <1>6 DEF Ready, LinkTypeInv, McInv
  <1>7. CASE Fill(req.op, req.line)
    BY <1>1, <1>2, <1>4, <1>7 DEF Fill, lastFill, LinkTypeInv, McInv
  <1>8. CASE HostopRead(req.op, ~empty, rd_data)
    BY <1>1, <1>2, <1>4, <1>8 DEF HostopRead, host_rgo, rd_data, LinkTypeInv, McInv
  <1>9. CASE HostopBubble(req.op, host_wr_ready)
    BY <1>1, <1>2, <1>4, <1>9 DEF HostopBubble, host_wgo, LinkTypeInv, McInv
  <1>10. CASE HostopWrite(req.op)
    <2>1. /\ mcState = "HOSTOP" /\ req.op = "WRITE"
          /\ mcState' = "READY" /\ bubble' = FALSE /\ UNCHANGED <<fill_count, line_buffer>>
      BY <1>10 DEF HostopWrite, host_wgo
    <2>2. fill_count' = 0 /\ 0 \in 0 .. FILL_CYCLES - 1
      BY <2>1 DEF McInv
    <2>3. McInv'
      BY <1>2, <2>1, <2>2 DEF McInv
    <2>4. bubble' \in BOOLEAN
      BY <2>1
    <2> QED
      BY <1>1, <2>1, <2>2, <2>3, <2>4
  <1>11. CASE HostopWait(req.op, ~empty, host_wr_ready)
    BY <1>1, <1>2, <1>4, <1>11 DEF HostopWait, mcVars, LinkTypeInv, McInv
  <1> QED
    BY <1>3, <1>5, <1>6, <1>7, <1>8, <1>9, <1>10, <1>11 DEF McStep

(* The write that is acknowledged in this cycle.                           *)
Acknowledged == txDone /\ req.op = "WRITE"
AckedWrite == [addr |-> req.addr, data |-> req.line]

LEMMA AckedWriteType ==
  ASSUME LinkTypeInv, Acknowledged
  PROVE  AckedWrite \in Writes
  BY RequestTypes DEF LinkTypeInv, Acknowledged, AckedWrite, Writes

LEMMA AcknowledgedIff ==
  Acknowledged <=> mcState = "HOSTOP" /\ req.op = "WRITE" /\ host_wr_ready /\ bubble
  BY DEF Acknowledged, txDone, done, tx_done, host_we, host_wgo, rd_valid, host_re

(* The line goes out for the address of its request, and only then; what   *)
(* went before it has landed.                                              *)
LEMMA WriteStep ==
  ASSUME LinkTypeInv, McInv, WriteArmedInv, InFlightInv,
         NEW host_init \in BOOLEAN, NEW rsp, NEW land, Clock(host_init, rsp, land)
  PROVE  /\ cci_wr_en_delayed' \in BOOLEAN
         /\ cci_wr_en_delayed' <=> Acknowledged
         /\ c1Tx' = IF Acknowledged THEN <<AckedWrite>> ELSE <<>>
         /\ Acknowledged => c1Tx = <<>> /\ writes = <<>>
         /\ cci_wr_remaining_r' \in {0, 1}
         /\ WriteArmedInv'
  <1> DEFINE we == host_we(req.op, host_wr_ready)
             starts == host_wgo(req.op) /\ wr_done(c1Empty)
  <1>1. host_wr_ready => ~almFull.c1 /\ ~cci_wr_en_delayed /\ writes = <<>>
    BY DEF host_wr_ready, host_wr_completed, c1Empty
  <1>2. we <=> Acknowledged
    BY AcknowledgedIff DEF host_we, host_wgo
  <1>3. Acknowledged => /\ c1Tx = <<>> /\ writes = <<>> /\ ~almFull.c1 /\ bubble
                        /\ cci_wr_remaining_r = 1 /\ wr_addr_r = req.addr /\ line_buffer = req.line
    BY <1>1, AcknowledgedIff DEF InFlightInv, WriteArmedInv, McInv
  <1>4. cci_wr_en(we, almFull.c1) <=> Acknowledged
    BY <1>2, <1>3 DEF cci_wr_en
  <1>5. starts => /\ ~Acknowledged /\ cci_wr_remaining_r = 0
                  /\ mcState = "HOSTOP" /\ req.op = "WRITE" /\ ~bubble
    BY <1>3 DEF wr_done, host_wgo, WriteArmedInv
  <1>6. /\ wr_addr_r' = IF we /\ ~almFull.c1 THEN wr_addr_r + 1
                        ELSE IF starts THEN req.addr ELSE wr_addr_r
        /\ cci_wr_remaining_r' = IF cci_wr_en(we, almFull.c1) THEN cci_wr_remaining_r - 1
                                 ELSE IF starts THEN 1 ELSE cci_wr_remaining_r
        /\ cci_wr_en_delayed' = cci_wr_en(we, almFull.c1)
        /\ c1Tx' = IF cci_wr_en(we, almFull.c1)
                     THEN <<[addr |-> wr_addr_r, data |-> line_buffer]>> ELSE <<>>
    BY DEF Clock, LinkClock, WriteChannel
  <1>7. /\ cci_wr_en_delayed' \in BOOLEAN
        /\ cci_wr_en_delayed' <=> Acknowledged
    BY <1>4, <1>6 DEF cci_wr_en
  <1>8. c1Tx' = IF Acknowledged THEN <<AckedWrite>> ELSE <<>>
    BY <1>3, <1>4, <1>6 DEF AckedWrite
  <1>9. cci_wr_remaining_r' = IF Acknowledged THEN 0 ELSE IF starts THEN 1 ELSE cci_wr_remaining_r
    BY <1>3, <1>4, <1>6
  <1>10. ~Acknowledged => wr_addr_r' = IF starts THEN req.addr ELSE wr_addr_r
    BY <1>2, <1>6
  <1>11. req' = req \/ req.op = "IDLE_OP" \/ txDone
    BY DEF Clock, Client
  <1>12. txDone => Acknowledged \/ req.op = "READ"
    BY DEF Acknowledged, txDone, done, tx_done, host_we, host_wgo, rd_valid, host_re
  <1>13. cci_wr_remaining_r' = 1 => req'.op = "WRITE" /\ wr_addr_r' = req'.addr
    BY <1>5, <1>9, <1>10, <1>11, <1>12 DEF WriteArmedInv
  <1>14. bubble' => mcState' = "HOSTOP" /\ cci_wr_remaining_r' = 1
    <2>1. bubble => mcState = "HOSTOP" /\ req.op = "WRITE"
      BY DEF WriteArmedInv
    <2>2. bubble' => HostopBubble(req.op, host_wr_ready)
      BY <2>1 DEF Clock, LinkClock, McStep, Startup, Ready, Fill, HostopRead, HostopWrite,
                  HostopWait, host_rgo, host_wgo, mcVars
    <2>3. HostopBubble(req.op, host_wr_ready) =>
            /\ mcState' = "HOSTOP" /\ ~Acknowledged
            /\ cci_wr_remaining_r = 1 \/ starts
      BY <1>1, AcknowledgedIff DEF HostopBubble, host_wgo, wr_done, c1Empty, LinkTypeInv
    <2> QED
      BY <1>9, <2>2, <2>3
  <1> QED
    BY <1>3, <1>7, <1>8, <1>9, <1>13, <1>14 DEF LinkTypeInv, WriteArmedInv

-----------------------------------------------------------------------------
(* The host *)

(* A channel's register empties into the host, and the host drops what it  *)
(* has answered.                                                           *)
LEMMA HostMoves ==
  ASSUME LinkTypeInv, c0Tx = <<>> \/ reads = <<>>, c1Tx = <<>> \/ writes = <<>>,
         NEW host_init, NEW rsp \in 0 .. Len(reads), NEW land \in 0 .. Len(writes),
         Clock(host_init, rsp, land)
  PROVE  /\ reads' = IF rsp # 0 \/ reads = <<>> THEN c0Tx ELSE reads
         /\ writes' = IF land # 0 \/ writes = <<>> THEN c1Tx ELSE writes
         /\ rsp # 0 => reads # <<>> /\ rsp = 1
         /\ land # 0 => writes # <<>> /\ land = 1
  <1>1. /\ reads' = Without(reads, rsp) \o c0Tx
        /\ writes' = Without(writes, land) \o c1Tx
    BY DEF Clock, LinkClock, HostStep
  <1>2. /\ Without(reads, rsp) = IF rsp = 0 THEN reads ELSE <<>>
        /\ Without(writes, land) = IF land = 0 THEN writes ELSE <<>>
    BY WithoutOne DEF LinkTypeInv
  <1>3. /\ Without(reads, rsp) \in OneOrNone(LineAddrs) /\ c0Tx \in OneOrNone(LineAddrs)
        /\ Without(writes, land) \in OneOrNone(Writes) /\ c1Tx \in OneOrNone(Writes)
    BY <1>2 DEF LinkTypeInv, OneOrNone
  <1>4. /\ reads' = IF Without(reads, rsp) = <<>> THEN c0Tx ELSE Without(reads, rsp)
        /\ writes' = IF Without(writes, land) = <<>> THEN c1Tx ELSE Without(writes, land)
    BY <1>1, <1>2, <1>3, Joined
  <1>5. /\ Len(reads) = IF reads = <<>> THEN 0 ELSE 1
        /\ Len(writes) = IF writes = <<>> THEN 0 ELSE 1
    BY OneLong DEF LinkTypeInv
  <1> QED
    BY <1>2, <1>4, <1>5

(* The write in flight is the last one acknowledged for its address, and   *)
(* everywhere else the host is up to date.                                 *)
LEMMA InFlightStep ==
  ASSUME LinkTypeInv, McInv, WriteArmedInv, InFlightInv, c0Tx = <<>> \/ reads = <<>>,
         NEW host_init \in BOOLEAN, NEW rsp \in 0 .. Len(reads), NEW land \in 0 .. Len(writes),
         Clock(host_init, rsp, land)
  PROVE  /\ c1Tx' \in OneOrNone(Writes) /\ writes' \in OneOrNone(Writes)
         /\ hostMem' \in [LineAddrs -> Lines] /\ stored' \in [LineAddrs -> Lines]
         /\ InFlightInv'
  <1>1. /\ writes' = IF land # 0 \/ writes = <<>> THEN c1Tx ELSE writes
        /\ land # 0 => writes # <<>> /\ land = 1
    BY HostMoves DEF InFlightInv
  <1>2. /\ cci_wr_en_delayed' <=> Acknowledged
        /\ c1Tx' = IF Acknowledged THEN <<AckedWrite>> ELSE <<>>
        /\ Acknowledged => c1Tx = <<>> /\ writes = <<>>
    BY WriteStep
  <1>3. /\ hostMem' = IF land = 0 THEN hostMem
                      ELSE [hostMem EXCEPT ![writes[land].addr] = writes[land].data]
        /\ stored' = IF Acknowledged THEN [stored EXCEPT ![req.addr] = req.line] ELSE stored
    BY DEF Clock, LinkClock, HostStep, History, Acknowledged
  <1>4. hostMem \in [LineAddrs -> Lines] /\ stored \in [LineAddrs -> Lines]
    BY DEF LinkTypeInv
  <1>5. CASE Acknowledged
    <2>1. /\ AckedWrite \in Writes /\ AckedWrite.addr = req.addr /\ AckedWrite.data = req.line
          /\ req.addr \in LineAddrs /\ req.line \in Lines
      BY <1>5, AckedWriteType DEF AckedWrite, Writes
    <2>2. /\ hostMem' = hostMem /\ writes' = <<>> /\ c1Tx' = <<AckedWrite>>
          /\ stored' = [stored EXCEPT ![req.addr] = req.line]
      BY <1>1, <1>2, <1>3, <1>5
    <2>3. \A a \in LineAddrs : hostMem[a] = stored[a]
      BY <1>2, <1>5 DEF InFlightInv
    <2>4. \A w \in Writes : c1Tx' = <<w>> \/ writes' = <<w>> => w = AckedWrite
      BY <2>2
    <2>5. \A w \in Writes : c1Tx' = <<w>> \/ writes' = <<w>> => w.data = stored'[w.addr]
      BY <1>4, <2>1, <2>2, <2>4
    <2>6. \A a \in LineAddrs :
             \/ hostMem'[a] = stored'[a]
             \/ \E w \in Writes : w.addr = a /\ (c1Tx' = <<w>> \/ writes' = <<w>>)
      BY <1>4, <2>1, <2>2, <2>3
    <2>7. c1Tx' \in OneOrNone(Writes) /\ writes' \in OneOrNone(Writes) /\ c1Tx' # <<>>
      BY <2>1, <2>2 DEF OneOrNone
    <2>8. hostMem' \in [LineAddrs -> Lines] /\ stored' \in [LineAddrs -> Lines]
      BY <1>4, <2>1, <2>2
    <2> QED
      BY <1>2, <1>5, <2>2, <2>5, <2>6, <2>7, <2>8 DEF InFlightInv
  <1>6. CASE ~Acknowledged
    <2>1. c1Tx' = <<>> /\ stored' = stored
      BY <1>2, <1>3, <1>6
    <2>2. c1Tx' \in OneOrNone(Writes) /\ writes' \in OneOrNone(Writes)
      BY <1>1, <2>1 DEF OneOrNone, LinkTypeInv
    <2>3. CASE land = 0
      <3>1. /\ hostMem' = hostMem
            /\ \A w \in Writes : writes' = <<w>> <=> c1Tx = <<w>> \/ writes = <<w>>
        <4>1. \A w \in Writes : <<w>> # <<>>
          OBVIOUS
        <4>2. CASE writes = <<>>
          BY <1>1, <1>3, <2>3, <4>1, <4>2
        <4>3. CASE writes # <<>>
          BY <1>1, <1>3, <2>3, <4>1, <4>3 DEF InFlightInv
        <4> QED
          BY <4>2, <4>3
      <3> QED
        BY <1>2, <1>4, <1>6, <2>1, <2>2, <3>1 DEF InFlightInv
    <2>4. CASE land # 0
      <3>1. PICK v \in Writes : writes = <<v>>
        BY <1>1, <2>4 DEF LinkTypeInv, OneOrNone
      <3>2. /\ c1Tx = <<>> /\ writes' = <<>> /\ writes[land] = v
            /\ v.addr \in LineAddrs /\ v.data \in Lines
        BY <1>1, <2>4, <3>1 DEF InFlightInv, Writes
      <3>3. hostMem' = [hostMem EXCEPT ![v.addr] = v.data] /\ v.data = stored[v.addr]
        BY <1>3, <2>4, <3>1, <3>2 DEF InFlightInv
      <3>4. \A a \in LineAddrs : hostMem'[a] = stored'[a]
        BY <1>4, <2>1, <3>1, <3>2, <3>3 DEF InFlightInv
      <3>5. hostMem' \in [LineAddrs -> Lines]
        BY <1>4, <3>2, <3>3
      <3> QED
        BY <1>2, <1>4, <1>6, <2>1, <2>2, <3>2, <3>4, <3>5 DEF InFlightInv
    <2> QED
      BY <2>3, <2>4
  <1> QED
    BY <1>5, <1>6

-----------------------------------------------------------------------------
(* The read channel *)

(* This cycle's steps of a read: it is armed, it goes out, it is answered, *)
(* and the controller takes it from the FIFO.                              *)
Arms == mcState = "HOSTOP" /\ req.op = "READ" /\ dma_rd_remaining_r = 0
Issues == cci_rd_en(almFull.c0)
Taken == mcState = "FILL" /\ req.op = "READ" /\ fifo # <<>>

LEMMA ReadChannelStep ==
  ASSUME LinkTypeInv, c0Tx = <<>> \/ reads = <<>>,
         NEW host_init \in BOOLEAN, NEW rsp \in 0 .. Len(reads), NEW land \in 0 .. Len(writes),
         Clock(host_init, rsp, land), rsp # 0 => fifo = <<>>
  PROVE  /\ rd_addr_r' = IF Issues THEN rd_addr_r + 1 ELSE IF Arms THEN req.addr ELSE rd_addr_r
         /\ cci_rd_remaining_r' = IF Issues THEN cci_rd_remaining_r - 1
                                  ELSE IF Arms THEN 1 ELSE cci_rd_remaining_r
         /\ dma_rd_remaining_r' = IF Taken THEN dma_rd_remaining_r - 1
                                  ELSE IF Arms THEN 1 ELSE dma_rd_remaining_r
         /\ cci_rd_pending_r' =
              cci_rd_pending_r + (IF Issues THEN 1 ELSE 0) - (IF rsp = 0 THEN 0 ELSE 1)
         /\ c0Tx' = IF Issues THEN <<rd_addr_r>> ELSE <<>>
         /\ fifo' = IF rsp # 0 THEN <<hostMem[reads[1]]>> ELSE IF Taken THEN <<>> ELSE fifo
  <1>1. /\ readStarts(host_rgo(req.op)) <=> Arms
        /\ takes(host_re(req.op)) <=> Taken
        /\ (host_re(req.op) /\ ~empty) <=> Taken
    BY DEF readStarts, host_rgo, rd_done, Arms, takes, host_re, empty, Taken
  <1>2. ReadChannel(host_rgo(req.op), req.addr, host_re(req.op), almFull.c0, Response(rsp))
    BY DEF Clock, LinkClock
  <1>3. Response(rsp) = IF rsp = 0 THEN <<>> ELSE <<hostMem[reads[1]]>>
    <2>1. rsp # 0 => rsp = 1
      <3>1. Len(reads) = IF reads = <<>> THEN 0 ELSE 1
        BY OneLong DEF LinkTypeInv
      <3> QED
        BY <3>1
    <2> QED
      BY <2>1 DEF Response
  <1>4. Len(Response(rsp)) = IF rsp = 0 THEN 0 ELSE 1
    BY <1>3
  <1>5. fifo' = IF rsp # 0 THEN <<hostMem[reads[1]]>> ELSE IF Taken THEN <<>> ELSE fifo
    <2> DEFINE rest == IF host_re(req.op) /\ ~empty THEN Tail(fifo) ELSE fifo
    <2>1. fifo' = rest \o (IF Len(fifo) = FIFO_DEPTH THEN <<>> ELSE Response(rsp))
      BY <1>2 DEF ReadChannel
    <2>2. rest = IF Taken THEN <<>> ELSE fifo
      BY <1>1, OneLong DEF Taken, LinkTypeInv
    <2>3. CASE rsp = 0
      BY <1>3, <2>1, <2>2, <2>3, OneLong, ConcatEmptySeq, EmptySeq DEF LinkTypeInv
    <2>4. CASE rsp # 0
      <3>1. reads # <<>> /\ reads[1] \in LineAddrs
        BY <2>4, OneLong DEF LinkTypeInv
      <3>2. fifo = <<>> /\ Len(fifo) # FIFO_DEPTH /\ ~Taken
        BY <2>4, OneLong, CciDmaAssumption DEF Taken, LinkTypeInv
      <3>3. <<hostMem[reads[1]]>> \in Seq(Lines)
        BY <3>1 DEF LinkTypeInv
      <3> QED
        BY <1>3, <2>1, <2>2, <2>4, <3>2, <3>3, ConcatEmptySeq
    <2> QED
      BY <2>3, <2>4
  <1> QED
    BY <1>1, <1>2, <1>4, <1>5 DEF ReadChannel, Issues

(* Where the controller goes, as far as a read is concerned.               *)
LEMMA ControllerMoves ==
  ASSUME LinkTypeInv, McInv, WriteArmedInv,
         NEW host_init \in BOOLEAN, NEW rsp, NEW land, Clock(host_init, rsp, land)
  PROVE  /\ mcState' \in {"FILL", "HOSTOP"} => req' = req /\ ~txDone
         /\ mcState \in {"STARTUP", "READY"} /\ mcState' = "FILL" => req.op = "WRITE"
         /\ mcState = "HOSTOP" /\ req.op = "READ" =>
              mcState' = (IF empty THEN "HOSTOP" ELSE "FILL") /\ UNCHANGED fill_count
         /\ mcState = "HOSTOP" /\ req.op = "WRITE" => mcState' \in {"READY", "HOSTOP"}
         /\ mcState = "FILL" /\ mcState' = "HOSTOP" => req.op = "WRITE"
         /\ mcState = "FILL" /\ mcState' = "FILL" => fill_count' = fill_count + 1
         /\ mcState = "FILL" => mcState' \in {"FILL", "HOSTOP", "READY"}
  <1>1. mcState \in {"STARTUP", "READY", "FILL", "HOSTOP"} /\ req.op \in {"IDLE_OP", "READ", "WRITE"}
    BY RequestTypes DEF LinkTypeInv
  <1>2. McStep(req.op, host_init, req.line, ~empty, rd_data, host_wr_ready)
    BY DEF Clock, LinkClock
  <1>3. txDone => \/ mcState = "HOSTOP" /\ req.op = "WRITE" /\ bubble
                  \/ mcState = "FILL" /\ req.op = "READ" /\ lastFill
    BY DEF txDone, done, tx_done, host_we, host_wgo, rd_valid, host_re
  <1>4. CASE mcState = "STARTUP"
    BY <1>2, <1>4 DEF McStep, Startup, Ready, Fill, HostopRead, HostopBubble, HostopWrite,
                      HostopWait, host_rgo, host_wgo
  <1>5. CASE mcState = "READY"
    <2>1. mcState' = IF req.op = "READ" THEN "HOSTOP" ELSE IF req.op = "WRITE" THEN "FILL" ELSE mcState
      BY <1>2, <1>5 DEF McStep, Startup, Ready, Fill, HostopRead, HostopBubble, HostopWrite,
                        HostopWait, host_rgo, host_wgo
    <2>2. mcState' \in {"FILL", "HOSTOP"} => req' = req /\ ~txDone
      BY <1>3, <1>5, <2>1 DEF Clock, Client
    <2> QED
      BY <1>5, <2>1, <2>2
  <1>6. CASE mcState = "FILL"
    <2>1. mcState' = IF lastFill /\ req.op = "WRITE" THEN "HOSTOP"
                     ELSE IF lastFill /\ req.op = "READ" THEN "READY" ELSE mcState
      BY <1>2, <1>6 DEF McStep, Startup, Ready, Fill, HostopRead, HostopBubble, HostopWrite,
                        HostopWait, host_rgo, host_wgo
    <2>2. fill_count' = IF lastFill THEN 0 ELSE fill_count + 1
      BY <1>2, <1>6 DEF McStep, Startup, Ready, Fill, HostopRead, HostopBubble, HostopWrite,
                        HostopWait, host_rgo, host_wgo
    <2>3. req.op # "IDLE_OP"
      BY <1>6 DEF McInv
    <2>4. mcState' \in {"FILL", "HOSTOP"} => req' = req /\ ~txDone
      BY <1>1, <1>3, <1>6, <2>1, <2>3 DEF Clock, Client
    <2> QED
      BY <1>1, <1>6, <2>1, <2>2, <2>3, <2>4
  <1>7. CASE mcState = "HOSTOP" /\ req.op = "READ"
    <2>1. mcState' = (IF empty THEN "HOSTOP" ELSE "FILL") /\ UNCHANGED fill_count
      BY <1>2, <1>7 DEF McStep, Startup, Ready, Fill, HostopRead, HostopBubble, HostopWrite,
                        HostopWait, host_rgo, host_wgo, mcVars
    <2>2. req' = req /\ ~txDone
      BY <1>3, <1>7 DEF Clock, Client
    <2> QED
      BY <1>7, <2>1, <2>2
  <1>8. CASE mcState = "HOSTOP" /\ req.op = "WRITE"
    <2>1. mcState' = IF bubble THEN "READY" ELSE "HOSTOP"
      BY <1>2, <1>8 DEF McStep, Startup, Ready, Fill, HostopRead, HostopBubble, HostopWrite,
                        HostopWait, host_rgo, host_wgo, mcVars
    <2>2. ~bubble => req' = req /\ ~txDone
      BY <1>3, <1>8 DEF Clock, Client
    <2> QED
      BY <1>8, <2>1, <2>2
  <1> QED
    BY <1>1, <1>4, <1>5, <1>6, <1>7, <1>8 DEF McInv

LEMMA OneOfTwo ==
  ASSUME LinkTypeInv, ReadPhaseInv
  PROVE  /\ c0Tx = <<>> \/ reads = <<>>
         /\ c0Tx # <<>> \/ reads # <<>> => fifo = <<>>
         /\ ReadIdle => cci_rd_pending_r = 0
  BY OneLong, EmptySeq DEF ReadPhaseInv, ReadIdle, ReadUnderWay, LinkTypeInv

(* A read passes through its phases in order, and leaves the channel as it *)
(* found it.                                                               *)
LEMMA ReadPhaseStep ==
  ASSUME LinkTypeInv, McInv, WriteArmedInv, ReadPhaseInv,
         NEW host_init \in BOOLEAN, NEW rsp \in 0 .. Len(reads), NEW land \in 0 .. Len(writes),
         c1Tx = <<>> \/ writes = <<>>, Clock(host_init, rsp, land)
  PROVE  /\ cci_rd_remaining_r' \in {0, 1} /\ dma_rd_remaining_r' \in {0, 1}
         /\ c0Tx' \in OneOrNone(LineAddrs) /\ reads' \in OneOrNone(LineAddrs)
         /\ fifo' \in OneOrNone(Lines)
         /\ ReadPhaseInv'
  <1>1. /\ c0Tx = <<>> \/ reads = <<>>
        /\ reads' = IF rsp # 0 \/ reads = <<>> THEN c0Tx ELSE reads
        /\ rsp # 0 => reads # <<>> /\ fifo = <<>> /\ rsp = 1
    BY OneOfTwo, HostMoves
  <1>2. /\ rd_addr_r' = IF Issues THEN rd_addr_r + 1 ELSE IF Arms THEN req.addr ELSE rd_addr_r
        /\ cci_rd_remaining_r' = IF Issues THEN cci_rd_remaining_r - 1
                                  ELSE IF Arms THEN 1 ELSE cci_rd_remaining_r
        /\ dma_rd_remaining_r' = IF Taken THEN dma_rd_remaining_r - 1
                                  ELSE IF Arms THEN 1 ELSE dma_rd_remaining_r
        /\ cci_rd_pending_r' =
              cci_rd_pending_r + (IF Issues THEN 1 ELSE 0) - (IF rsp = 0 THEN 0 ELSE 1)
        /\ c0Tx' = IF Issues THEN <<rd_addr_r>> ELSE <<>>
        /\ fifo' = IF rsp # 0 THEN <<hostMem[reads[1]]>> ELSE IF Taken THEN <<>> ELSE fifo
    BY <1>1, ReadChannelStep
  <1>3. Issues => cci_rd_remaining_r = 1
    BY DEF Issues, cci_rd_en, LinkTypeInv
  <1>4. rsp # 0 => <<hostMem[reads[1]]>> \in OneOrNone(Lines)
    BY <1>1, OneLong DEF LinkTypeInv, OneOrNone
  <1>5. fifo' \in OneOrNone(Lines) /\ reads' \in OneOrNone(LineAddrs)
    BY <1>1, <1>2, <1>4 DEF LinkTypeInv, OneOrNone
  <1>6. CASE mcState = "HOSTOP" /\ req.op = "READ" /\ dma_rd_remaining_r = 1
    <2>1. ReadUnderWay /\ ~Taken /\ ~Arms /\ req.addr \in LineAddrs
      BY <1>6, RequestTypes DEF ReadPhaseInv, Taken, Arms, LinkTypeInv
    <2>2. dma_rd_remaining_r' = 1
      BY <1>2, <1>6, <2>1
    <2>3. /\ mcState' = (IF fifo = <<>> THEN "HOSTOP" ELSE "FILL") /\ UNCHANGED <<fill_count, req>>
          /\ fill_count = 0
      BY <1>6, ControllerMoves DEF McInv, empty
    <2>4. CASE /\ cci_rd_remaining_r = 1 /\ rd_addr_r = req.addr
               /\ c0Tx = <<>> /\ reads = <<>> /\ fifo = <<>>
      <3>1. /\ rsp = 0 /\ cci_rd_pending_r = 0 /\ reads' = <<>> /\ fifo' = <<>>
            /\ Len(<<req.addr>>) = 1 /\ Len(<<>>) = 0
        BY <1>1, <1>2, <2>1, <2>4 DEF ReadPhaseInv
      <3>2. CASE Issues
        <4>1. /\ c0Tx' = <<req.addr>> /\ cci_rd_remaining_r' = 0 /\ cci_rd_pending_r' = 1
              /\ reads' = <<>> /\ fifo' = <<>>
          BY <1>2, <2>4, <3>1, <3>2
        <4>2. ReadPhaseInv'
          BY <1>6, <2>2, <2>3, <2>4, <3>1, <4>1 DEF ReadPhaseInv, ReadUnderWay
        <4> QED
          BY <1>5, <2>1, <2>2, <4>1, <4>2 DEF OneOrNone
      <3>3. CASE ~Issues
        <4>1. /\ c0Tx' = <<>> /\ cci_rd_remaining_r' = 1 /\ rd_addr_r' = req.addr
              /\ cci_rd_pending_r' = 0 /\ reads' = <<>> /\ fifo' = <<>>
          BY <1>2, <2>1, <2>4, <3>1, <3>3
        <4>2. ReadPhaseInv'
          BY <1>6, <2>2, <2>3, <2>4, <3>1, <4>1 DEF ReadPhaseInv, ReadUnderWay
        <4> QED
          BY <1>5, <2>1, <2>2, <4>1, <4>2 DEF OneOrNone
      <3> QED
        BY <3>2, <3>3
    <2>5. CASE cci_rd_remaining_r = 0 /\ c0Tx = <<req.addr>> /\ reads = <<>> /\ fifo = <<>>
      <3>1. Len(<<req.addr>>) = 1 /\ Len(<<>>) = 0 /\ <<req.addr>> # <<>>
        BY <2>1
      <3>2. /\ rsp = 0 /\ ~Issues /\ reads' = <<req.addr>> /\ c0Tx' = <<>> /\ fifo' = <<>>
            /\ cci_rd_remaining_r' = 0 /\ cci_rd_pending_r' = 1
        BY <1>1, <1>2, <1>3, <2>1, <2>5, <3>1 DEF ReadPhaseInv
      <3>3. ReadPhaseInv'
        BY <1>6, <2>2, <2>3, <2>5, <3>1, <3>2 DEF ReadPhaseInv, ReadUnderWay
      <3> QED
        BY <1>5, <2>2, <3>2, <3>3 DEF OneOrNone
    <2>6. CASE cci_rd_remaining_r = 0 /\ c0Tx = <<>> /\ reads = <<req.addr>> /\ fifo = <<>>
      <3>1. /\ Len(<<req.addr>>) = 1 /\ Len(<<>>) = 0 /\ <<req.addr>> # <<>>
            /\ <<hostMem[reads[1]]>> # <<>>
        BY <2>1
      <3>2. /\ ~Issues /\ c0Tx' = <<>> /\ cci_rd_remaining_r' = 0
            /\ IF rsp = 0 THEN reads' = <<req.addr>> /\ fifo' = <<>> /\ cci_rd_pending_r' = 1
               ELSE reads' = <<>> /\ fifo' # <<>> /\ cci_rd_pending_r' = 0
        BY <1>1, <1>2, <1>3, <2>1, <2>6, <3>1 DEF ReadPhaseInv
      <3>3. ReadPhaseInv'
        <4>1. mcState' = "HOSTOP" /\ req' = req /\ req.op = "READ"
          BY <1>6, <2>3, <2>6
        <4>2. CASE rsp = 0
          BY <2>2, <3>1, <3>2, <4>1, <4>2 DEF ReadPhaseInv, ReadUnderWay
        <4>3. CASE rsp # 0
          BY <2>2, <3>1, <3>2, <4>1, <4>3 DEF ReadPhaseInv, ReadUnderWay, ReadIdle
        <4> QED
          BY <4>2, <4>3
      <3> QED
        BY <1>5, <2>2, <3>2, <3>3 DEF OneOrNone
    <2>7. CASE ReadIdle /\ fifo # <<>>
      <3>1. Len(<<>>) = 0 /\ cci_rd_pending_r = 0
        BY <2>7 DEF ReadPhaseInv, ReadIdle
      <3>2. /\ rsp = 0 /\ ~Issues /\ reads' = <<>> /\ c0Tx' = <<>> /\ fifo' = fifo
            /\ cci_rd_remaining_r' = 0 /\ cci_rd_pending_r' = 0
        BY <1>1, <1>2, <1>3, <2>1, <2>7, <3>1 DEF ReadIdle
      <3>3. ReadPhaseInv'
        BY <2>2, <2>3, <2>7, <3>1, <3>2 DEF ReadPhaseInv, ReadIdle
      <3> QED
        BY <1>5, <2>2, <3>2, <3>3 DEF OneOrNone
    <2> QED
      BY <2>1, <2>4, <2>5, <2>6, <2>7 DEF ReadUnderWay
  <1>7. CASE mcState = "FILL" /\ req.op = "READ" /\ fill_count = 0
    <2>1. ReadIdle /\ fifo # <<>> /\ dma_rd_remaining_r = 1 /\ Taken /\ ~Arms
      BY <1>7 DEF ReadPhaseInv, Taken, Arms
    <2>2. Len(<<>>) = 0 /\ cci_rd_pending_r = 0
      BY <2>1 DEF ReadPhaseInv, ReadIdle
    <2>3. /\ ReadIdle' /\ fifo' = <<>> /\ dma_rd_remaining_r' = 0 /\ cci_rd_pending_r' = 0
      BY <1>1, <1>2, <1>3, <2>1, <2>2 DEF ReadIdle
    <2>4. ~(mcState' = "HOSTOP" /\ req'.op = "READ") /\ ~(mcState' = "FILL" /\ fill_count' = 0)
      BY <1>7, ControllerMoves
    <2>5. ReadPhaseInv'
      BY <2>2, <2>3, <2>4 DEF ReadPhaseInv, ReadIdle
    <2> QED
      BY <1>5, <2>3, <2>5 DEF ReadIdle, OneOrNone
  <1>8. CASE /\ ~(mcState = "HOSTOP" /\ req.op = "READ" /\ dma_rd_remaining_r = 1)
             /\ ~(mcState = "FILL" /\ req.op = "READ" /\ fill_count = 0)
    <2>1. ReadIdle /\ fifo = <<>> /\ dma_rd_remaining_r = 0 /\ ~Taken
      BY <1>8 DEF ReadPhaseInv, Taken
    <2>2. Len(<<>>) = 0 /\ cci_rd_pending_r = 0
      BY <2>1 DEF ReadPhaseInv, ReadIdle
    <2>3. /\ ~Issues /\ rsp = 0 /\ reads' = <<>> /\ c0Tx' = <<>> /\ fifo' = <<>>
          /\ cci_rd_pending_r' = 0
          /\ cci_rd_remaining_r' = IF Arms THEN 1 ELSE 0
          /\ dma_rd_remaining_r' = IF Arms THEN 1 ELSE 0
          /\ Arms => rd_addr_r' = req.addr
      BY <1>1, <1>2, <1>3, <2>1, <2>2 DEF ReadIdle
    <2>4. CASE Arms
      <3>1. mcState' = "HOSTOP" /\ req' = req /\ req.op = "READ"
        BY <2>1, <2>4, ControllerMoves DEF Arms, empty
      <3>2. ReadPhaseInv'
        BY <2>2, <2>3, <2>4, <3>1 DEF ReadPhaseInv, ReadUnderWay
      <3> QED
        BY <1>5, <2>3, <2>4, <3>2 DEF OneOrNone
    <2>5. CASE ~Arms
      <3>1. ~(mcState' = "FILL" /\ req'.op = "READ" /\ fill_count' = 0)
        BY <1>8, <2>1, <2>5, ControllerMoves DEF Arms, McInv, LinkTypeInv
      <3>2. ReadPhaseInv'
        BY <2>2, <2>3, <2>5, <3>1 DEF ReadPhaseInv, ReadIdle
      <3> QED
        BY <1>5, <2>3, <2>5, <3>2 DEF OneOrNone
    <2> QED
      BY <2>4, <2>5
  <1> QED
    BY <1>6, <1>7, <1>8

-----------------------------------------------------------------------------
(* The line a read returns *)

LEMMA WritePendingIff ==
  ASSUME LinkTypeInv, c1Tx = <<>> \/ writes = <<>>, NEW a
  PROVE  WritePending(a) <=> \E w \in Writes : w.addr = a /\ (c1Tx = <<w>> \/ writes = <<w>>)
  <1>1. PendingWrites = IF c1Tx = <<>> THEN writes ELSE c1Tx
    BY Joined DEF PendingWrites, LinkTypeInv
  <1>2. PendingWrites \in OneOrNone(Writes)
    BY <1>1 DEF LinkTypeInv
  <1>3. ASSUME NEW w \in Writes
        PROVE  /\ <<w>> # <<>> /\ Len(<<w>>) = 1 /\ <<w>>[1] = w
               /\ PendingWrites = <<w>> <=> c1Tx = <<w>> \/ writes = <<w>>
    <2>1. <<w>> # <<>> /\ Len(<<w>>) = 1 /\ <<w>>[1] = w
      BY <1>3
    <2>2. CASE c1Tx = <<>>
      BY <1>1, <2>1, <2>2
    <2>3. CASE c1Tx # <<>> /\ writes = <<>>
      BY <1>1, <2>1, <2>3
    <2> QED
      BY <2>1, <2>2, <2>3
  <1>4. CASE PendingWrites = <<>>
    <2>1. Len(PendingWrites) = 0
      BY <1>4
    <2> QED
      BY <1>3, <1>4, <2>1 DEF WritePending
  <1>5. ASSUME NEW v \in Writes, PendingWrites = <<v>>
        PROVE  WritePending(a) <=> \E w \in Writes : w.addr = a /\ (c1Tx = <<w>> \/ writes = <<w>>)
    <2>1. WritePending(a) <=> v.addr = a
      BY <1>3, <1>5 DEF WritePending
    <2>2. \A w \in Writes : PendingWrites = <<w>> => w = v
      BY <1>3, <1>5
    <2> QED
      BY <1>3, <1>5, <2>1, <2>2
  <1> QED
    BY <1>2, <1>4, <1>5 DEF OneOrNone

LEMMA ReadLineStep ==
  ASSUME LinkInvariant, ReadPhaseInv',
         NEW host_init \in BOOLEAN, NEW rsp \in 0 .. Len(reads), NEW land \in 0 .. Len(writes),
         Clock(host_init, rsp, land)
  PROVE  ReadLineInv'
  <1> USE DEF LinkInvariant
  <1>1. CASE mcState' \notin {"FILL", "HOSTOP"}
    BY <1>1 DEF ReadLineInv, ReadPhaseInv
  <1>2. CASE mcState' \in {"FILL", "HOSTOP"} /\ req.op = "READ" /\ ~raced'
    <2>1. req' = req /\ ~txDone
      BY <1>2, ControllerMoves
    <2>2. stored' = stored /\ raced' = IF rsp > 0 THEN WritePending(reads[rsp]) ELSE raced
      BY <1>2, <2>1 DEF Clock, History
    <2>3. /\ c0Tx = <<>> \/ reads = <<>>
          /\ rsp # 0 => reads # <<>> /\ rsp = 1
      BY OneOfTwo, HostMoves DEF InFlightInv
    <2>4. rsp # 0 => fifo = <<>>
      BY <2>3, OneOfTwo
    <2>5. fifo' = IF rsp # 0 THEN <<hostMem[reads[1]]>> ELSE IF Taken THEN <<>> ELSE fifo
      BY <2>3, <2>4, ReadChannelStep
    <2>6. ~raced /\ fifo # <<>> => Head(fifo) = stored[req.addr]
      BY <1>2 DEF ReadLineInv
    <2>7. fifo' # <<>> => Head(fifo') = stored'[req'.addr]
      <3>1. CASE rsp = 0
        BY <1>2, <2>1, <2>2, <2>5, <2>6, <3>1
      <3>2. CASE rsp # 0
        <4>1. reads = <<req.addr>> /\ reads[1] = req.addr /\ req.addr \in LineAddrs
          BY <1>2, <2>3, <3>2, RequestTypes DEF ReadPhaseInv, ReadUnderWay, ReadIdle, LinkTypeInv
        <4>2. ~WritePending(req.addr)
          BY <1>2, <2>2, <2>3, <3>2, <4>1
        <4>3. hostMem[req.addr] = stored[req.addr]
          BY <4>1, <4>2, WritePendingIff DEF InFlightInv
        <4>4. fifo' = <<stored[req.addr]>>
          BY <2>5, <3>2, <4>1, <4>3
        <4> QED
          BY <2>1, <2>2, <4>4
      <3> QED
        BY <3>1, <3>2
    <2>8. ASSUME mcState' = "FILL"
          PROVE  IF fill_count' = 0 THEN line_buffer' = stored'[req'.addr]
                 ELSE taken' = stored'[req'.addr]
      <3>1. CASE mcState = "HOSTOP"
        <4>1. fifo # <<>> /\ fill_count' = 0 /\ rsp = 0
          BY <1>2, <2>4, <2>8, <3>1, ControllerMoves DEF McInv, empty
        <4>2. line_buffer' = Head(fifo)
          BY <1>2, <3>1, <4>1, ControllerStep DEF empty
        <4> QED
          BY <1>2, <2>1, <2>2, <2>6, <4>1, <4>2
      <3>2. CASE mcState = "FILL"
        <4>1. fill_count' = fill_count + 1 /\ fill_count \in Nat
          BY <2>8, <3>2, ControllerMoves, MemCtrlAssumption DEF LinkTypeInv
        <4>2. rsp = 0 /\ ~raced
          BY <1>2, <2>2, <2>3, <3>2 DEF ReadPhaseInv, ReadIdle
        <4>3. taken' = IF fill_count = 0 THEN line_buffer ELSE taken
          BY <1>2, <3>2 DEF Clock, Take, rd_valid, host_re
        <4> QED
          BY <1>2, <2>1, <2>2, <3>2, <4>1, <4>2, <4>3 DEF ReadLineInv
      <3> QED
        BY <1>2, <2>8, <3>1, <3>2, ControllerMoves DEF LinkTypeInv
    <2> QED
      BY <2>7, <2>8 DEF ReadLineInv
  <1> QED
    BY <1>1, <1>2, ControllerMoves DEF ReadLineInv

-----------------------------------------------------------------------------
(* The invariant *)

LEMMA InitEstablishes == Init => LinkInvariant
  <1> SUFFICES ASSUME Init PROVE LinkInvariant
    OBVIOUS
  <1> USE DEF Init, LinkInit, McInit, DmaInit
  <1>1. LinkTypeInv
    <2>1. req \in Requests
      BY IdleRequest
    <2>2. 0 \in 0 .. FILL_CYCLES - 1 /\ 0 \in Lines
      BY MemCtrlAssumption
    <2> QED
      BY <2>1, <2>2 DEF LinkTypeInv, OneOrNone
  <1>2. McInv
    BY DEF McInv
  <1>3. WriteArmedInv
    BY DEF WriteArmedInv
  <1>4. InFlightInv
    BY DEF InFlightInv
  <1>5. ReadPhaseInv
    BY EmptySeq DEF ReadPhaseInv, ReadIdle
  <1>6. ReadLineInv
    BY DEF ReadLineInv
  <1> QED
    BY <1>1, <1>2, <1>3, <1>4, <1>5, <1>6 DEF LinkInvariant

LEMMA NextPreserves == LinkInvariant /\ [Next]_vars => LinkInvariant'
  <1> SUFFICES ASSUME LinkInvariant, [Next]_vars PROVE LinkInvariant'
    OBVIOUS
  <1> USE DEF LinkInvariant
  <1>1. CASE Next
    <2>1. PICK host_init \in BOOLEAN, rsp \in 0 .. Len(reads), land \in 0 .. Len(writes) :
             Clock(host_init, rsp, land)
      BY <1>1 DEF Next
    <2>2. c0Tx = <<>> \/ reads = <<>>
      BY OneOfTwo
    <2>3. c1Tx = <<>> \/ writes = <<>>
      BY DEF InFlightInv
    <2>4. /\ cci_rd_remaining_r' \in {0, 1} /\ dma_rd_remaining_r' \in {0, 1}
          /\ c0Tx' \in OneOrNone(LineAddrs) /\ reads' \in OneOrNone(LineAddrs)
          /\ fifo' \in OneOrNone(Lines)
          /\ ReadPhaseInv'
      BY <2>1, <2>3, ReadPhaseStep
    <2>5. /\ c1Tx' \in OneOrNone(Writes) /\ writes' \in OneOrNone(Writes)
          /\ hostMem' \in [LineAddrs -> Lines] /\ stored' \in [LineAddrs -> Lines]
          /\ InFlightInv'
      BY <2>1, <2>2, InFlightStep
    <2>6. /\ cci_wr_en_delayed' \in BOOLEAN /\ cci_wr_remaining_r' \in {0, 1}
          /\ WriteArmedInv'
      BY <2>1, WriteStep
    <2>7. /\ mcState' \in {"STARTUP", "READY", "FILL", "HOSTOP"}
          /\ fill_count' \in 0 .. FILL_CYCLES - 1 /\ bubble' \in BOOLEAN
          /\ req' \in Requests /\ McInv'
      BY <2>1, ControllerStep
    <2>8. line_buffer' \in Lines
      <3>1. ~empty => Head(fifo) \in Lines
        BY OneLong DEF empty, LinkTypeInv
      <3>2. req.op = "WRITE" => req.line \in Lines
        BY RequestTypes DEF LinkTypeInv
      <3> QED
        BY <2>1, <3>1, <3>2, ControllerStep DEF LinkTypeInv
    <2>9. almFull' \in [c0 : BOOLEAN, c1 : BOOLEAN] /\ raced' \in BOOLEAN
      BY <2>1 DEF Clock, LinkClock, HostStep, History, WritePending, LinkTypeInv
    <2>10. LinkTypeInv'
      BY <2>4, <2>5, <2>6, <2>7, <2>8, <2>9 DEF LinkTypeInv
    <2>11. ReadLineInv'
      BY <2>1, <2>4, ReadLineStep
    <2> QED
      BY <2>4, <2>5, <2>6, <2>7, <2>10, <2>11
  <1>2. CASE UNCHANGED vars
    <2>1. UNCHANGED mcVars /\ UNCHANGED rdVars /\ UNCHANGED wrVars /\ UNCHANGED hostVars
          /\ UNCHANGED <<req, taken, stored, raced>>
      BY <1>2 DEF vars, linkVars
    <2>2. LinkTypeInv' /\ McInv' /\ WriteArmedInv' /\ InFlightInv'
      BY <2>1 DEF mcVars, rdVars, wrVars, hostVars, LinkTypeInv, McInv, WriteArmedInv, InFlightInv
    <2>3. ReadPhaseInv' /\ ReadLineInv'
      BY <2>1 DEF mcVars, rdVars, wrVars, hostVars, ReadPhaseInv, ReadIdle, ReadUnderWay, ReadLineInv
    <2> QED
      BY <2>2, <2>3
  <1> QED
    BY <1>1, <1>2

(* The state of the link in every reachable state: which controller state  *)
(* (mem_ctrl.sv) goes with which phase of the DMA engine (cci_dma.sv).     *)
THEOREM LinkHolds == Spec => []LinkInvariant
  BY InitEstablishes, NextPreserves, PTL DEF Spec

-----------------------------------------------------------------------------
(* What follows from it *)

(* No acknowledged write is lost, doubled or overtaken (cci_dma.sv's write *)
(* channel under mem_ctrl.sv's bubble and retry).                          *)
THEOREM WritesAllLand == Spec => []WritesLand
  <1>1. LinkInvariant => WritesLand
    <2> SUFFICES ASSUME LinkInvariant PROVE WritesLand
      OBVIOUS
    <2> USE DEF LinkInvariant
    <2>1. c1Tx = <<>> \/ writes = <<>>
      BY DEF InFlightInv
    <2>2. PendingWrites = IF c1Tx = <<>> THEN writes ELSE c1Tx
      BY <2>1, Joined DEF PendingWrites, LinkTypeInv
    <2>3. PendingWrites \in OneOrNone(Writes)
      BY <2>2 DEF LinkTypeInv
    <2>4. Len(PendingWrites) = IF PendingWrites = <<>> THEN 0 ELSE 1
      BY <2>3, OneLong
    <2>5. PendingWrites # <<>> => /\ PendingWrites[1] \in Writes
                                  /\ c1Tx = <<PendingWrites[1]>> \/ writes = <<PendingWrites[1]>>
      BY <2>2, <2>3, OneLong
    <2>6. \A i \in 1 .. Len(PendingWrites) : PendingWrites[i].data = stored[PendingWrites[i].addr]
      BY <2>4, <2>5 DEF InFlightInv
    <2>7. ASSUME NEW a \in LineAddrs, hostMem[a] # stored[a]
          PROVE  a \in {w.addr : w \in {PendingWrites[i] : i \in 1 .. Len(PendingWrites)}}
      <3>1. WritePending(a)
        BY <2>1, <2>7, WritePendingIff DEF InFlightInv
      <3> QED
        BY <3>1 DEF WritePending
    <2> QED
      BY <2>4, <2>6, <2>7 DEF WritesLand
  <1> QED
    BY <1>1, LinkHolds, PTL

(* The read channel is empty between operations, and holds at most one     *)
(* read otherwise (cci_dma.sv:195-260).                                    *)
THEOREM ReadChannelRests == Spec => []ReadChannelQuiet
  <1>1. LinkInvariant => ReadChannelQuiet
    <2> SUFFICES ASSUME LinkInvariant PROVE ReadChannelQuiet
      OBVIOUS
    <2> USE DEF LinkInvariant
    <2>1. /\ Len(c0Tx) = IF c0Tx = <<>> THEN 0 ELSE 1
          /\ Len(reads) = IF reads = <<>> THEN 0 ELSE 1
          /\ Len(fifo) = IF fifo = <<>> THEN 0 ELSE 1
      BY OneLong DEF LinkTypeInv
    <2>2. c0Tx = <<>> /\ reads = <<>> => c0Tx \o reads = <<>>
      BY EmptySeq, ConcatEmptySeq
    <2>3. mcState # "HOSTOP" => ReadIdle
      BY DEF ReadPhaseInv
    <2>4. mcState = "READY" => fifo = <<>> /\ dma_rd_remaining_r = 0
      BY DEF ReadPhaseInv
    <2>5. cci_rd_remaining_r + cci_rd_pending_r + Len(fifo) <= 1
      <3>1. ReadIdle => cci_rd_remaining_r + cci_rd_pending_r + Len(fifo) <= 1
        BY <2>1 DEF ReadIdle, ReadPhaseInv
      <3>2. ReadUnderWay => cci_rd_remaining_r + cci_rd_pending_r + Len(fifo) <= 1
        BY <2>1, <3>1 DEF ReadUnderWay, ReadPhaseInv, LinkTypeInv
      <3> QED
        BY <3>1, <3>2 DEF ReadPhaseInv
    <2> QED
      BY <2>2, <2>3, <2>4, <2>5 DEF ReadChannelQuiet, ReadPhaseInv, ReadIdle
  <1> QED
    BY <1>1, LinkHolds, PTL

(* A read that raced no write returns the line last written to its address.*)
(* The bus shows the line in FILL's first cycle and the client has it in   *)
(* the next, so FILL takes at least two: it takes four (mem_ctrl.sv:72).   *)
THEOREM ReadsAreCurrent ==
  ASSUME FILL_CYCLES > 1
  PROVE  Spec => []ReadCurrent
  <1>1. LinkInvariant => ReadCurrent
    BY MemCtrlAssumption DEF LinkInvariant, ReadCurrent, ReadLineInv, LinkTypeInv, McInv, txDone,
       done, tx_done, host_we, host_wgo, rd_valid, host_re, lastFill
  <1> QED
    BY <1>1, LinkHolds, PTL
=============================================================================
