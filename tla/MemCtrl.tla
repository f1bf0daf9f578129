------------------------------ MODULE MemCtrl ------------------------------
(***************************************************************************)
(* The memory controller (class/rtl/mem_ctrl.sv) as afu.sv instantiates    *)
(* it: a word of the processor's bus is a whole line.  FILL_BITS is then 0 *)
(* and fill_count, declared [FILL_BITS-1:0], two bits wide, so FILL takes  *)
(* four cycles; only in the first of them does the bus show the line.      *)
(* Every action is one clock edge.                                         *)
(***************************************************************************)
EXTENDS Integers

CONSTANTS
  Lines,      \* contents of a line
  FILL_CYCLES \* cycles of the FILL state (4)

ASSUME MemCtrlAssumption ==
  /\ 0 \in Lines
  /\ FILL_CYCLES \in Nat \ {0}

VARIABLES mcState, fill_count, line_buffer, bubble

mcVars == <<mcState, fill_count, line_buffer, bubble>>

-----------------------------------------------------------------------------
(* Outputs *)

host_rgo(op) == mcState = "HOSTOP" /\ op = "READ"
host_wgo(op) == mcState = "HOSTOP" /\ op = "WRITE"

(* Mutant: the line goes out without waiting for its address.              *)
WriteAtOnce(op, host_wr_ready) == host_wgo(op) /\ host_wr_ready

host_we(op, host_wr_ready) == host_wgo(op) /\ host_wr_ready /\ bubble

host_re(op) == mcState = "FILL" /\ op = "READ"
rd_valid(op) == host_re(op)
lastFill == fill_count = FILL_CYCLES - 1
tx_done(op, host_wr_ready) ==
  host_we(op, host_wr_ready) \/ (rd_valid(op) /\ lastFill)

-----------------------------------------------------------------------------
McInit ==
  /\ mcState = "STARTUP"
  /\ fill_count = 0
  /\ line_buffer = 0
  /\ bubble = FALSE

Startup(host_init) ==
  /\ mcState = "STARTUP"
  /\ mcState' = IF host_init THEN "READY" ELSE mcState
  /\ UNCHANGED <<fill_count, line_buffer, bubble>>

Ready(op) ==
  /\ mcState = "READY"
  /\ mcState' = CASE op = "READ" -> "HOSTOP" [] op = "WRITE" -> "FILL"
                  [] OTHER -> mcState
  /\ UNCHANGED <<fill_count, line_buffer, bubble>>

Fill(op, busIn) ==
  /\ mcState = "FILL"
  /\ fill_count' = IF lastFill THEN 0 ELSE fill_count + 1
  /\ line_buffer' = IF op = "WRITE" THEN busIn ELSE line_buffer
  /\ mcState' = CASE lastFill /\ op = "WRITE" -> "HOSTOP"
                  [] lastFill /\ op = "READ" -> "READY"
                  [] OTHER -> mcState
  /\ UNCHANGED bubble

(* Mutant: the line is taken whether or not it has come.                   *)
HostopReadUnchecked(op, host_rd_ready, hostData) ==
  /\ host_rgo(op)
  /\ mcState' = "FILL"
  /\ line_buffer' = hostData
  /\ UNCHANGED <<fill_count, bubble>>

HostopRead(op, host_rd_ready, hostData) ==
  /\ host_rgo(op) /\ host_rd_ready
  /\ mcState' = "FILL"
  /\ line_buffer' = hostData
  /\ UNCHANGED <<fill_count, bubble>>

(* A cycle for the address to reach the DMA engine.                        *)
HostopBubble(op, host_wr_ready) ==
  /\ host_wgo(op) /\ ~bubble /\ host_wr_ready
  /\ bubble' = TRUE
  /\ UNCHANGED <<mcState, fill_count, line_buffer>>

(* The cycle after the bubble ends the operation even if the host is not   *)
(* ready then and nothing was written; op is still up, so it starts again. *)
HostopWrite(op) ==
  /\ host_wgo(op) /\ bubble
  /\ mcState' = "READY"
  /\ bubble' = FALSE
  /\ UNCHANGED <<fill_count, line_buffer>>

HostopWait(op, host_rd_ready, host_wr_ready) ==
  /\ mcState = "HOSTOP"
  /\ ~(op = "READ" /\ host_rd_ready)
  /\ ~(op = "WRITE" /\ (bubble \/ host_wr_ready))
  /\ UNCHANGED mcVars

McStep(op, host_init, busIn, host_rd_ready, hostData, host_wr_ready) ==
  \/ Startup(host_init)
  \/ Ready(op)
  \/ Fill(op, busIn)
  \/ HostopRead(op, host_rd_ready, hostData)
  \/ HostopBubble(op, host_wr_ready)
  \/ HostopWrite(op)
  \/ HostopWait(op, host_rd_ready, host_wr_ready)
=============================================================================
