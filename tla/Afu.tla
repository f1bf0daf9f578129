-------------------------------- MODULE Afu ---------------------------------
(***************************************************************************)
(* The processor's arbiter as the requester of the host link (afu.sv): the *)
(* caches' side of it, with one party at a time that holds its request     *)
(* until the arbiter answers.                                              *)
(***************************************************************************)
EXTENDS MemArb, HostLink

VARIABLE waiting  \* who waits for the arbiter

vars == <<arbVars, linkVars, waiting>>

request == [instr |-> waiting = "fetch", data |-> waiting = "load",
            evict |-> waiting = "evict", accelRd |-> FALSE, accelWr |-> FALSE]

answered == \/ instrBlk2CacheValid(rd_valid(op))
            \/ dataBlk2CacheValid(rd_valid(op))
            \/ dataEvictAck

Init == ArbInit /\ LinkInit /\ waiting = "none"

Clock(host_init, rsp, land) ==
  /\ ArbStep(request, done(op), rd_valid(op))
  /\ \E line \in Lines : LinkClock(op, AddrAligned(0), line, host_init, rsp, land)
  /\ waiting' \in IF waiting = "none" THEN {"none", "fetch", "load", "evict"}
                  ELSE IF answered THEN {"none"} ELSE {waiting}

Next == \E host_init \in BOOLEAN, rsp \in 0 .. Len(reads), land \in 0 .. Len(writes) :
          Clock(host_init, rsp, land)

(* The host starts the link, answers every read and completes every write. *)
Started == \E rsp \in 0 .. Len(reads), land \in 0 .. Len(writes) : Clock(TRUE, rsp, land)
Answered == \E g \in BOOLEAN, rsp \in 1 .. Len(reads), land \in 0 .. Len(writes) :
              Clock(g, rsp, land)
Landed == \E g \in BOOLEAN, rsp \in 0 .. Len(reads), land \in 1 .. Len(writes) :
            Clock(g, rsp, land)

driven == <<arbVars, drivenVars, waiting>>
FairSpec ==
  /\ Init /\ [][Next]_vars
  /\ WF_driven(Next) /\ WF_driven(Started) /\ WF_driven(Answered) /\ WF_driven(Landed)

-----------------------------------------------------------------------------
(* afu.sv:163 says that rd_valid "notifies CPU whenever the data on the    *)
(* databus is valid", and a fetch waits for it once its read is done.      *)
FetchAnswered == waiting = "fetch" ~> waiting # "fetch"
=============================================================================
