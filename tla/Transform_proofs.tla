-------------------------- MODULE Transform_proofs --------------------------
(***************************************************************************)
(* Proofs about what becomes of a signal in the RAM, for every size of     *)
(* transform: its entries are all there, in an order known, and each slot  *)
(* but two goes through one butterfly a stage.                             *)
(***************************************************************************)
EXTENDS TransformInv, Proc_proofs

-----------------------------------------------------------------------------
(* The butterflies of a stage *)

(* The bits above and below the one a stage pairs on.                      *)
LEMMA HalfSplits ==
  ASSUME NEW s \in 0 .. LOGN - 1
  PROVE  /\ 2 ^ s \in Nat \ {0} /\ 2 ^ (LOGN - 1 - s) \in Nat \ {0}
         /\ 2 ^ (LOGN - 1 - s) * 2 ^ s = HALF
  <1>1. LOGN - 1 \in Nat
    BY Sizes
  <1> QED
    BY <1>1, PowerSplits DEF HALF

LEMMA Indices ==
  ASSUME NEW s \in 0 .. LOGN - 1, NEW c \in 0 .. HALF - 1,
         NEW low, low = 2 ^ (LOGN - 1 - s)
  PROVE  /\ IndexA(s, c) = (c \div low) * (2 * low) + (c % low)
         /\ IndexB(s, c) = (c \div low) * (2 * low) + (c % low) + low
  <1> DEFINE p == 2 ^ s
             first == (c \div low) * (2 * low) + (c % low)
  <1>1. low \in Nat \ {0} /\ p \in Nat \ {0} /\ low * p = HALF
    BY HalfSplits
  <1>2. IndexA(s, c) = first
    <2>1. ~(s >= LOGN)
      BY Sizes
    <2> QED
      BY <2>1 DEF IndexA
  <1>3. HALF \div (2 ^ s) = low
    <2>1. 0 \in 0 .. p - 1 /\ low \in Nat
      BY <1>1
    <2>2. (low * p + 0) \div p = low
      BY <1>1, <2>1, Divided
    <2>3. low * p + 0 = HALF
      BY <1>1, Sizes
    <2> QED
      BY <2>2, <2>3
  <1>4. IndexB(s, c) = (first + low) % (2 * HALF)
    BY <1>2, <1>3 DEF IndexB
  <1> HIDE DEF p
  <1>5. first + low \in 0 .. 2 * HALF - 1
    BY <1>1, PairFits
  <1> HIDE DEF first
  <1>6. \A x \in 0 .. 2 * HALF - 1 : x % (2 * HALF) = x
    BY Sizes
  <1> QED
    BY <1>2, <1>4, <1>5, <1>6 DEF first

(* Every slot is worked on by exactly one butterfly of each stage.         *)
LEMMA OnePerStage ==
  ASSUME NEW s \in 0 .. LOGN - 1, NEW c \in 0 .. HALF - 1, NEW k \in Slots
  PROVE  /\ CycleOf(s, k) \in 0 .. HALF - 1
         /\ k \in {IndexA(s, c), IndexB(s, c)} <=> c = CycleOf(s, k)
  <1> DEFINE low == 2 ^ (LOGN - 1 - s)
             p == 2 ^ s
  <1>1. low \in Nat \ {0} /\ p \in Nat \ {0} /\ low * p = HALF
    BY HalfSplits
  <1>2. k \in 0 .. 2 * HALF - 1
    BY FftAssumption, Sizes DEF Slots
  <1>3. /\ IndexA(s, c) = (c \div low) * (2 * low) + (c % low)
        /\ IndexB(s, c) = (c \div low) * (2 * low) + (c % low) + low
    BY Indices
  <1>4. CycleOf(s, k) = (k \div (2 * low)) * low + (k % low)
    BY DEF CycleOf
  <1> HIDE DEF low, p
  <1>5. c \in 0 .. low * p - 1 /\ k \in 0 .. 2 * (low * p) - 1
    BY <1>1, <1>2
  <1> DEFINE pair == (k \div (2 * low)) * low + (k % low)
             first == (c \div low) * (2 * low) + (c % low)
  <1>6. pair \in 0 .. low * p - 1 /\ (k \in {first, first + low} <=> c = pair)
    BY <1>1, <1>5, OnePair
  <1> HIDE DEF pair, first
  <1> QED
    BY <1>1, <1>3, <1>4, <1>6 DEF pair, first

-----------------------------------------------------------------------------
(* Loading the RAM *)

LEMMA Wraps ==
  ASSUME NEW x \in Nat
  PROVE  (x + DEPTH) % DEPTH = x % DEPTH /\ x % DEPTH \in Slots
  <1>1. DEPTH \in Nat \ {0}
    BY Sizes
  <1>2. x \div DEPTH \in Nat /\ x % DEPTH \in 0 .. DEPTH - 1 /\ x = (x \div DEPTH) * DEPTH + (x % DEPTH)
    BY <1>1, Divides
  <1> DEFINE q == x \div DEPTH
             r == x % DEPTH
  <1> HIDE DEF q, r
  <1>3. x = q * DEPTH + r /\ q + 1 \in Nat /\ r \in 0 .. DEPTH - 1
    BY <1>2 DEF q, r
  <1>4. ((q + 1) * DEPTH + r) % DEPTH = r
    BY <1>1, <1>3, Divided
  <1>5. (q + 1) * DEPTH + r = x + DEPTH
    BY <1>1, <1>2, <1>3 DEF q
  <1> QED
    BY <1>2, <1>4, <1>5 DEF r, Slots

LEMMA Small ==
  ASSUME NEW x \in Slots
  PROVE  x % DEPTH = x /\ (x + DEPTH) % DEPTH = x
  <1>1. DEPTH \in Nat \ {0} /\ x \in 0 .. DEPTH - 1 /\ 0 * DEPTH + x = x /\ x \in Nat
    BY Sizes DEF Slots
  <1>2. (0 * DEPTH + x) % DEPTH = x
    BY <1>1, Divided
  <1> QED
    BY <1>1, <1>2, Wraps

(* What a clock edge writes into the RAM, and that the buffer keeps what   *)
(* it holds while the RAM is loaded from it.                               *)
LEMMA RamNext ==
  ASSUME TypeOK, NEW tx_done, NEW rd_valid, Clock(tx_done, rd_valid)
  PROVE  /\ ctl \in {"LOADF", "LOADI"} => ram' = [ram EXCEPT ![loadRamCounter] = inBuf[inOutIndex]]
         /\ ctl \in CalcStates =>
              ram' = IF ~doneCalculating
                       THEN [k \in Slots |-> IF k \in BflySlots THEN Butterflied(ram[k]) ELSE ram[k]]
                       ELSE ram
         /\ ctl = "LOADOUT" => ram' = ram
         /\ currState # "ACCEL_RD_DONE" => inBuf' = inBuf
  <1>1. RamStep /\ InStep(accelRdBlkDone, accelBlk2Buffer)
    BY DEF Clock, FftStep
  <1> QED
    BY <1>1 DEF RamStep, InStep, accelRdBlkDone, loadExternal, loadInternal, accelDataOut,
       CalcStates, IdleLoadStates

LEMMA LoadingStep ==
  ASSUME IInv, LoadingInv, NEW tx_done, NEW rd_valid, Clock(tx_done, rd_valid)
  PROVE  LoadingInv'
  <1>1. /\ TypeOK /\ AccelRdInv /\ InFullInv /\ LoadCounterInv /\ SignalBuffered
        /\ inOutIndex \in 0 .. DEPTH - 1 /\ loadRamCounter \in 0 .. DEPTH - 1
        /\ ctl \in CtlStates /\ inFull \in BOOLEAN /\ inFullInt \in BOOLEAN
    BY DEF IInv, CacheInv, AccelInv, SignalInv, TypeOK, FftTypeOK, Slots
  <1>2. CASE ctl \in IdleLoadStates /\ inFull
    <2>1. inBuf' = inBuf /\ inFullInt' /\ ~inFullInt
      BY <1>1, <1>2, InNext, RamNext DEF AccelRdInv, InFullInv, IdleLoadStates
    <2>2. inFull'
      BY <1>1, <1>2, <2>1, InNext DEF AccelRdInv
    <2>3. loadRamCounter = 0 /\ ~loadExternalDone /\ DEPTH - 1 # 0
      BY <1>1, <1>2, Sizes DEF LoadCounterInv, IdleLoadStates
    <2>4. ctl' = "LOADI" => loadRamCounter' = 1
      BY <1>1, <1>2, <2>3, CtlNext, LoadCounterNext DEF loadExternal, IdleLoadStates
    <2> QED
      BY <1>1, <1>2, <2>1, <2>2, <2>4 DEF LoadingInv, SignalBuffered, Entry
  <1>3. CASE ctl \in {"LOADF", "LOADI"} /\ ~loadExternalDone
    <2>1. ctl' = ctl /\ inBuf' = inBuf
      BY <1>1, <1>3, CtlNext, RamNext DEF AccelRdInv, IdleLoadStates
    <2>2. inFullInt /\ inFullInt' = inFull
      BY <1>1, <1>3, InNext DEF LoadingInv
    <2>3. CASE loadRamCounter = DEPTH - 1
      BY <1>1, <1>3, <2>1, <2>3, LoadCounterNext DEF LoadingInv
    <2>4. CASE loadRamCounter # DEPTH - 1
      <3>1. loadRamCounter' = loadRamCounter + 1 /\ inFull
        BY <1>1, <1>3, <2>4, LoadCounterNext DEF loadExternal, LoadingInv
      <3>2. inFull' \/ inOutIndex = DEPTH - 1
        BY <1>1, <1>3, <3>1, InNext DEF AccelRdInv, IdleLoadStates
      <3>3. inOutIndex = DEPTH - 1 => loadRamCounter = DEPTH - 2
        BY <1>1, <1>3, <2>4, <3>1, Sizes DEF InFullInv, IdleLoadStates
      <3>4. inFull' \/ loadRamCounter' = DEPTH - 1
        BY <3>1, <3>2, <3>3, Sizes
      <3> QED
        BY <1>1, <1>3, <2>1, <2>2, <3>1, <3>4 DEF LoadingInv
    <2> QED
      BY <2>3, <2>4
  <1>4. CASE ~(ctl \in IdleLoadStates /\ inFull) /\ ~(ctl \in {"LOADF", "LOADI"} /\ ~loadExternalDone)
    <2>1. ctl' \notin {"LOADF", "LOADI"}
      BY <1>1, <1>4, CtlNext DEF CtlStates, IdleLoadStates, CalcStates
    <2> QED
      BY <2>1 DEF LoadingInv
  <1> QED
    BY <1>2, <1>3, <1>4

(* A cycle of a load takes the next entry to the next slot.                *)
LEMMA LoadMoves ==
  ASSUME IInv, LoadingInv, NEW tx_done, NEW rd_valid, Clock(tx_done, rd_valid),
         ctl \in {"LOADF", "LOADI"}, ~loadExternalDone
  PROVE  /\ ctl' = ctl /\ inOutIndex \in Slots /\ loadRamCounter \in Slots
         /\ inOutIndex' = IF inOutIndex = DEPTH - 1 THEN 0 ELSE inOutIndex + 1
         /\ IF loadRamCounter = DEPTH - 1 THEN loadExternalDone' /\ loadRamCounter' = 0
            ELSE ~loadExternalDone' /\ loadRamCounter' = loadRamCounter + 1
         /\ ram' = [ram EXCEPT ![loadRamCounter] = Entry(inOutIndex)]
  <1>1. /\ TypeOK /\ inOutIndex \in Slots /\ loadRamCounter \in Slots
        /\ inFullInt /\ inBuf[inOutIndex] = Entry(inOutIndex)
    BY DEF IInv, CacheInv, TypeOK, FftTypeOK, LoadingInv
  <1>2. ctl' = ctl
    BY <1>1, CtlNext
  <1>3. inOutIndex' = IF inOutIndex = DEPTH - 1 THEN 0 ELSE inOutIndex + 1
    BY <1>1, InNext
  <1>4. IF loadRamCounter = DEPTH - 1 THEN loadExternalDone' /\ loadRamCounter' = 0
        ELSE ~loadExternalDone' /\ loadRamCounter' = loadRamCounter + 1
    BY <1>1, LoadCounterNext DEF loadExternal
  <1>5. ram' = [ram EXCEPT ![loadRamCounter] = Entry(inOutIndex)]
    BY <1>1, RamNext
  <1> QED
    BY <1>1, <1>2, <1>3, <1>4, <1>5

(* Where the load ends the entries are in slots by the rotation the index  *)
(* is at.                                                                  *)
LEMMA LoadEnds ==
  ASSUME IInv, LoadingInv, RotationInv, NEW tx_done, NEW rd_valid, Clock(tx_done, rd_valid),
         ctl \in {"LOADF", "LOADI"}, loadExternalDone
  PROVE  /\ inOutIndex \in Slots
         /\ \A k \in Slots : ram'[k].src = (k + inOutIndex) % DEPTH /\ ram'[k].bf = 0
  <1>1. /\ TypeOK /\ inOutIndex \in Slots /\ loadRamCounter = 0 /\ 0 \in Slots
        /\ inBuf[inOutIndex] = Entry(inOutIndex) /\ ram \in [Slots -> Cell]
    BY Sizes DEF IInv, CacheInv, AccelInv, LoadCounterInv, TypeOK, FftTypeOK, LoadingInv, Slots
  <1>2. ram' = [ram EXCEPT ![0] = Entry(inOutIndex)]
    BY <1>1, RamNext
  <1>3. ASSUME NEW k \in Slots PROVE ram'[k] = Entry((k + inOutIndex) % DEPTH)
    <2>1. CASE k = 0
      <3>1. (k + inOutIndex) % DEPTH = inOutIndex
        BY <1>1, <2>1, Small DEF Slots
      <3> QED
        BY <1>1, <1>2, <2>1, <3>1
    <2>2. CASE k # 0
      <3>1. k \in Loaded /\ k + inOutIndex \in Nat
        BY <1>1, <2>2 DEF Loaded, Slots
      <3>2. ram[k] = Entry((k + inOutIndex + DEPTH - loadRamCounter) % DEPTH)
        BY <3>1 DEF RotationInv
      <3>3. k + inOutIndex + DEPTH - loadRamCounter = (k + inOutIndex) + DEPTH
        BY <1>1, <3>1, Sizes
      <3>4. ((k + inOutIndex) + DEPTH) % DEPTH = (k + inOutIndex) % DEPTH
        BY <3>1, Wraps
      <3> QED
        BY <1>1, <1>2, <2>2, <3>2, <3>3, <3>4
    <2> QED
      BY <2>1, <2>2
  <1>4. \A k \in Slots : ram'[k].src = (k + inOutIndex) % DEPTH /\ ram'[k].bf = 0
    <2>1. \A x : Entry(x).src = x /\ Entry(x).bf = 0
      BY DEF Entry
    <2> QED
      BY <1>3, <2>1
  <1> QED
    BY <1>1, <1>4

(* Buffer and counter move together: the rotation between them stays.      *)
LEMMA SameRotation ==
  ASSUME NEW i \in Slots, NEW c \in Slots, NEW k \in Slots, NEW in, NEW cn,
         in = IF i = DEPTH - 1 THEN 0 ELSE i + 1,
         cn = IF c = DEPTH - 1 THEN 0 ELSE c + 1
  PROVE  (k + in + DEPTH - cn) % DEPTH = (k + i + DEPTH - c) % DEPTH
  <1>1. /\ DEPTH \in Nat /\ i \in 0 .. DEPTH - 1 /\ c \in 0 .. DEPTH - 1 /\ k \in 0 .. DEPTH - 1
        /\ DEPTH > 3
    BY Sizes DEF Slots
  <1> DEFINE x == k + i + DEPTH - c
             y == k + in + DEPTH - cn
  <1>2. x \in Nat /\ y \in Nat
    BY <1>1
  <1>3. y = x \/ y = x + DEPTH \/ x = y + DEPTH
    BY <1>1
  <1> HIDE DEF x, y
  <1>4. y % DEPTH = x % DEPTH
    BY <1>2, <1>3, Wraps
  <1> QED
    BY <1>4 DEF x, y

LEMMA SourcesKept ==
  ASSUME TypeOK, NEW tx_done, NEW rd_valid, Clock(tx_done, rd_valid), ctl \in CalcStates
  PROVE  /\ \A k \in Slots : ram'[k].src = ram[k].src
         /\ \A k \in Slots : ram'[k].bf =
              IF ~doneCalculating /\ k \in BflySlots THEN ram[k].bf + 1 ELSE ram[k].bf
  <1>1. ram' = IF ~doneCalculating
                 THEN [k \in Slots |-> IF k \in BflySlots THEN Butterflied(ram[k]) ELSE ram[k]]
                 ELSE ram
    BY RamNext
  <1>2. \A k \in Slots : ram[k] \in Cell
    BY DEF TypeOK, FftTypeOK
  <1>3. \A c \in Cell : Butterflied(c).src = c.src /\ Butterflied(c).bf = c.bf + 1
    BY DEF Cell, Butterflied
  <1> HIDE DEF BflySlots
  <1> QED
    BY <1>1, <1>2, <1>3

LEMMA RotationStep ==
  ASSUME IInv, LoadingInv, RotationInv, NEW tx_done, NEW rd_valid, Clock(tx_done, rd_valid)
  PROVE  RotationInv'
  <1>1. /\ TypeOK /\ LoadCounterInv /\ ctl \in CtlStates /\ ram \in [Slots -> Cell]
    BY DEF IInv, CacheInv, AccelInv, TypeOK, FftTypeOK
  <1>2. CASE ctl \in IdleLoadStates /\ inFull
    <2>1. loadRamCounter = 0 /\ ~loadExternalDone /\ DEPTH - 1 # 0
      BY <1>1, <1>2, Sizes DEF LoadCounterInv, IdleLoadStates
    <2>2. ~loadExternalDone' /\ loadRamCounter' \in {0, 1}
      BY <1>1, <2>1, LoadCounterNext
    <2>3. Loaded' = {}
      <3>1. Loaded' = 1 .. loadRamCounter' - 1
        BY <2>2 DEF Loaded
      <3>2. \A n \in {0, 1} : 1 .. n - 1 = {}
        OBVIOUS
      <3> QED
        BY <2>2, <3>1, <3>2
    <2>4. ctl' \notin CalcStates
      BY <1>1, <1>2, CtlNext DEF IdleLoadStates, CalcStates
    <2> QED
      BY <2>3, <2>4 DEF RotationInv
  <1>3. CASE ctl \in {"LOADF", "LOADI"} /\ ~loadExternalDone
    <2>1. /\ ctl' = ctl /\ inOutIndex \in Slots /\ loadRamCounter \in Slots
          /\ inOutIndex' = IF inOutIndex = DEPTH - 1 THEN 0 ELSE inOutIndex + 1
          /\ loadRamCounter' = IF loadRamCounter = DEPTH - 1 THEN 0 ELSE loadRamCounter + 1
          /\ loadExternalDone' <=> loadRamCounter = DEPTH - 1
          /\ ram' = [ram EXCEPT ![loadRamCounter] = Entry(inOutIndex)]
      BY <1>1, <1>3, LoadMoves
    <2>2. ASSUME NEW k \in Loaded'
          PROVE  ram'[k] = Entry((k + inOutIndex' + DEPTH - loadRamCounter') % DEPTH)
      <3>0. k \in 1 .. loadRamCounter
        BY <2>1, Sizes DEF Loaded, Slots
      <3>1. k \in Slots /\ (k # loadRamCounter => k \in Loaded)
        BY <1>3, <2>1, <3>0, Sizes DEF Loaded, Slots
      <3>2. (k + inOutIndex' + DEPTH - loadRamCounter') % DEPTH
              = (k + inOutIndex + DEPTH - loadRamCounter) % DEPTH
        BY <2>1, <3>1, SameRotation
      <3>3. CASE k = loadRamCounter
        <4>1. k + inOutIndex + DEPTH - loadRamCounter = inOutIndex + DEPTH
          BY <2>1, <3>3, Sizes DEF Slots
        <4>2. (inOutIndex + DEPTH) % DEPTH = inOutIndex
          BY <2>1, Small
        <4> QED
          BY <1>1, <2>1, <3>2, <3>3, <4>1, <4>2
      <3>4. CASE k # loadRamCounter
        <4>1. ram'[k] = ram[k]
          BY <1>1, <2>1, <3>1, <3>4
        <4> QED
          BY <1>3, <3>1, <3>2, <3>4, <4>1 DEF RotationInv
      <3> QED
        BY <3>1, <3>3, <3>4
    <2> QED
      BY <1>3, <2>1, <2>2 DEF RotationInv, CalcStates
  <1>4. CASE ctl \in {"LOADF", "LOADI"} /\ loadExternalDone
    <2>1. ctl' \in CalcStates
      BY <1>1, <1>4, CtlNext DEF CalcStates
    <2>2. inOutIndex \in Slots /\ \A k \in Slots : ram'[k].src = (k + inOutIndex) % DEPTH
      BY <1>4, LoadEnds
    <2>3. \E by \in Slots : Rotated(by)'
      BY <2>2 DEF Rotated
    <2> QED
      BY <2>1, <2>3 DEF RotationInv, CalcStates
  <1>5. CASE ctl \in CalcStates
    <2>1. \A k \in Slots : ram'[k].src = ram[k].src
      BY <1>1, <1>5, SourcesKept
    <2>2. \A by \in Slots : Rotated(by) => Rotated(by)'
      BY <2>1 DEF Rotated
    <2>3. ctl' \notin {"LOADF", "LOADI"}
      BY <1>1, <1>5, CtlNext DEF CalcStates
    <2> QED
      BY <1>5, <2>2, <2>3 DEF RotationInv
  <1>6. CASE /\ ~(ctl \in IdleLoadStates /\ inFull) /\ ctl \notin {"LOADF", "LOADI"}
             /\ ctl \notin CalcStates
    <2>1. ctl' \notin {"LOADF", "LOADI"} /\ ctl' \notin CalcStates
      BY <1>1, <1>6, CtlNext DEF CtlStates, IdleLoadStates, CalcStates
    <2> QED
      BY <2>1 DEF RotationInv
  <1> QED
    BY <1>2, <1>3, <1>4, <1>5, <1>6

LEMMA FirstStep ==
  ASSUME IInv, LoadingInv, RotationInv, FirstInv,
         NEW tx_done, NEW rd_valid, Clock(tx_done, rd_valid)
  PROVE  FirstInv'
  <1>1. /\ TypeOK /\ LoadCounterInv /\ InFullInv /\ ctl \in CtlStates
        /\ starts \in 0 .. 2 /\ inFullInt \in BOOLEAN
    BY DEF IInv, CacheInv, AccelInv, TypeOK, FftTypeOK
  <1>2. startPulse => ctl = "IDLE"
    BY DEF startPulse, startF, startI, calculating
  <1>3. starts' = IF startPulse /\ starts < 2 THEN starts + 1 ELSE starts
    BY DEF Clock, CountStarts
  <1>4. ctl \in {"IDLE", "IDLE_LOADF"} => inOutIndex' = inOutIndex
    BY <1>1, InNext DEF InFullInv
  <1>5. starts' = 0 => ctl' = "IDLE" /\ inOutIndex' = 0
    <2>1. starts' = 0 => starts = 0 /\ ~startPulse
      BY <1>1, <1>3
    <2> QED
      BY <1>1, <1>4, <2>1, CtlNext DEF FirstInv
  <1>6. starts' = 1 /\ ctl' = "IDLE_LOADF" => inOutIndex' = 0
    <2>1. ctl' = "IDLE_LOADF" => ctl \in {"IDLE", "IDLE_LOADF"} /\ (ctl = "IDLE" => startPulse)
      BY <1>1, CtlNext DEF CtlStates, IdleLoadStates, CalcStates
    <2>2. starts' = 1 /\ ctl' = "IDLE_LOADF" => starts = 0 \/ (starts = 1 /\ ctl = "IDLE_LOADF")
      BY <1>1, <1>2, <1>3, <2>1
    <2> QED
      BY <1>4, <2>1, <2>2 DEF FirstInv
  <1>7. starts' = 1 /\ ctl' = "LOADF" =>
          inOutIndex' = IF loadExternalDone' THEN 0 ELSE loadRamCounter'
    <2>1. SUFFICES ASSUME starts' = 1, ctl' = "LOADF"
                   PROVE  inOutIndex' = IF loadExternalDone' THEN 0 ELSE loadRamCounter'
      OBVIOUS
    <2>2. ctl = "IDLE_LOADF" \/ (ctl = "LOADF" /\ ~loadExternalDone)
      BY <1>1, <2>1, CtlNext DEF CtlStates, IdleLoadStates, CalcStates
    <2>3. starts = 1
      BY <1>1, <1>2, <1>3, <2>1, <2>2
    <2>4. CASE ctl = "IDLE_LOADF"
      <3>1. loadRamCounter = 0 /\ ~loadExternalDone /\ DEPTH - 1 # 0
        BY <1>1, <2>4, Sizes DEF LoadCounterInv
      <3>2. ~loadExternalDone' /\ loadRamCounter' = 0
        BY <1>1, <2>4, <3>1, LoadCounterNext DEF loadExternal
      <3> QED
        BY <1>4, <2>3, <2>4, <3>2 DEF FirstInv
    <2>5. CASE ctl = "LOADF" /\ ~loadExternalDone
      BY <2>3, <2>5, LoadMoves DEF FirstInv
    <2> QED
      BY <2>2, <2>4, <2>5
  <1>8. starts' = 1 /\ ctl' = "CALCULATINGF" => Rotated(0)'
    <2>1. SUFFICES ASSUME starts' = 1, ctl' = "CALCULATINGF" PROVE Rotated(0)'
      OBVIOUS
    <2>2. ctl = "CALCULATINGF" \/ (ctl = "LOADF" /\ loadExternalDone)
      BY <1>1, <2>1, CtlNext DEF CtlStates, IdleLoadStates, CalcStates
    <2>3. starts = 1
      BY <1>1, <1>2, <1>3, <2>1, <2>2
    <2>4. CASE ctl = "CALCULATINGF"
      <3>1. \A k \in Slots : ram'[k].src = ram[k].src
        BY <1>1, <2>4, SourcesKept DEF CalcStates
      <3> QED
        BY <2>3, <2>4, <3>1 DEF FirstInv, Rotated
    <2>5. CASE ctl = "LOADF" /\ loadExternalDone
      <3>1. \A k \in Slots : ram'[k].src = (k + inOutIndex) % DEPTH
        BY <2>5, LoadEnds
      <3>2. inOutIndex = 0
        BY <2>3, <2>5 DEF FirstInv
      <3> QED
        BY <3>1, <3>2 DEF Rotated
    <2> QED
      BY <2>2, <2>4, <2>5
  <1> QED
    BY <1>5, <1>6, <1>7, <1>8 DEF FirstInv

-----------------------------------------------------------------------------
(* The butterflies *)

(* The counters of fft_accel.sv in the three phases of a calculation, and  *)
(* outside it.                                                             *)
LEMMA CounterNext ==
  ASSUME TypeOK, CountersInv, NEW tx_done, NEW rd_valid, Clock(tx_done, rd_valid)
  PROVE  /\ ctl \in CalcStates /\ ~doneCalculating /\ stageCount = LOGN =>
              ctl' = ctl /\ doneCalculating' /\ stageCount' = 0 /\ cycleCount' = 1
         /\ ctl \in CalcStates /\ ~doneCalculating /\ stageCount # LOGN =>
              /\ ctl' = ctl /\ ~doneCalculating'
              /\ IF cycleCount = HALF - 1 THEN cycleCount' = 0 /\ stageCount' = stageCount + 1
                 ELSE cycleCount' = cycleCount + 1 /\ stageCount' = stageCount
         /\ ctl \in CalcStates /\ doneCalculating =>
              ctl' = "LOADOUT" /\ ~doneCalculating' /\ stageCount' = 0 /\ cycleCount' \in {0, 1}
         /\ ctl \notin CalcStates =>
              ~doneCalculating' /\ stageCount' = 0 /\ cycleCount' \in {0, 1}
  <1>1. /\ cycleCount \in 0 .. HALF - 1 /\ stageCount \in 0 .. LOGN /\ doneCalculating \in BOOLEAN
        /\ ctl \in CtlStates
    BY DEF TypeOK, FftTypeOK
  <1>2. /\ CtlStep(startF(calculating), startI(calculating), transformComplete)
        /\ CycleCounter /\ StageCounter
    BY DEF Clock, FftStep
  <1>3. ctl \in CalcStates => ctl' = IF doneCalculating THEN "LOADOUT" ELSE ctl
    BY <1>2 DEF CtlStep, CtlIdle, AwaitSignal, LoadRam, Calculate, LoadOut, CtlDone,
                CtlGoto, CalcStates
  <1>4. loadInternal <=> ctl \in CalcStates /\ ~doneCalculating
    BY DEF loadInternal
  <1>5. CASE ctl \in CalcStates /\ ~doneCalculating /\ stageCount = LOGN
    <2>1. cycleCount = 0 /\ HALF - 1 # 0
      BY <1>5, Sizes DEF CountersInv
    <2>2. cycleCount' = 1
      BY <1>2, <1>4, <1>5, <2>1 DEF CycleCounter
    <2> QED
      BY <1>2, <1>3, <1>5, <2>2 DEF StageCounter
  <1>6. CASE ctl \in CalcStates /\ ~doneCalculating /\ stageCount # LOGN
    <2>1. IF cycleCount = HALF - 1 THEN cycleCount' = 0 ELSE cycleCount' = cycleCount + 1
      BY <1>2, <1>4, <1>6 DEF CycleCounter
    <2>2. /\ ~doneCalculating'
          /\ stageCount' = IF cycleCount = HALF - 1 THEN stageCount + 1 ELSE stageCount
      BY <1>1, <1>2, <1>4, <1>6 DEF StageCounter
    <2> QED
      BY <1>3, <1>6, <2>1, <2>2
  <1>7. CASE ctl \in CalcStates /\ doneCalculating
    <2>1. stageCount = 0 /\ cycleCount = 1
      BY <1>7 DEF CountersInv
    <2>2. cycleCount' \in {0, 1}
      BY <1>2, <1>4, <1>7, <2>1 DEF CycleCounter
    <2> QED
      BY <1>2, <1>3, <1>7, <2>1, <2>2 DEF StageCounter
  <1>8. CASE ctl \notin CalcStates
    <2>1. stageCount = 0 /\ ~doneCalculating /\ cycleCount \in {0, 1} /\ LOGN # 0
      BY <1>8, Sizes DEF CountersInv
    <2>2. cycleCount' \in {0, 1}
      BY <1>2, <1>4, <1>8, <2>1 DEF CycleCounter
    <2>3. stageCount' = 0 /\ doneCalculating' = doneCalculating
      BY <1>2, <1>4, <1>8, <2>1 DEF StageCounter
    <2> QED
      BY <1>8, <2>1, <2>2, <2>3
  <1> QED
    BY <1>5, <1>6, <1>7, <1>8

LEMMA CountersStep ==
  ASSUME TypeOK, CountersInv, NEW tx_done, NEW rd_valid, Clock(tx_done, rd_valid)
  PROVE  CountersInv'
  <1>1. cycleCount \in 0 .. HALF - 1 /\ stageCount \in 0 .. LOGN
    BY DEF TypeOK, FftTypeOK
  <1>2. LOGN # 0 /\ "LOADOUT" \notin CalcStates
    BY Sizes DEF CalcStates
  <1>3. CASE ctl \in CalcStates /\ ~doneCalculating /\ stageCount = LOGN
    BY <1>2, <1>3, CounterNext DEF CountersInv
  <1>4. CASE ctl \in CalcStates /\ ~doneCalculating /\ stageCount # LOGN
    BY <1>1, <1>4, CounterNext DEF CountersInv
  <1>5. CASE ctl \in CalcStates /\ doneCalculating
    BY <1>2, <1>5, CounterNext DEF CountersInv
  <1>6. CASE ctl \notin CalcStates
    BY <1>2, <1>6, CounterNext DEF CountersInv
  <1> QED
    BY <1>3, <1>4, <1>5, <1>6

(* The butterfly of cycle 0 of stage 0 works on slots 0 and HALF, the one  *)
(* after the last stage on slot 0 twice.                                   *)
LEMMA FirstButterfly ==
  ASSUME NEW k \in Slots, k # 0, k # HALF
  PROVE  CycleOf(0, k) \in Nat \ {0}
  <1>1. 0 \in 0 .. LOGN - 1 /\ 0 \in 0 .. HALF - 1
    BY Sizes
  <1>2. LOGN - 1 - 0 = LOGN - 1
    BY Sizes
  <1>3. HALF = 2 ^ (LOGN - 1 - 0)
    BY <1>2 DEF HALF
  <1>4. /\ IndexA(0, 0) = (0 \div HALF) * (2 * HALF) + (0 % HALF)
        /\ IndexB(0, 0) = (0 \div HALF) * (2 * HALF) + (0 % HALF) + HALF
    BY <1>1, <1>3, Indices
  <1>5. 0 \div HALF = 0 /\ 0 % HALF = 0
    BY Sizes
  <1>6. IndexA(0, 0) = 0 /\ IndexB(0, 0) = HALF
    BY <1>4, <1>5, Sizes
  <1>7. 0 # CycleOf(0, k) /\ CycleOf(0, k) \in 0 .. HALF - 1
    BY <1>1, <1>6, OnePerStage
  <1> QED
    BY <1>7, Sizes

LEMMA LastButterfly ==
  ASSUME NEW c PROVE IndexA(LOGN, c) = 0 /\ IndexB(LOGN, c) = 0
  <1>1. IndexA(LOGN, c) = 0
    BY Sizes DEF IndexA
  <1>2. HALF \div (2 ^ LOGN) = 0
    <2>1. 2 ^ LOGN = DEPTH /\ DEPTH \in Nat \ {0} /\ HALF \in 0 .. DEPTH - 1 /\ 0 * DEPTH + HALF = HALF
      BY FftAssumption, Sizes
    <2>2. (0 * DEPTH + HALF) \div DEPTH = 0
      BY <2>1, Divided
    <2> QED
      BY <2>1, <2>2
  <1>3. IndexB(LOGN, c) = (0 + 0) % (2 * HALF)
    BY <1>1, <1>2 DEF IndexB
  <1>4. (0 + 0) % (2 * HALF) = 0
    BY Sizes
  <1> QED
    BY <1>1, <1>3, <1>4

LEMMA ButterflyStep ==
  ASSUME IInv, LoadingInv, RotationInv, CountersInv, ButterflyInv,
         NEW tx_done, NEW rd_valid, Clock(tx_done, rd_valid)
  PROVE  ButterflyInv'
  <1>1. /\ TypeOK /\ cycleCount \in 0 .. HALF - 1 /\ stageCount \in 0 .. LOGN
        /\ ctl \in CtlStates
    BY DEF IInv, CacheInv, TypeOK, FftTypeOK
  <1>2. "LOADOUT" \notin CalcStates /\ LOGN # 0
    BY Sizes DEF CalcStates
  <1>3. CASE ctl \in CalcStates /\ ~doneCalculating /\ stageCount = LOGN
    <2>1. \A k \in Slots \ {0, HALF} : ram'[k].bf = LOGN
      <3>1. BflySlots = {0}
        BY <1>3, LastButterfly DEF BflySlots
      <3> QED
        BY <1>1, <1>3, <3>1, SourcesKept DEF ButterflyInv, Passed
    <2>2. ctl' = ctl /\ doneCalculating'
      BY <1>1, <1>3, CounterNext
    <2> QED
      BY <1>2, <1>3, <2>1, <2>2 DEF ButterflyInv, Passed, OneButterflyPerStage
  <1>4. CASE ctl \in CalcStates /\ ~doneCalculating /\ stageCount # LOGN
    <2>1. /\ ctl' = ctl /\ ~doneCalculating'
          /\ IF cycleCount = HALF - 1 THEN cycleCount' = 0 /\ stageCount' = stageCount + 1
             ELSE cycleCount' = cycleCount + 1 /\ stageCount' = stageCount
      BY <1>1, <1>4, CounterNext
    <2>2. stageCount \in 0 .. LOGN - 1
      BY <1>1, <1>4, Sizes
    <2>3. ASSUME NEW k \in Slots \ {0, HALF} PROVE ram'[k].bf = Passed(k)'
      <3>1. CycleOf(stageCount, k) \in 0 .. HALF - 1
        BY <1>1, <2>2, OnePerStage
      <3>2. k \in BflySlots <=> cycleCount = CycleOf(stageCount, k)
        BY <1>1, <2>2, OnePerStage DEF BflySlots
      <3>3. ram[k].bf = IF CycleOf(stageCount, k) < cycleCount THEN stageCount + 1 ELSE stageCount
        BY <1>4 DEF ButterflyInv, Passed
      <3>4. ram'[k].bf = IF CycleOf(stageCount, k) <= cycleCount THEN stageCount + 1 ELSE stageCount
        BY <1>1, <1>4, <3>1, <3>2, <3>3, SourcesKept, Sizes
      <3>5. CASE cycleCount = HALF - 1
        <4>1. ram'[k].bf = stageCount + 1
          BY <1>1, <3>1, <3>4, <3>5, Sizes
        <4>2. cycleCount' = 0 /\ stageCount' = stageCount + 1
          BY <2>1, <3>5
        <4>3. CASE stageCount' = LOGN
          BY <4>1, <4>2, <4>3 DEF Passed
        <4>4. CASE stageCount' # LOGN
          <5>1. stageCount' \in 0 .. LOGN - 1 /\ 0 \in 0 .. HALF - 1
            BY <2>2, <4>2, <4>4, Sizes
          <5>2. CycleOf(stageCount', k) \in 0 .. HALF - 1
            BY <5>1, OnePerStage
          <5>3. ~(CycleOf(stageCount', k) < cycleCount')
            BY <4>2, <5>2, Sizes
          <5>4. Passed(k)' = stageCount'
            BY <2>1, <4>4, <5>3 DEF Passed, CycleOf
          <5> QED
            BY <4>1, <4>2, <5>4
        <4> QED
          BY <4>3, <4>4
      <3>6. CASE cycleCount # HALF - 1
        <4>1. cycleCount' = cycleCount + 1 /\ stageCount' = stageCount
          BY <2>1, <3>6
        <4>2. CycleOf(stageCount', k) < cycleCount' <=> CycleOf(stageCount, k) <= cycleCount
          BY <1>1, <3>1, <4>1, Sizes
        <4>3. Passed(k)' = IF CycleOf(stageCount', k) < cycleCount' THEN stageCount' + 1
                           ELSE stageCount'
          BY <1>4, <2>1, <4>1 DEF Passed, CycleOf
        <4> QED
          BY <3>4, <4>1, <4>2, <4>3
      <3> QED
        BY <3>5, <3>6
    <2> QED
      BY <1>2, <1>4, <2>1, <2>3 DEF ButterflyInv, OneButterflyPerStage
  <1>5. CASE ctl \in CalcStates /\ doneCalculating
    <2>1. \A k \in Slots \ {0, HALF} : ram'[k].bf = LOGN
      BY <1>1, <1>5, SourcesKept DEF ButterflyInv, Passed
    <2>2. ctl' = "LOADOUT"
      BY <1>1, <1>5, CounterNext
    <2> QED
      BY <1>2, <2>1, <2>2 DEF ButterflyInv, OneButterflyPerStage
  <1>6. CASE ctl \in {"LOADF", "LOADI"} /\ loadExternalDone
    <2>1. \A k \in Slots : ram'[k].bf = 0
      BY <1>6, LoadEnds
    <2>2. ~doneCalculating' /\ stageCount' = 0 /\ cycleCount' \in {0, 1}
      BY <1>1, <1>6, CounterNext DEF CalcStates
    <2>3. ASSUME NEW k \in Slots \ {0, HALF} PROVE Passed(k)' = 0
      <3>1. CycleOf(0, k) \in Nat \ {0}
        BY FirstButterfly
      <3>2. ~(CycleOf(0, k) < cycleCount')
        BY <2>2, <3>1
      <3> QED
        BY <1>2, <2>2, <3>2 DEF Passed, CycleOf
    <2>4. ctl' \in CalcStates
      BY <1>1, <1>6, CtlNext DEF CalcStates
    <2> QED
      BY <1>2, <2>1, <2>3, <2>4 DEF ButterflyInv, OneButterflyPerStage
  <1>7. CASE ctl = "LOADOUT"
    <2>1. ram' = ram /\ ctl' \notin CalcStates
      BY <1>1, <1>7, RamNext, CtlNext DEF CalcStates
    <2> QED
      BY <1>7, <2>1 DEF ButterflyInv, OneButterflyPerStage
  <1>8. CASE /\ ctl \notin CalcStates /\ ctl # "LOADOUT"
             /\ ~(ctl \in {"LOADF", "LOADI"} /\ loadExternalDone)
    <2>1. ctl' \notin CalcStates /\ ctl' # "LOADOUT"
      BY <1>1, <1>8, CtlNext DEF CtlStates, IdleLoadStates, CalcStates
    <2> QED
      BY <2>1 DEF ButterflyInv, OneButterflyPerStage
  <1> QED
    BY <1>3, <1>4, <1>5, <1>6, <1>7, <1>8

-----------------------------------------------------------------------------
(* The theorems *)

LEMMA TransformInit == Init => TransformInvariant
  <1> SUFFICES ASSUME Init PROVE TransformInvariant
    OBVIOUS
  <1>1. /\ ctl = "IDLE" /\ starts = 0 /\ inOutIndex = 0 /\ stageCount = 0 /\ cycleCount = 0
        /\ ~doneCalculating
    BY DEF Init, FftInit, ABufInit
  <1>2. LOGN # 0
    BY Sizes
  <1> QED
    BY <1>1, <1>2 DEF TransformInvariant, LoadingInv, RotationInv, FirstInv, CountersInv,
       ButterflyInv, OneButterflyPerStage, CalcStates

LEMMA TransformStutter ==
  ASSUME TransformInvariant, UNCHANGED vars
  PROVE  TransformInvariant'
  <1>1. /\ UNCHANGED <<ctl, inBuf, inFull, inFullInt, inOutIndex, loadRamCounter, ram>>
        /\ UNCHANGED <<loadExternalDone, stageCount, cycleCount, doneCalculating, starts>>
    BY DEF vars, fftVars, counterVars, inVars
  <1>2. \A by : Rotated(by)' <=> Rotated(by)
    BY <1>1 DEF Rotated
  <1>3. \A k : Passed(k)' = Passed(k)
    BY <1>1 DEF Passed, CycleOf
  <1>4. Loaded' = Loaded
    BY <1>1 DEF Loaded
  <1>5. LoadingInv' /\ FirstInv' /\ CountersInv'
    BY <1>1, <1>2 DEF TransformInvariant, LoadingInv, FirstInv, CountersInv
  <1>6. RotationInv'
    BY <1>1, <1>2, <1>4 DEF TransformInvariant, RotationInv
  <1>7. ButterflyInv'
    BY <1>1, <1>3 DEF TransformInvariant, ButterflyInv, OneButterflyPerStage
  <1> QED
    BY <1>5, <1>6, <1>7 DEF TransformInvariant

(* Buffer, RAM and counters stay in the relation of TransformInvariant.    *)
THEOREM TransformHolds ==
  ASSUME RdLatency = {TRUE}
  PROVE  Spec => []TransformInvariant
  <1>1. ASSUME NEW tx_done, NEW rd_valid, Clock(tx_done, rd_valid), IInv, TransformInvariant
        PROVE  TransformInvariant'
    BY <1>1, LoadingStep, RotationStep, FirstStep, CountersStep, ButterflyStep
       DEF TransformInvariant, IInv, CacheInv
  <1>2. ASSUME IInv, TransformInvariant, [Next]_vars PROVE TransformInvariant'
    BY <1>1, <1>2, TransformStutter DEF Next, Tick, Answer
  <1>3. Spec => []IInv
    BY Invariant
  <1> QED
    BY <1>2, <1>3, TransformInit, PTL DEF Spec

(* Whatever the rotation, no entry of the signal is lost and none is there *)
(* twice (a_buf_in.sv:84-104, fft_accel.sv:103-118).                       *)
THEOREM EntriesKept ==
  ASSUME RdLatency = {TRUE}
  PROVE  Spec => []NoEntryLost
  <1>1. TransformInvariant => NoEntryLost
    <2> SUFFICES ASSUME TransformInvariant, ctl \in CalcStates
                 PROVE  {ram[k].src : k \in Slots} = Slots
      BY DEF NoEntryLost
    <2>1. PICK by \in Slots : Rotated(by)
      BY DEF TransformInvariant, RotationInv
    <2>2. ASSUME NEW k \in Slots PROVE ram[k].src \in Slots
      <3>1. k + by \in Nat
        BY DEF Slots
      <3> QED
        BY <2>1, <3>1, Wraps DEF Rotated
    <2>3. ASSUME NEW j \in Slots PROVE \E k \in Slots : ram[k].src = j
      <3>1. /\ j \in 0 .. DEPTH - 1 /\ by \in 0 .. DEPTH - 1 /\ DEPTH \in Nat
        BY Sizes DEF Slots
      <3>2. CASE j >= by
        <4>1. j - by \in Slots /\ (j - by) + by = j
          BY <3>1, <3>2 DEF Slots
        <4>2. ram[j - by].src = j
          BY <2>1, <4>1, Small DEF Rotated
        <4> QED
          BY <4>1, <4>2
      <3>3. CASE j < by
        <4>1. j - by + DEPTH \in Slots /\ (j - by + DEPTH) + by = j + DEPTH
          BY <3>1, <3>3 DEF Slots
        <4>2. ram[j - by + DEPTH].src = j
          BY <2>1, <4>1, Small DEF Rotated
        <4> QED
          BY <4>1, <4>2
      <3> QED
        BY <3>1, <3>2, <3>3
    <2> QED
      BY <2>2, <2>3
  <1> QED
    BY <1>1, TransformHolds, PTL

(* The first forward transform after reset has the signal in order.        *)
THEOREM FirstInOrder ==
  ASSUME RdLatency = {TRUE}
  PROVE  Spec => []FirstTransformInOrder
  <1>1. TransformInvariant => FirstTransformInOrder
    <2> SUFFICES ASSUME TransformInvariant, ctl = "CALCULATINGF", starts = 1, NEW k \in Slots
                 PROVE  ram[k].src = k
      BY DEF FirstTransformInOrder
    <2>1. ram[k].src = (k + 0) % DEPTH
      BY DEF TransformInvariant, FirstInv, Rotated
    <2>2. k + 0 = k
      BY DEF Slots
    <2> QED
      BY <2>1, <2>2, Small
  <1> QED
    BY <1>1, TransformHolds, PTL

(* One butterfly of each stage works on each slot of the result, but for   *)
(* slots 0 and HALF (fft_accel.sv:136-172, address_generator.sv).          *)
THEOREM OneEachStage ==
  ASSUME RdLatency = {TRUE}
  PROVE  Spec => []OneButterflyPerStage
  <1>1. TransformInvariant => OneButterflyPerStage
    BY DEF TransformInvariant, ButterflyInv
  <1> QED
    BY <1>1, TransformHolds, PTL
=============================================================================
