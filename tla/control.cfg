SPECIFICATION Spec
CONSTANTS
  WORDS = 2
  Addrs = {0, 2, 4}
  Values = {0, 1}
  SigNums = {0, 1}
  NBLK = 2
  SIG_BASE = 1000
  SIG_STRIDE = 2048
  LINES = 1
  DEPTH = 4
  EPB = 2
  LOGN = 2
  LowAddrs = {0}
  SignalAddrs = {4}
  Program <- ControlProgram
  RdLatency = {TRUE}
INVARIANTS
  ServiceMatchesRequest
  VictimOnBus
  IInv
PROPERTIES
  StartNeverLost
  AccessBeforeAdvance
  DirtyNeverDropped
  SigNumHeld
