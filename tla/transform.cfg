SPECIFICATION Spec
CONSTANTS
  WORDS = 2
  Addrs = {2}
  Values = {0}
  SigNums = {0}
  NBLK = 4
  SIG_BASE = 1000
  SIG_STRIDE = 2048
  LINES = 1
  DEPTH = 16
  EPB = 4
  LOGN = 4
  LowAddrs = {}
  SignalAddrs = {}
  Program <- TransformProgram
  RdLatency = {TRUE}
INVARIANTS
  OffsetsInStep
  NoFillWhileEmptying
  SignalBuffered
  WriteBackInOrder
  NoEntryLost
  FirstTransformInOrder
  OneButterflyPerStage
