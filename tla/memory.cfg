SPECIFICATION Spec
CONSTANTS
  WORDS = 2
  Addrs = {0, 1, 2}
  Values = {0, 1}
  SigNums = {0}
  NBLK = 2
  SIG_BASE = 1000
  SIG_STRIDE = 2048
  LINES = 2
  DEPTH = 4
  EPB = 2
  LOGN = 2
  LowAddrs = {}
  SignalAddrs = {}
  Program <- MixedProgram
  RdLatency = {TRUE}
PROPERTIES
  ActsAsMemory
