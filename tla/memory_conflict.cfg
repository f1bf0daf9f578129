SPECIFICATION Spec
CONSTANTS
  WORDS = 2
  Addrs = {0, 2}
  Values = {0, 1}
  SigNums = {0}
  NBLK = 2
  SIG_BASE = 1000
  SIG_STRIDE = 2048
  LINES = 1
  DEPTH = 4
  EPB = 2
  LOGN = 2
  LowAddrs = {}
  SignalAddrs = {}
  Program <- MemoryProgram
  RdLatency = {TRUE}
PROPERTY
  ActsAsMemory
