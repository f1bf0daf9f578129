SPECIFICATION FairSpec
CONSTANTS
  WORDS = 2
  Addrs = {2, 4}
  Values = {0}
  SigNums = {0}
  NBLK = 2
  SIG_BASE = 1000
  SIG_STRIDE = 2048
  LINES = 1
  DEPTH = 4
  EPB = 2
  LOGN = 2
  LowAddrs = {}
  SignalAddrs = {4}
  Program <- ProgressProgram
  RdLatency = {TRUE}
PROPERTIES
  FetchServed
  AccessServed
  TransformEnds
