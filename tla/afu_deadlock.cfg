SPECIFICATION FairSpec
CONSTANTS
  WORDS = 2
  Addrs = {0}
  Values = {0}
  SigNums = {0}
  NBLK = 2
  SIG_BASE = 1000
  SIG_STRIDE = 2048
  LineAddrs = {0}
  Lines = {0}
  FILL_CYCLES = 4
  FIFO_DEPTH = 4
PROPERTY
  FetchAnswered
