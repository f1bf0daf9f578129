SPECIFICATION FairSpec
CONSTANTS
  LineAddrs = {0, 1}
  Lines = {0, 1}
  FILL_CYCLES = 4
  FIFO_DEPTH = 4
INVARIANTS
  WritesLand
  ReadChannelQuiet
  ReadCurrent
PROPERTIES
  RequestEnds
