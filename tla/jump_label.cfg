\* A jump to a label, as subroutine.s writes it.
SPECIFICATION Spec
CONSTANTS
  Cases <- MCCases
  UnsignedMod = 256
  LineMax = 20
  MaxProgram = 12
  Readable = {"a.s"}
  Writable = {"a.bin", "a.hex", "a.mif", "f"}
  StrayDigits = {"4"}
INVARIANT JumpsReachLabels
CHECK_DEADLOCK FALSE
