\* The assembler on short sources: buffer of 20 characters, program memory of
\* three instructions.
SPECIFICATION Spec
CONSTANTS
  Cases <- MCCases
  UnsignedMod = 256
  LineMax = 20
  MaxProgram = 12
  Readable = {"a.s"}
  Writable = {"a.bin", "a.hex", "a.mif", "f"}
  StrayDigits = {"4"}
INVARIANTS
  PassesAgree
  SourceKept
  LabelsResolve
  InstructionsRoundTrip
  OutputMatchesProgram
  HexThroughX2b
CHECK_DEADLOCK FALSE
