SPECIFICATION Spec
CONSTANT
  LOGN = 5
INVARIANTS
  PartialTransform
  SpectrumBitReversed
