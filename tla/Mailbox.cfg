SPECIFICATION Spec
CONSTANTS
  Inputs <- MCInputs
  Cycles <- MCCycles
  Word = 8
INVARIANTS TypeOK MeasurementsRight NoRunUnasked
CHECK_DEADLOCK FALSE
