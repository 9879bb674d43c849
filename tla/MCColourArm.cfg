CONSTANTS
  Echoes <- AllEchoes
  Samples <- AllSamples
  Word = 41000
  MaxReadings = 4
SPECIFICATION Spec
INVARIANTS
  ComesBack
  Clearance
  ReportsMean
  GreenIsContrast
\* The arm rests after MaxReadings.
CHECK_DEADLOCK FALSE
