\* A result file that ends early, and one more run; the setup files have
\* one entry of each kind for each pair, and do not change.
CONSTANTS
  a = a
  b = b
  d1 = d1
  d2 = d2
  Pairs <- MCPairs
  Detectors <- MCDetectors
  DetectorOf <- MCDetectorOf
  BcamOf <- MCBcamOf
  Separate <- MCSeparate
  NameOf <- MCNameOf
  Configurations <- OneConfiguration
  Accepted <- OneConfiguration
  Calibrations <- OneCalibration
  Selections <- MCSelections
  RemoveMayFail = FALSE
  MaxRuns = 2
  MaxLines = 5
SPECIFICATION Spec
PROPERTY AllPointsVisited
\* no further run may be started
CHECK_DEADLOCK FALSE
