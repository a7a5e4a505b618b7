\* Two runs of at most five lines: LWDAQ begins the script of both
\* detectors, three lines long, again.
CONSTANTS
  a = a
  b = b
  d1 = d1
  d2 = d2
  Pairs <- MCPairs
  Detectors <- MCDetectors
  DetectorOf <- MCDetectorOf
  BcamOf <- MCBcamOf
  Separate <- MCSeparate
  NameOf <- MCNameOf
  Configurations <- MCConfigurations
  Accepted <- MCAccepted
  Calibrations <- MCCalibrations
  Selections <- MCSelections
  RemoveMayFail = TRUE
  MaxRuns = 2
  MaxLines = 5
SPECIFICATION Spec
INVARIANTS TypeOK PairsMatch PublishersMatch EmptyOnlyIfCutShort
PROPERTIES FullRunIsSent
\* no further run may be started
CHECK_DEADLOCK FALSE
