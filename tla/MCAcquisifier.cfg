\* One detector, a header step and one acquisition, one line under way.
CONSTANTS
  d1 = d1
  noFile = noFile
  Detectors <- MCDetectors
  NoScript <- MCNoScript
  NumSteps = 2
  Gui = TRUE
  MaxPending = 1
SPECIFICATION MCSpec
INVARIANTS TypeOK OneChain
PROPERTIES IdleIsQuiet StopIsCarriedOut
