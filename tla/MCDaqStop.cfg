\* Monitoring started and stopped in the GUI.
CONSTANTS
  d1 = d1
  d2 = d2
  noFile = noFile
  NoScript <- MCNoScript
  Detectors <- OneDetector
  NumSteps = 2
  Gui = FALSE
  StepErrors = FALSE
  RemoveMayFail = FALSE
  OtherErrors = FALSE
  Fresh = TRUE
  Prompt = TRUE
  MaxPresses = 2
  MaxFaults = 0
  MaxEvents = 2
  MaxPending = 3
SPECIFICATION MCSpec
INVARIANTS StopStops
CHECK_DEADLOCK FALSE
