\* One run of LWDAQ without a window; nothing fails.
CONSTANTS
  d1 = d1
  d2 = d2
  noFile = noFile
  NoScript <- MCNoScript
  Detectors <- OneDetector
  NumSteps = 2
  Gui = FALSE
  StepErrors = FALSE
  RemoveMayFail = FALSE
  OtherErrors = FALSE
  Fresh = TRUE
  Prompt = TRUE
  MaxPresses = 1
  MaxFaults = 0
  MaxEvents = 1
  MaxPending = 3
SPECIFICATION MCSpec
PROPERTIES OutputIsRedirected
CHECK_DEADLOCK FALSE
