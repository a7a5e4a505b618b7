\* One button, one failure, every error, LWDAQ with its window.
CONSTANTS
  d1 = d1
  d2 = d2
  noFile = noFile
  NoScript <- MCNoScript
  Detectors <- OneDetector
  NumSteps = 2
  Gui = TRUE
  StepErrors = TRUE
  RemoveMayFail = TRUE
  OtherErrors = TRUE
  Fresh = FALSE
  Prompt = TRUE
  MaxPresses = 1
  MaxFaults = 1
  MaxEvents = 2
  MaxPending = 2
SPECIFICATION MCSpec
PROPERTIES ClientConforms ServerConforms LwdaqConforms CalculatedAtRest
CHECK_DEADLOCK FALSE
