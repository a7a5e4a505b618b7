\* One failure; LWDAQ need not answer in time.  (No button is needed: the run
\* file may say Monitoring at the start.)
CONSTANTS
  d1 = d1
  d2 = d2
  noFile = noFile
  NoScript <- MCNoScript
  Detectors <- OneDetector
  NumSteps = 2
  Gui = FALSE
  StepErrors = FALSE
  RemoveMayFail = FALSE
  OtherErrors = FALSE
  Fresh = TRUE
  Prompt = FALSE
  MaxPresses = 0
  MaxFaults = 1
  MaxEvents = 1
  MaxPending = 2
SPECIFICATION MCFairSpec
PROPERTIES InitialStatus
CHECK_DEADLOCK FALSE
