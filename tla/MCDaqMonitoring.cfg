\* Three events: buttons, and up to two failures.
CONSTANTS
  d1 = d1
  d2 = d2
  noFile = noFile
  NoScript <- MCNoScript
  Detectors <- OneDetector
  NumSteps = 2
  Gui = FALSE
  StepErrors = FALSE
  RemoveMayFail = FALSE
  OtherErrors = FALSE
  Fresh = TRUE
  Prompt = TRUE
  MaxPresses = 3
  MaxFaults = 2
  MaxEvents = 3
  MaxPending = 3
SPECIFICATION MCFairSpec
INVARIANTS StopIsPolled WaitingIsExclusive
PROPERTIES CalculatedAtRest NotRemovedUnderRun
PROPERTIES NeverStuck RunIsSettled WaitingIsFollowedByRun
CHECK_DEADLOCK FALSE
