\* Buttons and timers at any time, no failures; nothing is selected.
CONSTANTS
  d1 = d1
  d2 = d2
  noFile = noFile
  NoScript <- MCNoScript
  Detectors <- NoDetector
  NumSteps = 2
  Gui = FALSE
  StepErrors = FALSE
  RemoveMayFail = FALSE
  OtherErrors = FALSE
  Fresh = FALSE
  Prompt = FALSE
  MaxPresses = 3
  MaxFaults = 0
  MaxEvents = 3
  MaxPending = 3
SPECIFICATION MCSpec
INVARIANTS SocketNameInRange
CHECK_DEADLOCK FALSE
