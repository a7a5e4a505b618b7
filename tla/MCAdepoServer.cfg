\* Two detectors; steps fail, and so does the removal of the result file.
CONSTANTS
  d1 = d1
  d2 = d2
  noFile = noFile
  NoScript <- MCNoScript
  Detectors <- MCDetectors
  StepErrors = TRUE
  RemoveMayFail = TRUE
SPECIFICATION Spec
INVARIANTS TypeOK ShownState
PROPERTIES ResultsPromise
