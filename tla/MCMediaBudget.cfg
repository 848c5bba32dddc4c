SPECIFICATION Spec
CONSTANTS
  c1 = c1
  c2 = c2
  c3 = c3
  k1 = k1
  Calls <- MCCalls
  Workers = {w1, w2}
  Estimate <- MCEstimate
  Actuals = {0, 2, 4}
  Cap = 6
  Videos <- MCVideos
  Seconds <- MCSeconds
  VeoMaxCalls = 2
  VeoMaxSeconds = 3
  ImportKeys <- MCImportKeys
  ImportAmount <- MCImportAmount
INVARIANTS
  WithinCap
  SubmittedOnce
  SentStaysCharged
PROPERTY FinalIsFinal
