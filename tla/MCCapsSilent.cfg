SPECIFICATION Spec
CONSTANTS
  a = a
  b = b
  Names = {n1, n2}
  Values = {a, b}
  MaxStepsPerTestAttempt = 2
  MaxFrames = 1
  MaxParametersPerStep = 1
  MaxLabelsPerCase = 1
  MaxLinksPerCase = 1
  MaxTagsPerCase = 1
  MaxAttachmentsPerCase = 1
  CaseMessages <- Labels
  MaxMessages = 2
  MaxCalls = 3
  Droppable = {}
INVARIANTS
  DropsNeverSilent
CHECK_DEADLOCK FALSE
