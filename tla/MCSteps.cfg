SPECIFICATION Spec
CONSTANTS
  a = a
  b = b
  Names = {n1, n2}
  Values = {a, b}
  MaxStepsPerTestAttempt = 2
  MaxFrames = 4
  MaxParametersPerStep = 1
  MaxLabelsPerCase = 1
  MaxLinksPerCase = 1
  MaxTagsPerCase = 1
  MaxAttachmentsPerCase = 1
  CaseMessages <- Messages
  MaxMessages = 3
  MaxCalls = 4
  Droppable = {"attachment"}
INVARIANTS
  TypeOK
  Lockstep
  StepsFaithful
  OutcomesTrue
  DropsReported
  ParametersBelong
  FieldsFaithful
PROPERTIES
  ClosedStepsKept
CHECK_DEADLOCK FALSE
