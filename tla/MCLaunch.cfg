SPECIFICATION Spec
CONSTANTS
  Numerals <- MCNumerals
  Affirmations <- MCAffirmations
  Situations <- MCSituations
  MaxCalls = 2
  Values = {"0", "1", "none"}
INVARIANTS
  RunIdsAgree
  BranchesTrue
  LazyIsEager
  AllOrNothing
  MetadataArrives
  ReportsLand
PROPERTY
  ReportsKept
CHECK_DEADLOCK FALSE
