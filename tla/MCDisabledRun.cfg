SPECIFICATION Spec
CONSTANTS
  Numerals <- MCNumerals
  Affirmations <- MCAffirmations
  Situations <- MCSituations
  MaxCalls = 2
  Values = {"0", "1"}
INVARIANT VerdictPassedThrough
CHECK_DEADLOCK FALSE
