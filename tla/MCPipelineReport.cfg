SPECIFICATION Spec
CONSTANTS
  p1 = p1
  p2 = p2
  b1 = b1
  b2 = b2
  p3 = p3
  b3 = b3
  txt = txt
  run = run
  Packages = {p1, p2, p3}
  ImportPaths = {b1, b2, b3}
  Tests <- AllTests
  Commands <- Mixed
  Chunks <- Lines
  Binary <- Binaries
  MaxAttemptsPerCase = 2
  MaxCasesPerSuite = 2
  MaxCaseErrorRunes = 2
  MaxSuitesPerLaunch = 2
  Framing = run
  Symbols = {txt, run, panic, banner, sentinel}
  NL = nl
  Panic = panic
  Banner = banner
  Sentinel = sentinel
  NoPackage = noPackage
  NoBinary = noBinary
INVARIANTS
  FailuresReported
  NeverGreener
  NothingInvented
  CasesMirrorExecutions
  FailuresCarryEvidence
CHECK_DEADLOCK FALSE
