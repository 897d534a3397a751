SPECIFICATION Spec
CONSTANTS
  p1 = p1
  p2 = p2
  b1 = b1
  b2 = b2
  p3 = p3
  b3 = b3
  txt = txt
  run = run
  Packages = {p1, p2, p3}
  ImportPaths = {b1, b2, b3}
  Tests <- AllTests
  Commands <- Reruns
  Chunks <- Line
  Binary <- Binaries
  MaxAttemptsPerCase = 50
  MaxCasesPerSuite = 50
  MaxCaseErrorRunes = 65536
  MaxSuitesPerLaunch = 20
  Framing = run
  Symbols = {txt, run, panic, banner, sentinel}
  NL = nl
  Panic = panic
  Banner = banner
  Sentinel = sentinel
  NoPackage = noPackage
  NoBinary = noBinary
INVARIANTS
  ParentFailuresReported
CHECK_DEADLOCK FALSE
