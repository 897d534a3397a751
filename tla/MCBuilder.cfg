SPECIFICATION MCSpec
CONSTANTS
  Packages = {p}
  ImportPaths = {b}
  Symbols = {panic, banner, sentinel}
  NL = nl
  Panic = panic
  Banner = banner
  Sentinel = sentinel
  NoPackage = noPackage
  NoBinary = noBinary
  Tests <- MCTests
  Chunks <- MCChunks
  MaxEvents = 4
INVARIANTS
  BuilderTypeOK
  IndicesAgree
PROPERTIES
  NothingIsLost
  ImplementsLedger
CHECK_DEADLOCK FALSE
