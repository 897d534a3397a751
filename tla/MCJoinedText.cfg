SPECIFICATION MCSpec
CONSTANTS
  x = x
  old = old
  indent = indent
  run = run
  a1 = a1
  b1 = b1
  a2 = a2
  b2 = b2
  a3 = a3
  b3 = b3
  c1 = c1
  c2 = c2
  c3 = c3
  Mark = mark
  Magic = magic
  Version = one
  Numerals <- MCNumerals
  Body <- MCBody
  Sum <- MCSum
  Messages <- MCMessages
  Blanks = {indent}
  Framing = {run}
  Keys = {k1, k2}
  Symbols = {x, old, indent, run, a1, b1, a2, b2, a3, b3, c1, c2, c3, mark, magic, one}
  NL = nl
  Chunks <- MCChunks
  MaxFed = 60
  MaxFeeds = 4
INVARIANTS
  TypeOK
  Reassembled
  MessagesRead
  TextKept
CHECK_DEADLOCK FALSE
