SPECIFICATION Spec
CONSTANTS
  Open = Open
  Close = Close
  Known = Known
  Unknown = Unknown
  Other = Other
  Blank = Blank
  CR = CR
  NL = NL
  Missing = Missing
  BufferSize = 3
  MaxLineBytes = 5
  MaxPreambleBytes = 4
  Pipes <- ThreeLines
  Recordings <- TwoFiles
INVARIANTS
  TypeOK
  EventsDelivered
  LinesAccounted
  EvidenceRetained
PROPERTY
  Terminates
CHECK_DEADLOCK FALSE
