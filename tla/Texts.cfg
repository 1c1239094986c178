\* One session of each topic; a text or document of full size grows no more.
CONSTANTS
  FirstDay <- MCFirstDay
  LastDay = 60000
  ClockDays <- MCClockDays
  Seconds = {0, 3599, 43261, 86399}
  TextBytes <- MCTextBytes
  MaxText = 4
  Words <- MCWords
  Atoms <- MCAtoms
  MaxJson = 3
  Pieces <- MCPieces
  Prologs <- MCPrologs
  MaxXml = 3
  Shapes <- MCShapes
  PlainShape <- MCPlainShape
SPECIFICATION Spec
INVARIANTS CalendarAgrees LiteralsReadBack DocumentsReadBack
CHECK_DEADLOCK FALSE
