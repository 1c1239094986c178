\* Three processes, streams of three bytes: one run over thirteen small programs,
\* each with a budget per operation.  A process may block for ever on an empty
\* stream or a full one, so the system may really stop.
CONSTANTS
  a = a
  b = b
  nl = nl
  cr = cr
  zero = zero
  f = f
  g = g
  port1 = port1
  NL = nl
  CR = cr
  Zero = zero
  Procs = {1, 2, 3}
  Root = 1
  Paths = {f, g}
  Ports = {port1}
  Capacity = 3
  PipeBuf = 2
  Texts <- MCTexts
  MaxHandle = 5
  Menus <- MCMenus
  Pids <- MCPids
  MailBytes = 5
  RecvMax = 3
SPECIFICATION LiveSpec
INVARIANTS TypeOK TablesOk LinesAreTheStream MailMatches
PROPERTIES ImplementsHandleMap AppendOnlyExtends PeerGoneEndsCall ExecReturns QuietReadIsLastWrite
CHECK_DEADLOCK FALSE
