-------------------------------- MODULE MCIpc --------------------------------
EXTENDS Ipc, TLC

CONSTANTS a, b, nl, cr, zero, f, g, port1

MCTexts == {<<a, nl>>, <<cr, b, a, nl>>, <<b>>}
MCPids == 2..3

\* One program per entry: how often it uses each operation at most.
MCMenus == {
  "pipe" :> 2 @@ "close" :> 2 @@ "fork" :> 1,
  "pipe" :> 1 @@ "listen" :> 2 @@ "close" :> 2,
  "open" :> 2 @@ "write" :> 2 @@ "seek" :> 1,
  "write-file" :> 1 @@ "open" :> 2 @@ "read-line" :> 1 @@ "echo-line" :> 1,
  "write-file" :> 2 @@ "rename" :> 1 @@ "delete" :> 1,
  "write-file" :> 1 @@ "delete" :> 1 @@ "open" :> 1 @@ "read-buffer" :> 1,
  "pipe" :> 1 @@ "fork" :> 1 @@ "write" :> 1 @@ "read-line" :> 2 @@ "close" :> 1,
  "pipe" :> 1 @@ "read-buffer" :> 1 @@ "write" :> 1 @@ "spawn" :> 1,
  "listen" :> 1 @@ "connect" :> 2 @@ "accept" :> 1 @@ "fork" :> 1 @@ "close" :> 1,
  "exec" :> 1,
  "spawn" :> 2 @@ "fork" :> 1 @@ "send" :> 2 @@ "receive" :> 1,
  "spawn" :> 2 @@ "abort" :> 1 @@ "send" :> 2 @@ "receive" :> 1,
  "spawn" :> 1 @@ "new-page" :> 1 @@ "share" :> 3 @@ "abort" :> 1 }
=============================================================================
