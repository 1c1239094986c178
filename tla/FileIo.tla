------------------------------- MODULE FileIo -------------------------------
(***************************************************************************)
(* File and stream operations of an interpreter (src/src/fileio.rs, the    *)
(* read-buffer special form of eval.rs, pipe and exec of process.rs).  A   *)
(* call that takes several system calls is a record in call[p] and one     *)
(* action per system call, since other processes run in between; a call    *)
(* that only returns nil changes nothing and is not shown.                 *)
(***************************************************************************)
EXTENDS Kernel

CONSTANTS
  Texts,          \* what programs write
  NL, CR, Zero,   \* the bytes the code looks at
  MaxHandle,      \* programs use handle numbers up to this one
  Menus           \* programs: how often each operation is used at most

ASSUME TextsAssumption == \A text \in Texts : text \in Seq(ToSet(text))
ASSUME BytesAssumption == NL # CR

VARIABLES
  call,   \* what each process is in the middle of
  line,   \* current-line: the last line read
  buf,    \* the place that read-buffer assigns
  hist,   \* per stream: bytes read, lines returned, and by whom
  left    \* how often the program may still begin each operation

ioVars == <<call, line, buf, hist, left>>

Idle == [op |-> "idle"]

Begin(p, op) ==
  /\ p \in Running /\ call[p] = Idle
  /\ op \in DOMAIN left /\ left[op] > 0
  /\ left' = [left EXCEPT ![op] = @ - 1]

Becomes(p, c) == call' = [call EXCEPT ![p] = c]

HandleNumbers == 3..MaxHandle

(* Opening, closing and positioning. *)

\* append without O_APPEND: the position is looked up once, at open.
ModeSeeksOnce(mode, i) == OpenFile(i, mode, FALSE)

Mode(mode, i) == OpenFile(i, mode, mode = "append")

\* The file a path names is opened; write and append create a missing one,
\* write empties it.
OpenPath(path, mode) ==
  LET creates == mode \in {"write", "append"}
      new == Len(inode) + 1
      i == IF name[path].kind = "file" THEN name[path].is ELSE new
  IN  /\ name[path].kind = "file" \/ (creates /\ name[path].kind = "none")
      /\ name' = [name EXCEPT ![path] = [kind |-> "file", is |-> i]]
      /\ inode' = IF i = new THEN Append(inode, <<>>)
                  ELSE IF mode = "write" THEN [inode EXCEPT ![i] = <<>>]
                  ELSE inode

Open(p, path, mode) ==
  /\ Begin(p, "open")
  /\ OpenPath(path, mode)
  /\ OpensAs(p, Mode(mode, name'[path].is))
  /\ UNCHANGED <<st, port, stream, call, line, buf, hist>>

\* close and net-close; the number may name nothing any more.
CloseHandle(p, h) ==
  /\ Begin(p, "close")
  /\ table' = [table EXCEPT ![p] = Close(@, h)]
  /\ UNCHANGED <<st, desc, pos, backlog, inode, name, port, stream,
                 call, line, buf, hist>>

\* -1 is the end of the file; only a regular file has a position.
Seek(p, h, to) ==
  LET d == FileAt(table[p], h)
  IN  /\ Begin(p, "seek")
      /\ d # NoFile /\ desc[d].kind = "file"
      /\ pos' = [pos EXCEPT ![d] =
                   IF to = -1 THEN Len(inode[desc[d].inode]) ELSE to]
      /\ UNCHANGED <<st, table, desc, backlog, inode, name, port, stream,
                     call, line, buf, hist>>

(* Reading. *)

\* n bytes of d are read by p; the history of a stream notes the reader.
Reads(p, d, n, whole) ==
  /\ Consume(d, n)
  /\ hist' = IF desc[d].kind = "file" THEN hist
             ELSE [hist EXCEPT ![desc[d].rx] =
                     [took  |-> @.took \o SubSeq(Avail(d), 1, n),
                      by    |-> @.by \cup {p},
                      lines |-> IF whole = <<>> THEN @.lines
                                ELSE Append(@.lines, whole[1]),
                      mixed |-> @.mixed]]

BeginReadLine(p, h) ==
  LET d == FileAt(table[p], h)
  IN  /\ Begin(p, "read-line") /\ d # NoFile
      /\ Becomes(p, [op |-> "line", d |-> d, text |-> <<>>, got |-> FALSE])
      /\ UNCHANGED <<kernelVars, line, buf, hist>>

\* read_line with \r kept as part of the line.
LineKeepsCR(text, b) == Append(text, b)

\* The line after byte b, which is not \n: a \r is dropped, before a \n or not.
LineAfter(text, b) == IF b = CR THEN text ELSE Append(text, b)

\* One byte at a time: another process may read the next one.
ReadLineByte(p) ==
  LET c == call[p] IN
  /\ c.op = "line" /\ Avail(c.d) # <<>>
  /\ LET byte == Head(Avail(c.d)) IN
     IF byte = NL
       THEN /\ Reads(p, c.d, 1, <<c.text>>)
            /\ Becomes(p, Idle) /\ line' = [line EXCEPT ![p] = c.text]
       ELSE /\ Reads(p, c.d, 1, <<>>)
            /\ Becomes(p, [c EXCEPT !.text = LineAfter(@, byte), !.got = TRUE])
            /\ line' = line
  /\ UNCHANGED <<st, table, desc, backlog, inode, name, port, buf, left>>

\* read_line that goes on reading at end of file while the line is empty.
ReadLineWaits(p) ==
  LET c == call[p] IN
  /\ c.op = "line" /\ AtEnd(c.d) /\ c.got
  /\ Becomes(p, Idle) /\ line' = [line EXCEPT ![p] = c.text]
  /\ UNCHANGED <<kernelVars, buf, hist, left>>

\* End of file: what has been read is the last line; nothing read is nil,
\* and then current-line stays as it was.
ReadLineEnd(p) ==
  LET c == call[p] IN
  /\ c.op = "line" /\ AtEnd(c.d)
  /\ Becomes(p, Idle)
  /\ line' = IF c.got THEN [line EXCEPT ![p] = c.text] ELSE line
  /\ hist' = IF c.got /\ desc[c.d].kind = "stream" /\ desc[c.d].rx # 0
               THEN [hist EXCEPT ![desc[c.d].rx].lines = Append(@, c.text)]
               ELSE hist
  /\ UNCHANGED <<kernelVars, buf, left>>

\* read-buffer and net-receive; wait is a string or, for no wait, <<>>.
BeginReadBuffer(p, h, size, wait) ==
  LET d == FileAt(table[p], h)
  IN  /\ Begin(p, "read-buffer") /\ d # NoFile
      /\ Becomes(p, [op |-> "buffer", d |-> d, size |-> size, wait |-> wait,
                     text |-> <<>>])
      /\ hist' = IF desc[d].kind = "stream" /\ desc[d].rx # 0
                   THEN [hist EXCEPT ![desc[d].rx].mixed = TRUE] ELSE hist
      /\ UNCHANGED <<kernelVars, line, buf>>

\* What was read is put in the place; the value of the call is its length.
EndReadBuffer(p, text) ==
  /\ Becomes(p, Idle) /\ buf' = [buf EXCEPT ![p] = text]

\* Without wait one read is made; with it, reads of one byte until the text
\* ends with wait or is full.
ReadBufferStep(p) ==
  LET c == call[p]
      n == IF c.wait = <<>> THEN Min({c.size, Len(Avail(c.d))}) ELSE 1
      text == c.text \o SubSeq(Avail(c.d), 1, n)
  IN  /\ c.op = "buffer" /\ Avail(c.d) # <<>>
      /\ Reads(p, c.d, n, <<>>)
      /\ IF c.wait = <<>> \/ Len(text) >= c.size \/ IsSuffix(c.wait, text)
           THEN EndReadBuffer(p, text)
           ELSE Becomes(p, [c EXCEPT !.text = text]) /\ buf' = buf
      /\ UNCHANGED <<st, table, desc, backlog, inode, name, port, line, left>>

ReadBufferEnd(p) ==
  /\ call[p].op = "buffer" /\ AtEnd(call[p].d)
  /\ EndReadBuffer(p, call[p].text)
  /\ UNCHANGED <<kernelVars, line, hist, left>>

(* Writing. *)

\* write-buffer, write-line and net-send; without a string, write-line
\* writes the current line.
BeginWrite(p, h, text) ==
  LET d == FileAt(table[p], h)
  IN  /\ Begin(p, "write") /\ d # NoFile
      /\ Becomes(p, [op |-> "write", d |-> d, rest |-> text])
      /\ UNCHANGED <<kernelVars, line, buf, hist>>

BeginWriteCurrent(p, h) ==
  LET d == FileAt(table[p], h)
  IN  /\ Begin(p, "echo-line") /\ d # NoFile
      /\ Becomes(p, [op |-> "write", d |-> d, rest |-> Append(line[p], NL)])
      /\ UNCHANGED <<kernelVars, line, buf, hist>>

\* write-file, append-file and save: the file is opened, and emptied, first.
\* The open file is not in the table, and is closed when the call returns.
BeginWriteWhole(p, path, mode, text) ==
  /\ Begin(p, "write-file")
  /\ OpenPath(path, mode)
  /\ Opened(<<Mode(mode, name'[path].is)>>)
  /\ Becomes(p, [op |-> "write", d |-> Len(desc) + 1, rest |-> text])
  /\ UNCHANGED <<st, table, port, stream, line, buf, hist>>

\* One system call of write_all, which goes on until everything is accepted
\* and gives up when nothing is.
WriteStep(p) ==
  LET c == call[p] IN
  /\ c.op = "write"
  /\ \E n \in 0..Len(c.rest) :
       /\ Accepts(c.d, c.rest, n)
       /\ IF n = 0 THEN UNCHANGED <<pos, inode, stream>>
                   ELSE Deliver(c.d, SubSeq(c.rest, 1, n), Zero)
       /\ Becomes(p, IF n = 0 \/ n = Len(c.rest) THEN Idle
                     ELSE [c EXCEPT !.rest = SubSeq(@, n + 1, Len(@))])
  /\ UNCHANGED <<st, table, desc, backlog, name, port, line, buf, hist, left>>

(* Names. *)

Nothing == [kind |-> "none", is |-> 0]

DeleteFile(p, path) ==
  /\ Begin(p, "delete")
  /\ name[path].kind # "none"
  /\ name' = [name EXCEPT ![path] = Nothing]
  /\ UNCHANGED <<st, table, desc, pos, backlog, inode, port, stream,
                 call, line, buf, hist>>

RenameFile(p, from, to) ==
  /\ Begin(p, "rename")
  /\ name[from].kind # "none" /\ from # to
  /\ name' = [name EXCEPT ![to] = name[from], ![from] = Nothing]
  /\ UNCHANGED <<st, table, desc, pos, backlog, inode, port, stream,
                 call, line, buf, hist>>

(* Pipes and sockets. *)

NewStreams(n) ==
  /\ stream' = stream \o [i \in 1..n |-> <<>>]
  /\ hist' = hist \o [i \in 1..n |-> [took |-> <<>>, by |-> {},
                                      lines |-> <<>>, mixed |-> FALSE]]

Pipe(p) ==
  /\ Begin(p, "pipe")
  /\ NewStreams(1)
  /\ LET s == Len(stream) + 1
         d == Len(desc) + 1
     IN  /\ Opened(<<End(s, 0), End(0, s)>>)
         /\ table' = [table EXCEPT ![p] = Insert(Insert(@, d), d + 1)]
  /\ UNCHANGED <<st, inode, name, port, call, line, buf>>

\* A port is free when no process holds a listener on it.  At a path
\* whatever the path names is deleted first, and the bind then succeeds.
Listen(p, addr) ==
  /\ Begin(p, "listen")
  /\ OpensAs(p, Listener)
  /\ IF addr \in Ports
       THEN /\ port[addr] = 0 \/ ~Held(port[addr])
            /\ port' = [port EXCEPT ![addr] = Len(desc) + 1] /\ name' = name
       ELSE /\ name' = [name EXCEPT ![addr] =
                          [kind |-> "socket", is |-> Len(desc) + 1]]
            /\ port' = port
  /\ UNCHANGED <<st, inode, stream, call, line, buf, hist>>

ListenerAt(addr) ==
  IF addr \in Ports THEN port[addr]
  ELSE IF name[addr].kind = "socket" THEN name[addr].is ELSE 0

\* A connection is made with the listener's backlog, before it is accepted.
Connect(p, addr) ==
  LET l == ListenerAt(addr)
      s == Len(stream) + 1
      d == Len(desc) + 1
  IN  /\ Begin(p, "connect")
      /\ l # 0 /\ Held(l)
      /\ NewStreams(2)
      /\ desc' = desc \o <<End(s, s + 1), End(s + 1, s)>>
      /\ pos' = pos \o <<0, 0>>
      /\ backlog' = [backlog EXCEPT ![l] = Append(@, d + 1)] \o <<<<>>, <<>>>>
      /\ table' = [table EXCEPT ![p] = Insert(@, d)]
      /\ UNCHANGED <<st, inode, name, port, call, line, buf>>

\* net-accept blocks until a connection waits; a handle that is no listener
\* gives nil.
BeginAccept(p, h) ==
  LET d == FileAt(table[p], h)
  IN  /\ Begin(p, "accept")
      /\ d # NoFile /\ desc[d].kind = "listener"
      /\ Becomes(p, [op |-> "accept", d |-> d])
      /\ UNCHANGED <<kernelVars, line, buf, hist>>

Accept(p) ==
  LET d == call[p].d IN
  /\ call[p].op = "accept" /\ backlog[d] # <<>>
  /\ table' = [table EXCEPT ![p] = Insert(@, Head(backlog[d]))]
  /\ backlog' = [backlog EXCEPT ![d] = Tail(@)]
  /\ Becomes(p, Idle)
  /\ UNCHANGED <<st, desc, pos, inode, name, port, stream, line, buf, hist, left>>

(* exec with an input: the command copies its input to its output through  *)
(* a pipe each way; all input is written before any output is read.        *)

BeginExec(p, text) ==
  /\ Begin(p, "exec")
  /\ Becomes(p, [op |-> "exec", rest |-> text, to |-> <<>>, from |-> <<>>,
                 all |-> text])
  /\ UNCHANGED <<kernelVars, line, buf, hist>>

ExecFeed(p) ==
  LET c == call[p]
      n == Min({Capacity - Len(c.to), Len(c.rest)})
  IN  /\ c.op = "exec" /\ n > 0
      /\ Becomes(p, [c EXCEPT !.rest = SubSeq(@, n + 1, Len(@)),
                              !.to = @ \o SubSeq(c.rest, 1, n)])
      /\ UNCHANGED <<kernelVars, line, buf, hist, left>>

\* The command moves one byte.
CommandStep(p) ==
  LET c == call[p] IN
  /\ c.op = "exec" /\ c.to # <<>> /\ Len(c.from) < Capacity
  /\ Becomes(p, [c EXCEPT !.to = Tail(@), !.from = Append(@, Head(c.to))])
  /\ UNCHANGED <<kernelVars, line, buf, hist, left>>

\* exec that waits for the command to end before it reads the output.
ExecWaitsFirst(p) ==
  /\ call[p].op = "exec" /\ call[p].rest = <<>> /\ call[p].to = <<>>
  /\ Becomes(p, Idle)
  /\ UNCHANGED <<kernelVars, line, buf, hist, left>>

\* Only when the input is written is the output read, to its end.
ExecDrain(p) ==
  LET c == call[p] IN
  /\ c.op = "exec" /\ c.rest = <<>>
  /\ IF c.from # <<>>
       THEN Becomes(p, [c EXCEPT !.from = <<>>])
       ELSE c.to = <<>> /\ Becomes(p, Idle)
  /\ UNCHANGED <<kernelVars, line, buf, hist, left>>
=============================================================================
