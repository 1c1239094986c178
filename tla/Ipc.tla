--------------------------------- MODULE Ipc ---------------------------------
(***************************************************************************)
(* Interpreters that share files, pipes, sockets, messages and pages: the  *)
(* operations of FileIo and Mailbox, interleaved between a program and the *)
(* processes it makes with fork and spawn, any of which may end or be      *)
(* killed between two system calls.                                        *)
(***************************************************************************)
EXTENDS Mailbox

vars == <<kernelVars, ioVars, mailVars>>

Init ==
  /\ st = [p \in Procs |-> IF p = Root THEN "running" ELSE "unborn"]
  /\ table = [p \in Procs |-> NewTable]
  /\ desc = <<>> /\ pos = <<>> /\ backlog = <<>>
  /\ inode = <<>> /\ stream = <<>> /\ hist = <<>>
  /\ name = [f \in Paths |-> Nothing]
  /\ port = [f \in Ports |-> 0]
  /\ call = [p \in Procs |-> Idle]
  /\ line = [p \in Procs |-> <<>>] /\ buf = [p \in Procs |-> <<>>]
  /\ left \in Menus
  /\ pid = [p \in Procs |-> IF p = Root THEN 1 ELSE 0]
  /\ made = [p \in Procs |-> "root"]
  /\ chans = [p \in Procs |-> <<>>] /\ ends = [p \in Procs |-> {}]
  /\ mail = <<>> /\ inbox = [p \in Procs |-> <<>>]
  /\ page = <<>> /\ pages = [p \in Procs |-> {}]

\* The child q is a copy of p: its handles, current line, places and pages.
\* It gets a number no running process has.
Child(p, q, how) ==
  /\ st[q] = "unborn"
  /\ st' = [st EXCEPT ![q] = "running"]
  /\ table' = [table EXCEPT ![q] = table[p]]
  /\ line' = [line EXCEPT ![q] = line[p]] /\ buf' = [buf EXCEPT ![q] = buf[p]]
  /\ \E n \in Pids \ {pid[r] : r \in Running} : pid' = [pid EXCEPT ![q] = n]
  /\ made' = [made EXCEPT ![q] = how]
  /\ pages' = [pages EXCEPT ![q] = pages[p]]
  /\ UNCHANGED <<desc, pos, backlog, inode, name, port, stream, call, hist, inbox, page>>

Fork(p, q) == Begin(p, "fork") /\ Child(p, q, "fork") /\ ForkChannels(p, q)

Spawn(p, q, flag) ==
  Begin(p, "spawn") /\ Child(p, q, "spawn") /\ SpawnChannels(p, q, flag)

\* What is left of a process that has ended and was collected: its number is
\* free again, and a page it was writing holds a part of the value.
Dies(p) ==
  /\ st' = [st EXCEPT ![p] = "gone"]
  /\ Becomes(p, Idle)
  /\ page' = IF call[p].op = "page-write"
               THEN [page EXCEPT ![call[p].k].mixed = TRUE] ELSE page
  /\ UNCHANGED <<table, desc, pos, backlog, inode, name, port, stream,
                 line, buf, hist, pid, made, mail, inbox, pages>>

\* A child ends with _exit, or is killed in the middle of a call.
Exit(p) ==
  /\ p \in Running \ {Root}
  /\ Dies(p)
  /\ UNCHANGED <<left, chans, ends>>

\* p aborts a child it has spawned: kills and collects it, and drops its
\* channel.  The child may have ended before, as long as no other process has
\* its number.  (A child without a channel is killed by Exit.)
Abort(p, q) ==
  /\ Begin(p, "abort")
  /\ p # q /\ SpawnedBy(q, p)
  /\ q \in Running \/ (st[q] = "gone" /\ pid[q] \notin {pid[r] : r \in Running})
  /\ Dies(q)
  /\ AbortChannels(p, pid[q])

FileStep(p) ==
  \/ \E path \in Paths, mode \in {"read", "write", "append", "update"} :
       Open(p, path, mode)
  \/ \E h \in HandleNumbers :
       \/ CloseHandle(p, h)
       \/ \E to \in -1..1 : Seek(p, h, to)
       \/ BeginReadLine(p, h)
       \/ \E size \in 1..3, wait \in {<<>>, <<NL>>} : BeginReadBuffer(p, h, size, wait)
       \/ \E text \in Texts : BeginWrite(p, h, text)
       \/ BeginWriteCurrent(p, h)
       \/ BeginAccept(p, h)
  \/ \E path \in Paths, mode \in {"write", "append"}, text \in Texts :
       BeginWriteWhole(p, path, mode, text)
  \/ \E path \in Paths : DeleteFile(p, path)
  \/ \E from, to \in Paths : RenameFile(p, from, to)
  \/ Pipe(p)
  \/ \E addr \in Paths \cup Ports : Listen(p, addr) \/ Connect(p, addr)
  \/ \E text, more \in Texts : BeginExec(p, text \o more)

\* The steps of a call that has begun.
CallStep(p) ==
  \/ ReadLineByte(p) \/ ReadLineEnd(p)
  \/ ReadBufferStep(p) \/ ReadBufferEnd(p)
  \/ WriteStep(p) \/ Accept(p)
  \/ ExecFeed(p) \/ CommandStep(p) \/ ExecDrain(p)

MailStep(p) ==
  \/ \E n \in Pids \cup {1} : \/ \E text \in Texts : Send(p, n, text)
                              \/ Receive(p, n)
  \/ NewPage(p) \/ PageWriteEnd(p) \/ PageReadEnd(p)
  \/ \E k \in pages[p] : \/ \E text \in Texts : BeginPageWrite(p, k, text)
                         \/ BeginPageRead(p, k)

Next ==
  \E p \in Procs :
    \/ (FileStep(p) \/ CallStep(p)) /\ UNCHANGED mailVars
    \/ MailStep(p)
    \/ \E q \in Procs : \/ Fork(p, q) \/ Abort(p, q)
                       \/ \E flag \in BOOLEAN : Spawn(p, q, flag)
    \/ Exit(p)

\* The system runs every process: a call that can go on goes on.
Fairness == \A p \in Procs : WF_vars(CallStep(p) /\ UNCHANGED mailVars)

Spec == Init /\ [][Next]_vars
LiveSpec == Spec /\ Fairness

-----------------------------------------------------------------------------
(* Properties. *)

Byte == {NL, CR, Zero} \cup UNION {ToSet(text) : text \in Texts}
ByteSeq == Seq(Byte)

\* The state has the shape the code's types give it.
TypeOK ==
  /\ st \in [Procs -> {"unborn", "running", "gone"}]
  /\ \A p \in Procs : IsTable(table[p], 1..Len(desc))
  /\ \A d \in 1..Len(desc) : desc[d].kind \in {"file", "stream", "listener"}
  /\ DOMAIN pos = DOMAIN desc /\ DOMAIN backlog = DOMAIN desc
  /\ \A i \in 1..Len(inode) : inode[i] \in ByteSeq
  /\ \A s \in 1..Len(stream) : stream[s] \in ByteSeq /\ Len(stream[s]) <= Capacity
  /\ \A f \in Paths : name[f].kind \in {"none", "file", "socket"}
  /\ \A p \in Procs : line[p] \in ByteSeq /\ buf[p] \in ByteSeq
  /\ \A p \in Procs : st[p] = "gone" => call[p] = Idle
  /\ DOMAIN hist = DOMAIN stream
  /\ \A k \in 1..Len(mail), e \in 1..2 : Bytes(mail[k][e]) <= MailBytes

\* In every process the free list holds exactly the closed handles, each
\* once: no sequence of open, close (of any number, also twice), pipe, connect,
\* accept and fork lets two open files share a handle (fileio.rs:35-57).
TablesOk == \A p \in Procs : TableOk(table[p])

\* Handles behave as the map a program takes them for: opening never takes a
\* handle in use, closing touches one handle of one process, a child starts
\* with a copy of its parent's (fileio.rs:35-57, process.rs:518-535).
MapOf(t) == [h \in {g \in Handles(t) : FileAt(t, g) # NoFile} |-> FileAt(t, h)]
Abstract == INSTANCE HandleMap WITH
  map <- [p \in Procs |-> MapOf(table[p])], born <- {p \in Procs : st[p] # "unborn"}
ImplementsHandleMap == Abstract!Spec

\* What one process reads from a stream line by line is what was written,
\* however the writes were split and whenever the reader had to wait: the
\* lines, each with its \n, and the part of a line it holds make up the bytes
\* taken, without \r; only the last line may lack its \n, at end of file
\* (fileio.rs:325-368).  Every \r goes, and a lone one does not end a line, as
\* the comment at fileio.rs:325 has it; by docs/adr/0029-file-io-slice.md:100
\* it would.  Nothing is said of processes that share the reading end, nor of
\* a reader that is killed inside a line.
Joined(lines) ==
  LET joined[i \in 0..Len(lines)] ==
        IF i = 0 THEN <<>> ELSE joined[i - 1] \o Append(lines[i], NL)
  IN  joined[Len(lines)]

Bare(bytes) ==
  LET bare[i \in 0..Len(bytes)] ==
        IF i = 0 THEN <<>>
        ELSE IF bytes[i] = CR THEN bare[i - 1] ELSE Append(bare[i - 1], bytes[i])
  IN  bare[Len(bytes)]

LinesAreTheStream ==
  \A s \in 1..Len(stream) :
    LET h == hist[s]
        held == {call[p].text : p \in {q \in Procs :
                  /\ call[q].op = "line" /\ desc[call[q].d].kind = "stream"
                  /\ desc[call[q].d].rx = s /\ call[q].got}}
    IN  ~h.mixed /\ Cardinality(h.by) = 1 /\ h.by \subseteq Running =>
          /\ \A i \in 1..Len(h.lines) : NL \notin ToSet(h.lines[i])
          /\ \/ \E text \in held \cup {<<>>} : Bare(h.took) = Joined(h.lines) \o text
             \/ /\ ~Writers(s) /\ h.lines # <<>>
                /\ Append(Bare(h.took), NL) = Joined(h.lines)

\* A step of a write through a handle opened to append, or of append-file, never
\* takes away what the file holds, even what others wrote after the handle was
\* opened (fileio.rs:164-166).  Other handles may overwrite the file, and
\* write-file and opening it to write empty it.
AppendOnlyExtends ==
  [][\A p \in Procs :
       LET c == call[p] IN
       (/\ c.op = "write" /\ call'[p] # c
        /\ desc[c.d].kind = "file" /\ desc[c.d].mode = "append")
         => IsPrefix(inode[desc[c.d].inode], inode'[desc[c.d].inode])]_vars

\* A read from a stream that no process can write to any more returns, and so
\* does a write that no process can read: a reader sees end of file only when
\* the last copy of the writing end is closed, in every process that has
\* inherited one (fileio.rs:327-368, process.rs:518-535).
Stranded(p) ==
  LET c == call[p] IN
  \/ c.op \in {"line", "buffer"} /\ desc[c.d].kind = "stream"
       /\ (desc[c.d].rx # 0 => ~Writers(desc[c.d].rx))
  \/ c.op = "write" /\ desc[c.d].kind = "stream"
       /\ (desc[c.d].tx # 0 => ~Readers(desc[c.d].tx))
PeerGoneEndsCall == \A p \in Procs : Stranded(p) ~> (call[p] = Idle)

\* exec returns when its input fits in the two pipes of a command that copies
\* it; with more the command waits for its output to be read while exec waits
\* for its input to be taken (process.rs:70-103).
ExecReturns ==
  \A p \in Procs :
    (call[p].op = "exec" /\ Len(call[p].all) <= 2 * Capacity) ~> (call[p] = Idle)

\* Between processes that no plain fork has made, what receive gives under a
\* label was sent by the process of that number, and sent under the receiver's
\* number: no process gets the messages of its parent or of its siblings, also
\* when children are aborted and numbers are used again (process.rs:257-354,
\* 384-458, 640-680).  It says who talks to whom; a message may be cut or lost.
\* The child of a plain fork shares the sockets of its parent, and takes and
\* sends messages in its parent's name.
MailMatches ==
  \A p \in Procs : \A i \in 1..Len(inbox[p]) :
    LET m == inbox[p][i] IN
    "fork" \notin {made[p], made[m.mail.by]} =>
      m.as = m.mail.pid /\ m.mail.to = pid[p]

\* A read of a shared page that no write overlaps gives the value written
\* last, if no writes of the page overlapped each other before and no writer
\* was killed half-way: length and bytes are stored, and read, in two steps and
\* nothing locks them (process.rs:219-236).
QuietReadIsLastWrite ==
  [][\A p \in Procs :
       LET c == call[p] IN
       (/\ c.op = "page-read" /\ call'[p] = Idle
        /\ c.quiet /\ ~page[c.k].mixed)
         => PageText(c) = page[c.k].last]_vars
=============================================================================
