------------------------------- MODULE Kernel -------------------------------
(***************************************************************************)
(* What the handlers of fileio.rs, net.rs and process.rs ask of the        *)
(* operating system: names of files, open files with a position that       *)
(* forked processes share, byte streams of bounded size between pipe and   *)
(* socket ends, and which process holds which open file.                   *)
(***************************************************************************)
EXTENDS FileTable, SequencesExt, FiniteSetsExt

CONSTANTS
  Procs, Root,      \* processes; the one that starts the program
  Paths, Ports,     \* names of files and Unix sockets; TCP ports
  Capacity,         \* bytes a stream holds
  PipeBuf           \* writes up to this size are not split

ASSUME RootAssumption == Root \in Procs
ASSUME CapacityAssumption == Capacity \in Nat

VARIABLES
  st,      \* "unborn", "running" or "gone", per process
  table,   \* the FileTable of each process
  desc,    \* the open files, in order of opening
  pos,     \* the position of each
  backlog, \* the connections that wait at each, when it is a listener
  inode,   \* the contents of the files
  name,    \* what a path names: 0, a file or a listening socket
  port,    \* the listener bound to a TCP port, or 0
  stream   \* the bytes under way in each stream

kernelVars == <<st, table, desc, pos, backlog, inode, name, port, stream>>

Running == {p \in Procs : st[p] = "running"}

\* Open files: a regular file, one end of a pipe or socket, or a listener.
OpenFile(i, mode, app) == [kind |-> "file", inode |-> i, mode |-> mode, app |-> app]
End(rx, tx) == [kind |-> "stream", rx |-> rx, tx |-> tx]
Listener == [kind |-> "listener"]

HeldBy(p, d) == p \in Running /\ \E h \in Handles(table[p]) : FileAt(table[p], h) = d

\* An open file lives while a process holds it, or while it is the server
\* side of a connection that waits in the backlog of a listener.
Held(d) ==
  \/ \E p \in Procs : HeldBy(p, d)
  \/ \E l \in 1..Len(desc) : d \in ToSet(backlog[l]) /\ \E p \in Procs : HeldBy(p, l)

Writers(s) == \E d \in 1..Len(desc) :
                desc[d].kind = "stream" /\ desc[d].tx = s /\ Held(d)
Readers(s) == \E d \in 1..Len(desc) :
                desc[d].kind = "stream" /\ desc[d].rx = s /\ Held(d)

\* The bytes a read of d could return now.
Avail(d) ==
  CASE desc[d].kind = "file" /\ desc[d].mode \in {"read", "update"} ->
         SubSeq(inode[desc[d].inode], pos[d] + 1, Len(inode[desc[d].inode]))
    [] desc[d].kind = "stream" /\ desc[d].rx # 0 -> stream[desc[d].rx]
    [] OTHER -> <<>>

\* A read of d returns nothing: end of file, or not open for reading.
AtEnd(d) ==
  /\ Avail(d) = <<>>
  /\ desc[d].kind = "stream" /\ desc[d].rx # 0 => ~Writers(desc[d].rx)

\* The first n available bytes of d are read.
Consume(d, n) ==
  IF desc[d].kind = "file"
    THEN pos' = [pos EXCEPT ![d] = @ + n] /\ UNCHANGED stream
    ELSE /\ stream' = [stream EXCEPT ![desc[d].rx] = SubSeq(@, n + 1, Len(@))]
         /\ UNCHANGED pos

\* bytes written over content from position from on; a gap is filled with zeros.
Overwrite(content, from, bytes, zero) ==
  LET last == Max({Len(content), from + Len(bytes)})
  IN  [k \in 1..last |->
         CASE k > from /\ k <= from + Len(bytes) -> bytes[k - from]
           [] k <= Len(content) -> content[k]
           [] OTHER -> zero]

\* One write call on d accepts the first n bytes of rest, 0 when it fails;
\* it is not enabled while it would block.
Accepts(d, rest, n) ==
  LET o == desc[d]
      room == Capacity - Len(stream[o.tx])
  IN  CASE o.kind = "file" -> n = IF o.mode = "read" THEN 0 ELSE Len(rest)
        [] o.kind = "stream" /\ o.tx # 0 ->
             IF ~Readers(o.tx) THEN n = 0
             ELSE IF Len(rest) <= PipeBuf
                    THEN room >= Len(rest) /\ n = Len(rest)
                    ELSE room > 0 /\ n = Min({room, Len(rest)})
        [] OTHER -> n = 0

\* The accepted bytes arrive: at the end of a stream or of a file opened to
\* append, else at the position of the open file.
Deliver(d, bytes, zero) ==
  LET o == desc[d]
      at == IF o.app THEN Len(inode[o.inode]) ELSE pos[d]
  IN  IF o.kind = "file"
        THEN /\ inode' = [inode EXCEPT ![o.inode] =
                            Overwrite(@, at, bytes, zero)]
             /\ pos' = [pos EXCEPT ![d] = at + Len(bytes)]
             /\ UNCHANGED stream
        ELSE /\ stream' = [stream EXCEPT ![o.tx] = @ \o bytes]
             /\ UNCHANGED <<pos, inode>>

\* More open files exist, at their start and with nothing waiting.
Opened(files) ==
  /\ desc' = desc \o files
  /\ pos' = pos \o [k \in 1..Len(files) |-> 0]
  /\ backlog' = backlog \o [k \in 1..Len(files) |-> <<>>]

\* p has opened o; its handle is that of the insert.
OpensAs(p, o) ==
  /\ Opened(<<o>>)
  /\ table' = [table EXCEPT ![p] = Insert(@, Len(desc) + 1)]
=============================================================================
