----------------------------- MODULE Ipc_proofs -----------------------------
(***************************************************************************)
(* Proofs about Ipc, for any number of processes, any programs and any     *)
(* sizes: no two open files of a process share a handle, and handles       *)
(* behave as the map of HandleMap; files, streams, calls and messages keep *)
(* their shape; messages arrive from the peer they are labelled with;      *)
(* quiet reads of shared pages see the last write; appends take nothing    *)
(* away; a reader of a stream gets the lines that were written to it.      *)
(***************************************************************************)
EXTENDS Ipc, StackLemmas

(* File tables. *)

LEMMA NewTableOk ==
  ASSUME NEW files
  PROVE  IsTable(NewTable, files) /\ TableOk(NewTable)
BY DEF NewTable, IsTable, TableOk, StandardClosed, FreeIsEmpty, FreeOnce, EmptyIsFree,
       NoFile, Handles

\* A table stays one when more files are opened.
LEMMA TableGrows ==
  ASSUME NEW files, NEW more, files \subseteq more, NEW t, IsTable(t, files)
  PROVE  IsTable(t, more)
BY DEF IsTable

\* Insert fills an empty slot, and no other handle notices.
LEMMA InsertOk ==
  ASSUME NEW files \in SUBSET File, NEW t, IsTable(t, files), TableOk(t),
         NEW f \in files
  PROVE  /\ IsTable(Insert(t, f), files) /\ TableOk(Insert(t, f))
         /\ NextHandle(t) \in Nat /\ NextHandle(t) >= 3
         /\ FileAt(t, NextHandle(t)) = NoFile
         /\ Handles(Insert(t, f)) = Handles(t) \cup {NextHandle(t)}
         /\ \A h \in Handles(Insert(t, f)) :
              FileAt(Insert(t, f), h) = IF h = NextHandle(t) THEN f ELSE FileAt(t, h)
<1> DEFINE u == Insert(t, f)
<1>s. t.size \in Nat /\ t.size >= 3 /\ f # 0
  BY DEF IsTable, File, TableOk, StandardClosed
<1>f. t.free \in Seq(Nat) /\ Len(t.free) \in Nat
  BY DEF IsTable
<1>0. t.slots \in [0..(t.size - 1) -> files \cup {0}]
  BY DEF IsTable, Handles, NoFile
<1>1. CASE t.free = <<>>
  <2>1. /\ u = [size |-> u.size, slots |-> u.slots, free |-> u.free]
        /\ u.size = t.size + 1 /\ u.free = <<>>
        /\ u.slots = [h \in 0..t.size |-> IF h = t.size THEN f ELSE t.slots[h]]
    BY <1>1 DEF Insert
  <2>2. u.slots \in [0..(u.size - 1) -> files \cup {0}]
    BY <1>s, <1>f, <1>0, <2>1
  <2>3. IsTable(u, files)
    BY <1>s, <1>f, <1>0, <2>1, <2>2 DEF IsTable, Handles, NoFile
  <2>4. TableOk(u)
    BY <1>s, <1>f, <1>0, <1>1, <2>1 DEF TableOk, StandardClosed, FreeIsEmpty, FreeOnce,
         EmptyIsFree, NoFile
  <2>5. NextHandle(t) = t.size
    BY <1>1 DEF NextHandle
  <2>6. QED
    BY <1>s, <1>f, <1>0, <2>1, <2>3, <2>4, <2>5 DEF FileAt, Handles, NoFile
<1>2. CASE t.free # <<>>
  <2> DEFINE k == Len(t.free)
             n == t.free[k]
  <2>1. k \in 1..k /\ k \in Nat /\ n \in 3..(t.size - 1) /\ t.slots[n] = 0
    BY <1>s, <1>f, <1>0, <1>2 DEF TableOk, FreeIsEmpty, NoFile
  <2>2. /\ u = [size |-> u.size, slots |-> u.slots, free |-> u.free]
        /\ u.size = t.size /\ NextHandle(t) = n
        /\ u.slots = [t.slots EXCEPT ![n] = f]
        /\ u.free = SubSeq(t.free, 1, k - 1)
    BY <1>2 DEF Insert, NextHandle
  <2>3. /\ u.free \in Seq(Nat) /\ Len(u.free) = k - 1
        /\ \A i \in 1..(k - 1) : u.free[i] = t.free[i]
    <3>1. k - 1 \in Int /\ \A i \in 1..(k - 1) : t.free[i] \in Nat
      BY <1>f
    <3>2. QED
      BY <1>f, <2>1, <2>2, <3>1, SubSeqProperties, SMTT(30)
  <2>4. /\ u.slots \in [0..(t.size - 1) -> files \cup {0}]
        /\ \A h \in 0..(t.size - 1) : u.slots[h] = IF h = n THEN f ELSE t.slots[h]
    BY <1>s, <1>f, <1>0, <2>1, <2>2
  <2>5. IsTable(u, files)
    BY <1>s, <1>f, <1>0, <2>2, <2>3, <2>4 DEF IsTable, Handles, NoFile
  <2>6. TableOk(u)
    <3>1. StandardClosed(u)
      BY <1>s, <2>1, <2>2, <2>4, SMTT(30) DEF TableOk, StandardClosed
    <3>2. \A i \in 1..(k - 1) : t.free[i] # n
      BY <2>1 DEF TableOk, FreeOnce
    <3>3. FreeIsEmpty(u)
      <4> SUFFICES ASSUME NEW i \in 1..(k - 1)
                   PROVE  t.free[i] \in 3..(t.size - 1) /\ u.slots[t.free[i]] = 0
        BY <2>2, <2>3 DEF FreeIsEmpty, NoFile
      <4>1. t.free[i] \in 3..(t.size - 1) /\ t.slots[t.free[i]] = 0
        BY <2>1 DEF TableOk, FreeIsEmpty, NoFile
      <4>2. QED
        BY <1>s, <2>4, <3>2, <4>1, SMTT(30)
    <3>4. FreeOnce(u)
      BY <2>1, <2>3, SMTT(30) DEF TableOk, FreeOnce
    <3>5. ASSUME NEW h \in 3..(u.size - 1), u.slots[h] = NoFile
          PROVE  \E i \in 1..Len(u.free) : u.free[i] = h
      <4>1. h # n /\ t.slots[h] = NoFile
        BY <1>s, <1>f, <1>0, <2>1, <2>2, <2>4, <3>5 DEF NoFile
      <4>2. PICK i \in 1..k : t.free[i] = h
        BY <2>2, <4>1 DEF TableOk, EmptyIsFree
      <4>3. i \in 1..(k - 1)
        BY <2>1, <4>1, <4>2
      <4>4. QED
        BY <2>3, <4>2, <4>3
    <3>6. QED
      BY <3>1, <3>3, <3>4, <3>5 DEF TableOk, EmptyIsFree
  <2>7. QED
    BY <1>s, <1>f, <1>0, <2>1, <2>2, <2>4, <2>5, <2>6 DEF FileAt, Handles, NoFile
<1>3. QED
  BY <1>1, <1>2

\* Close empties the slot of its handle, if that names a file, and no other.
LEMMA CloseOk ==
  ASSUME NEW files \in SUBSET File, NEW t, IsTable(t, files), TableOk(t), NEW h
  PROVE  /\ IsTable(Close(t, h), files) /\ TableOk(Close(t, h))
         /\ Handles(Close(t, h)) = Handles(t)
         /\ \A g \in Handles(t) :
              FileAt(Close(t, h), g) = IF g = h THEN NoFile ELSE FileAt(t, g)
<1> DEFINE u == Close(t, h)
<1>s. t.size \in Nat /\ t.size >= 3
  BY DEF IsTable, TableOk, StandardClosed
<1>f. t.free \in Seq(Nat) /\ Len(t.free) \in Nat
  BY DEF IsTable
<1>0. t.slots \in [0..(t.size - 1) -> files \cup {0}]
  BY DEF IsTable, Handles, NoFile
<1>1. CASE FileAt(t, h) = NoFile
  BY <1>1 DEF Close
<1>2. CASE FileAt(t, h) # NoFile
  <2>1. h \in 3..(t.size - 1) /\ h \in Nat /\ t.slots[h] # 0
    BY <1>s, <1>f, <1>0, <1>2 DEF FileAt, Handles, NoFile
  <2>2. /\ u = [size |-> u.size, slots |-> u.slots, free |-> u.free]
        /\ u.size = t.size
        /\ u.slots = [t.slots EXCEPT ![h] = 0]
        /\ u.free = Append(t.free, h)
    BY <1>2 DEF Close, NoFile
  <2>3. /\ u.free \in Seq(Nat) /\ Len(u.free) = Len(t.free) + 1
        /\ \A i \in 1..Len(t.free) : u.free[i] = t.free[i]
        /\ u.free[Len(t.free) + 1] = h
    BY <1>f, <2>1, <2>2
  <2>i. \A i \in 1..Len(t.free) : i \in 1..Len(u.free) /\ u.free[i] = t.free[i]
    BY <1>f, <2>3
  <2>h. /\ \A i \in 1..(Len(t.free) + 1) : i \notin 1..Len(t.free) => u.free[i] = h
        /\ Len(t.free) \in Nat
    BY <1>f, <2>3
  <2>4. /\ u.slots \in [0..(t.size - 1) -> files \cup {0}]
        /\ \A g \in 0..(t.size - 1) : u.slots[g] = IF g = h THEN 0 ELSE t.slots[g]
    BY <1>s, <1>f, <1>0, <2>1, <2>2
  <2>5. IsTable(u, files)
    BY <1>s, <1>f, <1>0, <2>2, <2>3, <2>4 DEF IsTable, Handles, NoFile
  <2>6. TableOk(u)
    <3>1. StandardClosed(u)
      BY <1>s, <1>f, <1>0, <2>1, <2>2, <2>4 DEF TableOk, StandardClosed, NoFile
    <3>2. \A i \in 1..Len(t.free) : t.free[i] # h
      BY <1>s, <1>f, <1>0, <2>1 DEF TableOk, FreeIsEmpty, NoFile
    <3>3. FreeIsEmpty(u)
      <4> SUFFICES ASSUME NEW i \in 1..(Len(t.free) + 1)
                   PROVE  u.free[i] \in 3..(t.size - 1) /\ u.slots[u.free[i]] = 0
        BY <2>2, <2>3 DEF FreeIsEmpty, NoFile
      <4>1. CASE i \in 1..Len(t.free)
        <5>1. t.free[i] \in 3..(t.size - 1) /\ t.slots[t.free[i]] = 0 /\ t.free[i] # h
          BY <3>2, <4>1 DEF TableOk, FreeIsEmpty, NoFile
        <5>2. QED
          BY <1>s, <2>i, <2>4, <4>1, <5>1
      <4>2. CASE i = Len(t.free) + 1
        BY <2>1, <2>3, <2>4, <4>2
      <4>3. QED
        BY <1>s, <1>f, <1>0, <4>1, <4>2, SMTT(30)
    <3>4. FreeOnce(u)
      <4> SUFFICES ASSUME NEW i \in 1..(Len(t.free) + 1), NEW j \in 1..(Len(t.free) + 1),
                          u.free[i] = u.free[j]
                   PROVE  i = j
        BY <2>3 DEF FreeOnce
      <4>1. CASE i \in 1..Len(t.free) /\ j \in 1..Len(t.free)
        BY <2>3, <4>1 DEF TableOk, FreeOnce
      <4>2. CASE i \notin 1..Len(t.free) \/ j \notin 1..Len(t.free)
        BY <2>i, <2>h, <3>2, <4>2
      <4>3. QED
        BY <4>1, <4>2
    <3>5. ASSUME NEW g \in 3..(u.size - 1), u.slots[g] = NoFile
          PROVE  \E i \in 1..Len(u.free) : u.free[i] = g
      <4>1. CASE g = h
        BY <1>s, <1>f, <1>0, <2>3, <4>1
      <4>2. CASE g # h
        <5>1. g \in 3..(t.size - 1) /\ t.slots[g] = NoFile
          BY <1>s, <1>f, <1>0, <2>2, <2>4, <3>5, <4>2 DEF NoFile
        <5>2. PICK i \in 1..Len(t.free) : t.free[i] = g
          BY <5>1 DEF TableOk, EmptyIsFree
        <5>3. QED
          BY <2>i, <5>2
      <4>3. QED
        BY <4>1, <4>2
    <3>6. QED
      BY <3>1, <3>3, <3>4, <3>5 DEF TableOk, EmptyIsFree
  <2>7. QED
    BY <1>s, <1>f, <1>0, <2>1, <2>2, <2>4, <2>5, <2>6 DEF FileAt, Handles, NoFile
<1>3. QED
  BY <1>1, <1>2

-----------------------------------------------------------------------------
(* The inductive invariant: every handle and every waiting connection names *)
(* a file that exists, and only a running process is inside an accept.      *)

IsSeq(s) == \E S : s \in Seq(S)

FilesOk ==
  /\ IsSeq(desc)
  /\ backlog \in Seq(Seq(1..Len(desc))) /\ Len(backlog) = Len(desc)

HandlesOk ==
  /\ DOMAIN table = Procs
  /\ \A p \in Procs : IsTable(table[p], 1..Len(desc)) /\ TableOk(table[p])

CallOk(c) == "op" \in DOMAIN c /\ (c.op = "accept" => c.d \in 1..Len(desc))

CallsOk ==
  /\ DOMAIN st = Procs /\ DOMAIN call = Procs
  /\ \A p \in Procs : CallOk(call[p]) /\ (call[p].op = "accept" => st[p] = "running")

IInv == FilesOk /\ HandlesOk /\ CallsOk

\* What a step does to the tables: nothing, one or two inserts or a close in
\* the table of one process that has started, or a copy for a new process.
Started == {p \in Procs : st[p] # "unborn"}

TableStep ==
  \/ Started' = Started /\ table' = table
  \/ /\ Started' = Started
     /\ \E p \in Started :
          \/ \E f \in 1..Len(desc') : table' = [table EXCEPT ![p] = Insert(@, f)]
          \/ \E f, g \in 1..Len(desc') :
               table' = [table EXCEPT ![p] = Insert(Insert(@, f), g)]
          \/ \E h \in Int : table' = [table EXCEPT ![p] = Close(@, h)]
  \/ \E p \in Started, q \in Procs \ Started :
       Started' = Started \cup {q} /\ table' = [table EXCEPT ![q] = table[p]]

Good == FilesOk' /\ Len(desc) <= Len(desc') /\ TableStep /\ CallsOk'

LEMMA LenIsNat == ASSUME NEW s, IsSeq(s) PROVE Len(s) \in Nat
BY DEF IsSeq

LEMMA ShortSeqs ==
  /\ \A a : IsSeq(<<a>>) /\ Len(<<a>>) = 1
  /\ \A a, b : IsSeq(<<a, b>>) /\ Len(<<a, b>>) = 2
<1>1. \A a : <<a>> \in Seq({a}) /\ Len(<<a>>) = 1
  OBVIOUS
<1>2. \A a, b : <<a, b>> \in Seq({a, b}) /\ Len(<<a, b>>) = 2
  OBVIOUS
<1>3. QED
  BY <1>1, <1>2 DEF IsSeq

LEMMA JoinIsSeq ==
  ASSUME NEW s, NEW t, IsSeq(s), IsSeq(t)
  PROVE  IsSeq(s \o t) /\ Len(s \o t) = Len(s) + Len(t)
<1>1. PICK S : s \in Seq(S)
  BY DEF IsSeq
<1>2. PICK T : t \in Seq(T)
  BY DEF IsSeq
<1>3. s \in Seq(S \cup T) /\ t \in Seq(S \cup T)
  BY <1>1, <1>2, SeqMonotonic
<1>4. QED
  BY <1>3, ConcatProperties DEF IsSeq

\* Opening files adds files without a backlog and keeps the older ones.
LEMMA OpenedOk ==
  ASSUME IInv, NEW fs, IsSeq(fs), Opened(fs)
  PROVE  FilesOk' /\ Len(desc') = Len(desc) + Len(fs) /\ Len(fs) \in Nat
         /\ Len(desc) \in Nat
<1> DEFINE n == Len(desc)
           m == Len(desc')
           more == [k \in 1..Len(fs) |-> <<>>]
<1>1. IsSeq(desc') /\ m = n + Len(fs) /\ Len(fs) \in Nat /\ n \in Nat
  BY JoinIsSeq, LenIsNat DEF IInv, FilesOk, Opened
<1>2. backlog \in Seq(Seq(1..m))
  <2>1. 1..n \subseteq 1..m
    BY <1>1
  <2>2. Seq(1..n) \subseteq Seq(1..m)
    BY <2>1, SeqMonotonic
  <2>3. QED
    BY <2>2, SeqMonotonic DEF IInv, FilesOk
<1>3. more \in Seq(Seq(1..m)) /\ Len(more) = Len(fs)
  BY <1>1
<1>4. backlog' = backlog \o more
  BY DEF Opened
<1>5. backlog' \in Seq(Seq(1..m)) /\ Len(backlog') = n + Len(fs)
  <2>1. Len(backlog) = n
    BY DEF IInv, FilesOk
  <2> HIDE DEF more
  <2>2. /\ backlog \o more \in Seq(Seq(1..m))
        /\ Len(backlog \o more) = Len(backlog) + Len(more)
    BY <1>2, <1>3, ConcatProperties
  <2>3. QED
    BY <1>3, <1>4, <2>1, <2>2
<1>6. QED
  BY <1>1, <1>5 DEF FilesOk

\* Calls of other processes, and calls that are no accept, stay in order.
LEMMA CallsStay ==
  ASSUME IInv, NEW p \in Procs, NEW c, "op" \in DOMAIN c, c.op # "accept",
         Becomes(p, c), UNCHANGED st, Len(desc) <= Len(desc'), Len(desc') \in Nat
  PROVE  CallsOk'
<1>1. Len(desc) \in Nat
  BY LenIsNat DEF IInv, FilesOk
<1>2. QED
  BY <1>1 DEF IInv, CallsOk, CallOk, Becomes

LEMMA CallsSame ==
  ASSUME IInv, UNCHANGED <<call, st>>, Len(desc) <= Len(desc'), Len(desc') \in Nat
  PROVE  CallsOk'
<1>1. Len(desc) \in Nat
  BY LenIsNat DEF IInv, FilesOk
<1>2. QED
  BY <1>1 DEF IInv, CallsOk, CallOk

LEMMA Quiet ==
  ASSUME IInv, UNCHANGED <<table, desc, backlog>>, CallsOk', Started' = Started
  PROVE  Good
BY LenIsNat DEF IInv, FilesOk, Good, TableStep

LEMMA QuietCall ==
  ASSUME IInv, NEW p \in Procs, NEW c, "op" \in DOMAIN c, c.op # "accept",
         Becomes(p, c), UNCHANGED <<st, table, desc, backlog>>
  PROVE  Good
<1>1. Len(desc) \in Nat /\ Len(desc') = Len(desc)
  BY LenIsNat DEF IInv, FilesOk
<1>2. CallsOk'
  BY <1>1, CallsStay
<1>3. QED
  BY <1>2, Quiet DEF Started

LEMMA QuietSame ==
  ASSUME IInv, UNCHANGED <<call, st, table, desc, backlog>>
  PROVE  Good
<1>1. Len(desc) \in Nat /\ Len(desc') = Len(desc)
  BY LenIsNat DEF IInv, FilesOk
<1>2. CallsOk'
  BY <1>1, CallsSame
<1>3. QED
  BY <1>2, Quiet DEF Started

-----------------------------------------------------------------------------
(* Every step keeps the files and calls in order and makes a TableStep.     *)

\* A handle names one of the open files.
LEMMA FileAtIsFile ==
  ASSUME IInv, NEW p \in Procs, NEW h, FileAt(table[p], h) # NoFile
  PROVE  FileAt(table[p], h) \in 1..Len(desc)
BY DEF IInv, HandlesOk, IsTable, FileAt, Handles

LEMMA BeginFacts ==
  ASSUME NEW p, NEW op, Begin(p, op)
  PROVE  p \in Procs /\ st[p] = "running" /\ p \in Started /\ call[p] = Idle
BY DEF Begin, Running, Started

LEMMA OpeningStep ==
  ASSUME IInv, NEW p \in Started, NEW o, OpensAs(p, o), UNCHANGED <<call, st>>
  PROVE  Good
<1>1. IsSeq(<<o>>) /\ Len(<<o>>) = 1
  BY ShortSeqs
<1>2. FilesOk' /\ Len(desc') = Len(desc) + 1 /\ Len(desc) \in Nat
  BY <1>1, OpenedOk DEF OpensAs
<1>3. TableStep
  <2>1. Len(desc) + 1 \in 1..Len(desc')
    BY <1>2
  <2>2. table' = [table EXCEPT ![p] = Insert(@, Len(desc) + 1)]
    BY DEF OpensAs
  <2>3. QED
    BY <2>1, <2>2 DEF TableStep, Started
<1>4. QED
  BY <1>2, <1>3, CallsSame DEF Good

LEMMA FileActions ==
  ASSUME IInv, NEW p \in Procs, FileStep(p)
  PROVE  Good
<1>1. ASSUME NEW path, NEW mode, Open(p, path, mode)
      PROVE  Good
  BY <1>1, BeginFacts, OpeningStep DEF Open
<1>2. ASSUME NEW h \in HandleNumbers, CloseHandle(p, h)
      PROVE  Good
  <2>1. p \in Started
    BY <1>2, BeginFacts DEF CloseHandle
  <2>2. Len(desc) \in Nat /\ Len(desc') = Len(desc) /\ FilesOk'
    BY <1>2, LenIsNat DEF CloseHandle, IInv, FilesOk
  <2>3. TableStep
    <3>1. h \in Int
      BY DEF HandleNumbers
    <3>2. QED
      BY <1>2, <2>1, <3>1 DEF CloseHandle, TableStep, Started
  <2>4. CallsOk'
    BY <1>2, <2>2, CallsSame DEF CloseHandle
  <2>5. QED
    BY <2>2, <2>3, <2>4 DEF Good
<1>3. ASSUME NEW h, NEW to, Seek(p, h, to)
      PROVE  Good
  BY <1>3, QuietSame DEF Seek
<1>4. ASSUME NEW h, BeginReadLine(p, h)
      PROVE  Good
  BY <1>4, QuietCall DEF BeginReadLine, kernelVars
<1>5. ASSUME NEW h, NEW size, NEW wait, BeginReadBuffer(p, h, size, wait)
      PROVE  Good
  BY <1>5, QuietCall DEF BeginReadBuffer, kernelVars
<1>6. ASSUME NEW h, NEW text, BeginWrite(p, h, text)
      PROVE  Good
  BY <1>6, QuietCall DEF BeginWrite, kernelVars
<1>7. ASSUME NEW h, BeginWriteCurrent(p, h)
      PROVE  Good
  BY <1>7, QuietCall DEF BeginWriteCurrent, kernelVars
<1>8. ASSUME NEW h, BeginAccept(p, h)
      PROVE  Good
  <2> DEFINE d == FileAt(table[p], h)
  <2>1. d \in 1..Len(desc) /\ st[p] = "running"
    BY <1>8, FileAtIsFile, BeginFacts DEF BeginAccept
  <2>2. UNCHANGED <<st, table, desc, backlog>> /\ Becomes(p, [op |-> "accept", d |-> d])
    BY <1>8 DEF BeginAccept, kernelVars
  <2>3. CallsOk'
    BY <2>1, <2>2 DEF IInv, CallsOk, CallOk, Becomes
  <2>4. QED
    BY <2>2, <2>3, Quiet DEF Started
<1>9. ASSUME NEW path, NEW mode, NEW text, BeginWriteWhole(p, path, mode, text)
      PROVE  Good
  <2> DEFINE o == Mode(mode, name'[path].is)
             c == [op |-> "write", d |-> Len(desc) + 1, rest |-> text]
  <2>1. IsSeq(<<o>>) /\ Len(<<o>>) = 1
    BY ShortSeqs
  <2>2. Opened(<<o>>) /\ Becomes(p, c) /\ UNCHANGED <<st, table>>
    BY <1>9 DEF BeginWriteWhole
  <2>3. FilesOk' /\ Len(desc') = Len(desc) + 1 /\ Len(desc) \in Nat
    BY <2>1, <2>2, OpenedOk
  <2>4. "op" \in DOMAIN c /\ c.op # "accept"
    OBVIOUS
  <2>5. CallsOk'
    BY <2>2, <2>3, <2>4, CallsStay
  <2>6. QED
    BY <2>2, <2>3, <2>5 DEF Good, TableStep, Started
<1>10. ASSUME NEW path, DeleteFile(p, path)
       PROVE  Good
  BY <1>10, QuietSame DEF DeleteFile
<1>11. ASSUME NEW from, NEW to, RenameFile(p, from, to)
       PROVE  Good
  BY <1>11, QuietSame DEF RenameFile
<1>12. ASSUME Pipe(p)
       PROVE  Good
  <2> DEFINE s == Len(stream) + 1
             d == Len(desc) + 1
             fs == <<End(s, 0), End(0, s)>>
  <2>1. IsSeq(fs) /\ Len(fs) = 2
    BY ShortSeqs
  <2>2. /\ Opened(fs) /\ UNCHANGED <<call, st>> /\ p \in Started
        /\ table' = [table EXCEPT ![p] = Insert(Insert(@, d), d + 1)]
    BY <1>12, BeginFacts DEF Pipe
  <2> HIDE DEF fs
  <2>3. FilesOk' /\ Len(desc') = Len(desc) + 2 /\ Len(desc) \in Nat
    BY <2>1, <2>2, OpenedOk
  <2>4. d \in 1..Len(desc') /\ d + 1 \in 1..Len(desc')
    BY <2>3
  <2>5. TableStep
    BY <2>2, <2>4 DEF TableStep, Started
  <2>6. QED
    BY <2>2, <2>3, <2>5, CallsSame DEF Good
<1>13. ASSUME NEW addr, Listen(p, addr)
       PROVE  Good
  BY <1>13, BeginFacts, OpeningStep DEF Listen
<1>14. ASSUME NEW addr, Connect(p, addr)
       PROVE  Good
  <2> DEFINE l == ListenerAt(addr)
             s == Len(stream) + 1
             n == Len(desc)
             fs == <<End(s, s + 1), End(s + 1, s)>>
             old == [backlog EXCEPT ![l] = Append(@, n + 2)]
  <2>1. IsSeq(fs) /\ Len(fs) = 2
    BY ShortSeqs
  <2>2. /\ UNCHANGED <<call, st>> /\ p \in Started /\ desc' = desc \o fs
        /\ backlog' = [backlog EXCEPT ![l] = Append(@, n + 1 + 1)] \o <<<<>>, <<>>>>
        /\ table' = [table EXCEPT ![p] = Insert(@, n + 1)]
    BY <1>14, BeginFacts DEF Connect
  <2> HIDE DEF fs
  <2>3. IsSeq(desc') /\ Len(desc') = n + 2 /\ n \in Nat
    BY <2>1, <2>2, JoinIsSeq, LenIsNat DEF IInv, FilesOk
  <2>4. backlog \in Seq(Seq(1..(n + 2))) /\ Len(backlog) = n
    <3>1. 1..n \subseteq 1..(n + 2)
      BY <2>3
    <3>2. Seq(1..n) \subseteq Seq(1..(n + 2))
      BY <3>1, SeqMonotonic
    <3>3. QED
      BY <3>2, SeqMonotonic DEF IInv, FilesOk
  <2>5. old \in Seq(Seq(1..(n + 2))) /\ Len(old) = n
    <3>1. CASE l \in 1..n
      <4>1. Append(backlog[l], n + 2) \in Seq(1..(n + 2))
        BY <2>3, <2>4, <3>1
      <4>2. QED
        BY <2>4, <3>1, <4>1, ExceptSeq
    <3>2. CASE l \notin 1..n
      <4>1. DOMAIN backlog = 1..n /\ backlog = [k \in 1..n |-> backlog[k]]
        BY <2>4
      <4>2. old = backlog
        BY <3>2, <4>1
      <4>3. QED
        BY <2>4, <4>2
    <3>3. QED
      BY <3>1, <3>2
  <2>6. backlog' = old \o <<<<>>, <<>>>>
    BY <2>2, <2>3
  <2>7. <<<<>>, <<>>>> \in Seq(Seq(1..(n + 2))) /\ Len(<<<<>>, <<>>>>) = 2
    OBVIOUS
  <2> HIDE DEF old
  <2>8. backlog' \in Seq(Seq(1..(n + 2))) /\ Len(backlog') = n + 2
    BY <2>5, <2>6, <2>7, ConcatProperties
  <2>9. TableStep
    <3>1. n + 1 \in 1..Len(desc')
      BY <2>3
    <3>2. QED
      BY <2>2, <3>1 DEF TableStep, Started
  <2>10. QED
    BY <2>2, <2>3, <2>8, <2>9, CallsSame DEF Good, FilesOk
<1>15. ASSUME NEW text, BeginExec(p, text)
       PROVE  Good
  BY <1>15, QuietCall DEF BeginExec, kernelVars
<1>16. QED
  BY <1>1, <1>2, <1>3, <1>4, <1>5, <1>6, <1>7, <1>8, <1>9, <1>10, <1>11, <1>12,
     <1>13, <1>14, <1>15 DEF FileStep

LEMMA CallActions ==
  ASSUME IInv, NEW p \in Procs, CallStep(p)
  PROVE  Good
<1>0. CallOk(call[p]) /\ "op" \in DOMAIN Idle /\ Idle.op # "accept"
  BY DEF IInv, CallsOk, Idle
<1> DEFINE c == call[p]
<1>1. CASE ReadLineByte(p)
  <2>1. c.op = "line" /\ UNCHANGED <<st, table, desc, backlog>>
    BY <1>1 DEF ReadLineByte
  <2>2. \/ Becomes(p, Idle)
        \/ \E b : Becomes(p, [c EXCEPT !.text = LineAfter(@, b), !.got = TRUE])
    BY <1>1 DEF ReadLineByte
  <2>3. \A t : LET e == [c EXCEPT !.text = t, !.got = TRUE]
               IN  "op" \in DOMAIN e /\ e.op # "accept"
    BY <1>0, <2>1 DEF CallOk
  <2>4. QED
    BY <1>0, <2>1, <2>2, <2>3, QuietCall
<1>2. CASE ReadLineEnd(p)
  BY <1>0, <1>2, QuietCall DEF ReadLineEnd, kernelVars
<1>3. CASE ReadBufferStep(p)
  <2>1. c.op = "buffer" /\ UNCHANGED <<st, table, desc, backlog>>
    BY <1>3 DEF ReadBufferStep
  <2>2. Becomes(p, Idle) \/ \E t : Becomes(p, [c EXCEPT !.text = t])
    BY <1>3 DEF ReadBufferStep, EndReadBuffer
  <2>3. \A t : LET e == [c EXCEPT !.text = t]
               IN  "op" \in DOMAIN e /\ e.op # "accept"
    BY <1>0, <2>1 DEF CallOk
  <2>4. QED
    BY <1>0, <2>1, <2>2, <2>3, QuietCall
<1>4. CASE ReadBufferEnd(p)
  BY <1>0, <1>4, QuietCall DEF ReadBufferEnd, EndReadBuffer, kernelVars
<1>5. CASE WriteStep(p)
  <2>1. c.op = "write" /\ UNCHANGED <<st, table, desc, backlog>>
    BY <1>5 DEF WriteStep
  <2>2. Becomes(p, Idle) \/ \E t : Becomes(p, [c EXCEPT !.rest = t])
    BY <1>5 DEF WriteStep
  <2>3. \A t : LET e == [c EXCEPT !.rest = t]
               IN  "op" \in DOMAIN e /\ e.op # "accept"
    BY <1>0, <2>1 DEF CallOk
  <2>4. QED
    BY <1>0, <2>1, <2>2, <2>3, QuietCall
<1>6. CASE Accept(p)
  <2> DEFINE d == c.d
             n == Len(desc)
  <2>1. /\ c.op = "accept" /\ backlog[d] # <<>> /\ Becomes(p, Idle)
        /\ table' = [table EXCEPT ![p] = Insert(@, Head(backlog[d]))]
        /\ backlog' = [backlog EXCEPT ![d] = Tail(@)]
        /\ UNCHANGED <<st, desc>>
    BY <1>6 DEF Accept
  <2>2. /\ d \in 1..n /\ st[p] = "running" /\ n \in Nat /\ IsSeq(desc)
        /\ backlog \in Seq(Seq(1..n)) /\ Len(backlog) = n
    BY <2>1, LenIsNat DEF IInv, CallsOk, CallOk, FilesOk
  <2>3. backlog[d] \in Seq(1..n)
    BY <2>2
  <2>4. Head(backlog[d]) \in 1..n /\ Tail(backlog[d]) \in Seq(1..n)
    BY <2>1, <2>3, HeadTailProperties
  <2>5. backlog' \in Seq(Seq(1..n)) /\ Len(backlog') = n
    BY <2>1, <2>2, <2>4, ExceptSeq
  <2>6. TableStep
    BY <2>1, <2>2, <2>4 DEF TableStep, Started
  <2>7. CallsOk'
    BY <1>0, <2>1, <2>2, CallsStay
  <2>8. QED
    BY <2>1, <2>2, <2>5, <2>6, <2>7 DEF Good, FilesOk
<1>7. CASE ExecFeed(p)
  <2>1. c.op = "exec" /\ UNCHANGED <<st, table, desc, backlog>>
    BY <1>7 DEF ExecFeed, kernelVars
  <2>2. \E t, u : Becomes(p, [c EXCEPT !.rest = t, !.to = u])
    BY <1>7 DEF ExecFeed
  <2>3. \A t, u : LET e == [c EXCEPT !.rest = t, !.to = u]
                  IN  "op" \in DOMAIN e /\ e.op # "accept"
    BY <1>0, <2>1 DEF CallOk
  <2>4. QED
    BY <2>1, <2>2, <2>3, QuietCall
<1>8. CASE CommandStep(p)
  <2>1. c.op = "exec" /\ UNCHANGED <<st, table, desc, backlog>>
    BY <1>8 DEF CommandStep, kernelVars
  <2>2. \E t, u : Becomes(p, [c EXCEPT !.to = t, !.from = u])
    BY <1>8 DEF CommandStep
  <2>3. \A t, u : LET e == [c EXCEPT !.to = t, !.from = u]
                  IN  "op" \in DOMAIN e /\ e.op # "accept"
    BY <1>0, <2>1 DEF CallOk
  <2>4. QED
    BY <2>1, <2>2, <2>3, QuietCall
<1>9. CASE ExecDrain(p)
  <2>1. c.op = "exec" /\ UNCHANGED <<st, table, desc, backlog>>
    BY <1>9 DEF ExecDrain, kernelVars
  <2>2. Becomes(p, Idle) \/ Becomes(p, [c EXCEPT !.from = <<>>])
    BY <1>9 DEF ExecDrain
  <2>3. "op" \in DOMAIN [c EXCEPT !.from = <<>>] /\ [c EXCEPT !.from = <<>>].op # "accept"
    BY <1>0, <2>1 DEF CallOk
  <2>4. QED
    BY <1>0, <2>1, <2>2, <2>3, QuietCall
<1>10. QED
  BY <1>1, <1>2, <1>3, <1>4, <1>5, <1>6, <1>7, <1>8, <1>9 DEF CallStep

LEMMA MailActions ==
  ASSUME IInv, NEW p \in Procs, MailStep(p)
  PROVE  Good
<1>1. ASSUME NEW n, NEW text, Send(p, n, text)
      PROVE  Good
  BY <1>1, QuietSame DEF Send, kernelVars
<1>2. ASSUME NEW n, Receive(p, n)
      PROVE  Good
  BY <1>2, QuietSame DEF Receive, kernelVars
<1>3. CASE NewPage(p)
  BY <1>3, QuietSame DEF NewPage, kernelVars
<1>4. CASE PageWriteEnd(p)
  <2>1. "op" \in DOMAIN Idle /\ Idle.op # "accept"
    BY DEF Idle
  <2>2. QED
    BY <1>4, <2>1, QuietCall DEF PageWriteEnd, kernelVars
<1>5. CASE PageReadEnd(p)
  <2>1. "op" \in DOMAIN Idle /\ Idle.op # "accept"
    BY DEF Idle
  <2>2. QED
    BY <1>5, <2>1, QuietCall DEF PageReadEnd, kernelVars
<1>6. ASSUME NEW k, NEW text, BeginPageWrite(p, k, text)
      PROVE  Good
  <2>1. /\ UNCHANGED <<st, table, desc, backlog>>
        /\ call' = [q \in Procs |->
             IF q = p THEN [op |-> "page-write", k |-> k, text |-> text]
             ELSE IF call[q].op = "page-read" THEN [call[q] EXCEPT !.quiet = FALSE]
             ELSE call[q]]
    BY <1>6 DEF BeginPageWrite, kernelVars
  <2>2. ASSUME NEW q \in Procs
        PROVE  "op" \in DOMAIN call'[q] /\ (call'[q].op = "accept" => call'[q] = call[q])
    <3>1. CASE q = p
      BY <2>1, <3>1
    <3>2. CASE q # p /\ call[q].op = "page-read"
      <4>1. call'[q] = [call[q] EXCEPT !.quiet = FALSE] /\ "op" \in DOMAIN call[q]
        BY <2>1, <3>2 DEF IInv, CallsOk, CallOk
      <4>2. QED
        BY <3>2, <4>1
    <3>3. CASE q # p /\ call[q].op # "page-read"
      <4>1. call'[q] = call[q]
        BY <2>1, <3>3
      <4>2. QED
        BY <4>1 DEF IInv, CallsOk, CallOk
    <3>4. QED
      BY <3>1, <3>2, <3>3
  <2>3. CallsOk'
    BY <2>1, <2>2 DEF IInv, CallsOk, CallOk
  <2>4. QED
    BY <2>1, <2>3, Quiet DEF Started
<1>7. ASSUME NEW k, BeginPageRead(p, k)
      PROVE  Good
  BY <1>7, QuietCall DEF BeginPageRead, kernelVars
<1>8. QED
  BY <1>1, <1>2, <1>3, <1>4, <1>5, <1>6, <1>7 DEF MailStep

\* A new process starts with a copy of the table.
LEMMA ChildStep ==
  ASSUME IInv, NEW p \in Started, NEW q \in Procs, NEW how, Child(p, q, how)
  PROVE  Good
<1>1. /\ st[q] = "unborn" /\ st' = [st EXCEPT ![q] = "running"]
      /\ table' = [table EXCEPT ![q] = table[p]]
      /\ UNCHANGED <<desc, backlog, call>>
  BY DEF Child
<1>2. DOMAIN st = Procs
  BY DEF IInv, CallsOk
<1>3. q \in Procs \ Started /\ Started' = Started \cup {q}
  BY <1>1, <1>2 DEF Started
<1>4. TableStep
  BY <1>1, <1>3 DEF TableStep
<1>5. CallsOk'
  BY <1>1, <1>2 DEF IInv, CallsOk, CallOk
<1>6. FilesOk' /\ Len(desc) <= Len(desc')
  BY <1>1, LenIsNat DEF IInv, FilesOk
<1>7. QED
  BY <1>4, <1>5, <1>6 DEF Good

LEMMA EndStep ==
  ASSUME IInv, NEW p \in Procs, st[p] # "unborn", Dies(p)
  PROVE  Good
<1>1. /\ st' = [st EXCEPT ![p] = "gone"] /\ Becomes(p, Idle)
      /\ UNCHANGED <<table, desc, backlog>> /\ DOMAIN st = Procs
  BY DEF Dies, IInv, CallsOk
<1>2. Started' = Started
  BY <1>1 DEF Started
<1>3. "op" \in DOMAIN Idle /\ Idle.op # "accept"
  BY DEF Idle
<1>4. CallsOk'
  BY <1>1, <1>3 DEF IInv, CallsOk, CallOk, Becomes
<1>5. QED
  BY <1>1, <1>2, <1>4, Quiet

\* A child that ends by itself, or is aborted.
LEMMA EndSteps ==
  ASSUME NEW p \in Procs
  PROVE  /\ Exit(p) => st[p] # "unborn" /\ Dies(p) /\ UNCHANGED chans
         /\ \A q \in Procs : Abort(p, q) =>
              st[p] = "running" /\ st[q] # "unborn" /\ Dies(q) /\ AbortChannels(p, pid[q])
BY DEF Exit, Abort, Begin, Running

\* A step that makes a TableStep leaves every table in order.
LEMMA TablesFollow ==
  ASSUME IInv, Good
  PROVE  HandlesOk'
<1> DEFINE old == 1..Len(desc)
           new == 1..Len(desc')
<1>0. /\ Len(desc) \in Nat /\ Len(desc') \in Nat /\ old \subseteq new
      /\ new \in SUBSET File
  BY LenIsNat DEF IInv, FilesOk, Good, File
<1>1. /\ DOMAIN table = Procs
      /\ \A p \in Procs : IsTable(table[p], new) /\ TableOk(table[p])
  BY <1>0, TableGrows DEF IInv, HandlesOk
<1>2. CASE table' = table
  BY <1>1, <1>2 DEF HandlesOk
<1>3. ASSUME NEW p \in Procs, NEW t, table' = [table EXCEPT ![p] = t],
             IsTable(t, new), TableOk(t)
      PROVE  HandlesOk'
  BY <1>1, <1>3 DEF HandlesOk
<1>4. ASSUME NEW p \in Procs, NEW f \in new,
             table' = [table EXCEPT ![p] = Insert(@, f)]
      PROVE  HandlesOk'
  <2>1. IsTable(Insert(table[p], f), new) /\ TableOk(Insert(table[p], f))
    BY <1>0, <1>1, InsertOk
  <2>2. QED
    BY <1>1, <1>3, <1>4, <2>1
<1>5. ASSUME NEW p \in Procs, NEW f \in new, NEW g \in new,
             table' = [table EXCEPT ![p] = Insert(Insert(@, f), g)]
      PROVE  HandlesOk'
  <2> DEFINE t == Insert(table[p], f)
  <2>1. IsTable(t, new) /\ TableOk(t)
    BY <1>0, <1>1, InsertOk
  <2>2. IsTable(Insert(t, g), new) /\ TableOk(Insert(t, g))
    BY <1>0, <2>1, InsertOk
  <2>3. QED
    BY <1>1, <1>3, <1>5, <2>2
<1>6. ASSUME NEW p \in Procs, NEW h, table' = [table EXCEPT ![p] = Close(@, h)]
      PROVE  HandlesOk'
  <2>1. IsTable(Close(table[p], h), new) /\ TableOk(Close(table[p], h))
    BY <1>0, <1>1, CloseOk
  <2>2. QED
    BY <1>1, <1>3, <1>6, <2>1
<1>7. ASSUME NEW p \in Procs, NEW q \in Procs, table' = [table EXCEPT ![q] = table[p]]
      PROVE  HandlesOk'
  BY <1>1, <1>3, <1>7
<1>8. QED
  BY <1>2, <1>4, <1>5, <1>6, <1>7 DEF Good, TableStep, Started

LEMMA NextGood ==
  ASSUME IInv, Next
  PROVE  Good
<1> PICK p \in Procs :
       \/ (FileStep(p) \/ CallStep(p)) /\ UNCHANGED mailVars
       \/ MailStep(p)
       \/ \E q \in Procs : \/ Fork(p, q) \/ Abort(p, q)
                          \/ \E flag \in BOOLEAN : Spawn(p, q, flag)
       \/ Exit(p)
  BY DEF Next
<1>1. CASE FileStep(p) \/ CallStep(p)
  BY <1>1, FileActions, CallActions
<1>2. CASE MailStep(p)
  BY <1>2, MailActions
<1>3. ASSUME NEW q \in Procs, Fork(p, q)
      PROVE  Good
  BY <1>3, BeginFacts, ChildStep DEF Fork
<1>4. ASSUME NEW q \in Procs, NEW flag, Spawn(p, q, flag)
      PROVE  Good
  BY <1>4, BeginFacts, ChildStep DEF Spawn
<1>5. CASE Exit(p)
  BY <1>5, EndSteps, EndStep
<1>6. ASSUME NEW q \in Procs, Abort(p, q)
      PROVE  Good
  BY <1>6, EndSteps, EndStep
<1>7. QED
  BY <1>1, <1>2, <1>3, <1>4, <1>5, <1>6

LEMMA InitInv == Init => IInv
<1> SUFFICES ASSUME Init PROVE IInv
  OBVIOUS
<1>1. desc = <<>> /\ backlog = <<>> /\ <<>> \in Seq({}) /\ Len(<<>>) = 0
      /\ <<>> \in Seq(Seq(1..0))
  BY DEF Init
<1>2. FilesOk
  BY <1>1 DEF FilesOk, IsSeq
<1>3. HandlesOk
  BY NewTableOk DEF Init, HandlesOk
<1>4. CallsOk
  BY DEF Init, CallsOk, CallOk, Idle
<1>5. QED
  BY <1>2, <1>3, <1>4 DEF IInv

LEMMA InvStep == IInv /\ [Next]_vars => IInv'
<1> SUFFICES ASSUME IInv, [Next]_vars PROVE IInv'
  OBVIOUS
<1>1. CASE Next
  BY <1>1, NextGood, TablesFollow DEF Good, IInv
<1>2. CASE UNCHANGED vars
  BY <1>2 DEF vars, kernelVars, ioVars, IInv, FilesOk, HandlesOk, CallsOk, CallOk
<1>3. QED
  BY <1>1, <1>2

\* In every reachable state of every program, in each process the free list
\* holds exactly the closed handles, each once: two open files never share a
\* handle (FileTable::insert, FileTable::close).
THEOREM TablesCorrect == Spec => []TablesOk
<1>1. IInv => TablesOk
  BY DEF IInv, HandlesOk, TablesOk
<1>2. QED
  BY <1>1, InitInv, InvStep, PTL DEF Spec

-----------------------------------------------------------------------------
(* The tables implement HandleMap.                                          *)

\* m2 has the handles of m1, for the same files, and perhaps new ones.
Extends(m1, m2) ==
  /\ DOMAIN m1 \subseteq DOMAIN m2
  /\ \A h \in DOMAIN m1 : m2[h] = m1[h]
  /\ \A h \in DOMAIN m2 \ DOMAIN m1 : h >= 3 /\ m2[h] \in File

LEMMA InsertExtends ==
  ASSUME NEW files \in SUBSET File, NEW t, IsTable(t, files), TableOk(t), NEW f \in files
  PROVE  Extends(MapOf(t), MapOf(Insert(t, f)))
<1> DEFINE u == Insert(t, f)
           n == NextHandle(t)
<1>1. /\ FileAt(t, n) = NoFile /\ n >= 3 /\ Handles(u) = Handles(t) \cup {n}
      /\ \A h \in Handles(u) : FileAt(u, h) = IF h = n THEN f ELSE FileAt(t, h)
  BY InsertOk
<1>2. f \in File /\ f # NoFile
  BY DEF File, NoFile
<1> HIDE DEF u, n
<1>3. \A v : /\ DOMAIN MapOf(v) = {g \in Handles(v) : FileAt(v, g) # NoFile}
            /\ \A g \in DOMAIN MapOf(v) : MapOf(v)[g] = FileAt(v, g)
  BY DEF MapOf
<1>4. DOMAIN MapOf(u) = DOMAIN MapOf(t) \cup {n} /\ n \notin DOMAIN MapOf(t)
  <2>1. DOMAIN MapOf(t) = {g \in Handles(t) : FileAt(t, g) # NoFile}
    BY DEF MapOf
  <2>2. DOMAIN MapOf(u) = {g \in Handles(u) : FileAt(u, g) # NoFile}
    BY DEF MapOf
  <2>3. \A g : g \in DOMAIN MapOf(u) <=> g \in DOMAIN MapOf(t) \/ g = n
    BY <1>1, <1>2, <2>1, <2>2
  <2>4. QED
    BY <1>1, <2>1, <2>3
<1>5. \A g \in DOMAIN MapOf(t) : MapOf(u)[g] = MapOf(t)[g]
  BY <1>1, <1>3, <1>4
<1>6. MapOf(u)[n] = f
  BY <1>1, <1>3, <1>4
<1>7. QED
  BY <1>1, <1>2, <1>4, <1>5, <1>6 DEF Extends, u

LEMMA ExtendsTwice ==
  ASSUME NEW m1, NEW m2, NEW m3, Extends(m1, m2), Extends(m2, m3)
  PROVE  Extends(m1, m3)
BY DEF Extends

\* A TableStep is a step of HandleMap, or none.
LEMMA TableStepMaps ==
  ASSUME IInv, Good
  PROVE  [Abstract!Next]_<<[p \in Procs |-> MapOf(table[p])], Started>>
<1> DEFINE M == [p \in Procs |-> MapOf(table[p])]
           N == [p \in Procs |-> MapOf(table'[p])]
           new == 1..Len(desc')
<1>0. /\ new \in SUBSET File /\ DOMAIN table = Procs
      /\ \A p \in Procs : IsTable(table[p], new) /\ TableOk(table[p])
  <2>1. Len(desc) \in Nat /\ Len(desc') \in Nat /\ 1..Len(desc) \subseteq new
    BY LenIsNat DEF IInv, FilesOk, Good
  <2>2. new \in SUBSET File
    BY <2>1 DEF File
  <2>3. QED
    BY <2>1, <2>2, TableGrows DEF IInv, HandlesOk
<1>1. CASE Started' = Started /\ table' = table
  BY <1>1
<1>2. ASSUME Started' = Started, NEW p \in Started, NEW t, Extends(M[p], MapOf(t)),
             table' = [table EXCEPT ![p] = t]
      PROVE  Abstract!Opens(p)
  <2>1. N = [M EXCEPT ![p] = MapOf(t)] /\ p \in Procs
    BY <1>0, <1>2 DEF Started
  <2> HIDE DEF M, N
  <2>2. \A q \in Procs \ {p} : N[q] = M[q]
    BY <2>1 DEF M
  <2>3. N[p] = MapOf(t)
    BY <2>1 DEF M
  <2>4. QED
    BY <1>2, <2>2, <2>3 DEF Abstract!Opens, Extends, M, N, Started
<1>3. ASSUME Started' = Started, NEW p \in Started, NEW f \in new,
             table' = [table EXCEPT ![p] = Insert(@, f)]
      PROVE  Abstract!Opens(p)
  <2>1. p \in Procs /\ M[p] = MapOf(table[p])
    BY DEF Started
  <2>2. Extends(M[p], MapOf(Insert(table[p], f)))
    BY <1>0, <2>1, InsertExtends
  <2>3. table' = [table EXCEPT ![p] = Insert(table[p], f)]
    BY <1>0, <1>3, <2>1
  <2>4. QED
    BY <1>2, <1>3, <2>2, <2>3
<1>4. ASSUME Started' = Started, NEW p \in Started, NEW f \in new, NEW g \in new,
             table' = [table EXCEPT ![p] = Insert(Insert(@, f), g)]
      PROVE  Abstract!Opens(p)
  <2> DEFINE t == Insert(table[p], f)
  <2>1. p \in Procs /\ M[p] = MapOf(table[p])
    BY DEF Started
  <2>2. IsTable(t, new) /\ TableOk(t) /\ Extends(M[p], MapOf(t))
    BY <1>0, <2>1, InsertOk, InsertExtends
  <2> HIDE DEF M
  <2>3. Extends(M[p], MapOf(Insert(t, g)))
    BY <1>0, <2>2, InsertExtends, ExtendsTwice
  <2>4. table' = [table EXCEPT ![p] = Insert(t, g)]
    BY <1>0, <1>4, <2>1
  <2>5. QED
    BY <1>2, <1>4, <2>3, <2>4
<1>5. ASSUME Started' = Started, NEW p \in Started, NEW h,
             table' = [table EXCEPT ![p] = Close(@, h)]
      PROVE  UNCHANGED <<M, Started>> \/ Abstract!Closes(p)
  <2> DEFINE t == table[p]
             u == Close(t, h)
  <2>1. p \in Procs /\ M[p] = MapOf(t) /\ IsTable(t, new) /\ TableOk(t)
    BY <1>0 DEF Started
  <2>2. N = [M EXCEPT ![p] = MapOf(u)]
    BY <1>0, <1>5, <2>1
  <2>3. CASE FileAt(t, h) = NoFile
    <3>1. u = t
      BY <2>3 DEF Close
    <3>2. N = M
      BY <2>1, <2>2, <3>1
    <3>3. QED
      BY <1>5, <3>2
  <2>4. CASE FileAt(t, h) # NoFile
    <3>1. /\ Handles(u) = Handles(t) /\ h \in Handles(t)
          /\ \A g \in Handles(t) : FileAt(u, g) = IF g = h THEN NoFile ELSE FileAt(t, g)
      BY <1>0, <2>1, <2>4, CloseOk DEF FileAt
    <3>2. h \in DOMAIN MapOf(t)
      BY <2>4, <3>1 DEF MapOf
    <3> HIDE DEF u
    <3>3. {g \in Handles(u) : FileAt(u, g) # NoFile} = DOMAIN MapOf(t) \ {h}
      BY <3>1 DEF MapOf
    <3>4. MapOf(u) = [g \in DOMAIN MapOf(t) \ {h} |-> MapOf(t)[g]]
      <4>1. MapOf(u) = [g \in DOMAIN MapOf(t) \ {h} |-> FileAt(u, g)]
        BY <3>3 DEF MapOf
      <4>2. \A g \in DOMAIN MapOf(t) \ {h} : FileAt(u, g) = MapOf(t)[g]
        BY <3>1 DEF MapOf
      <4>3. QED
        BY <4>1, <4>2
    <3>5. N = [M EXCEPT ![p] = [g \in DOMAIN @ \ {h} |-> @[g]]] /\ h \in DOMAIN M[p]
      BY <2>1, <2>2, <3>2, <3>4
    <3>6. QED
      BY <1>5, <3>5 DEF Abstract!Closes, Started
  <2>5. QED
    BY <2>3, <2>4
<1>6. ASSUME NEW p \in Started, NEW q \in Procs \ Started,
             Started' = Started \cup {q}, table' = [table EXCEPT ![q] = table[p]]
      PROVE  Abstract!Forks(p)
  <2>1. p \in Procs /\ M[p] = MapOf(table[p])
    BY DEF Started
  <2>2. N = [M EXCEPT ![q] = M[p]]
    BY <1>0, <1>6, <2>1
  <2>3. QED
    BY <1>6, <2>2 DEF Abstract!Forks, Started
<1>7. QED
  <2>1. ASSUME NEW p \in Started, Abstract!Opens(p) \/ Abstract!Closes(p) \/ Abstract!Forks(p)
        PROVE  Abstract!Next
    BY <2>1 DEF Abstract!Next, Started
  <2>2. CASE \E p \in Started :
               /\ Started' = Started
               /\ \/ \E f \in new : table' = [table EXCEPT ![p] = Insert(@, f)]
                  \/ \E f, g \in new : table' = [table EXCEPT ![p] = Insert(Insert(@, f), g)]
                  \/ \E h \in Int : table' = [table EXCEPT ![p] = Close(@, h)]
    BY <1>3, <1>4, <1>5, <2>1, <2>2
  <2>3. CASE \E p \in Started, q \in Procs \ Started :
               Started' = Started \cup {q} /\ table' = [table EXCEPT ![q] = table[p]]
    BY <1>6, <2>1, <2>3
  <2>4. QED
    BY <1>1, <2>2, <2>3 DEF Good, TableStep

\* Whatever programs open, close and fork, handles are the map HandleMap says
\* they are: no call takes or moves a handle in use (fileio.rs FileTable,
\* process.rs sf_fork).
THEOREM TablesImplementHandleMap == Spec => ImplementsHandleMap
<1>1. Init => Abstract!Init
  <2> SUFFICES ASSUME Init PROVE Abstract!Init
    OBVIOUS
  <2>1. {p \in Procs : st[p] # "unborn"} = {Root}
    BY RootAssumption DEF Init
  <2>2. MapOf(NewTable) = Abstract!Empty
    <3>1. {g \in Handles(NewTable) : FileAt(NewTable, g) # NoFile} = {}
      BY DEF Handles, NewTable, FileAt
    <3>2. QED
      BY <3>1 DEF MapOf, Abstract!Empty
  <2>3. [p \in Procs |-> MapOf(table[p])] = [p \in Procs |-> Abstract!Empty]
    BY <2>2 DEF Init
  <2>4. QED
    BY <2>1, <2>3 DEF Abstract!Init
<1>2. IInv /\ [Next]_vars =>
        [Abstract!Next]_<<[p \in Procs |-> MapOf(table[p])], {p \in Procs : st[p] # "unborn"}>>
  <2> SUFFICES ASSUME IInv, [Next]_vars
               PROVE  [Abstract!Next]_<<[p \in Procs |-> MapOf(table[p])],
                                       {p \in Procs : st[p] # "unborn"}>>
    OBVIOUS
  <2>1. CASE Next
    BY <2>1, NextGood, TableStepMaps DEF Started
  <2>2. CASE UNCHANGED vars
    BY <2>2 DEF vars, kernelVars
  <2>3. QED
    BY <2>1, <2>2
<1>3. QED
  BY <1>1, <1>2, InitInv, InvStep, PTL DEF Spec, ImplementsHandleMap, Abstract!Spec

-----------------------------------------------------------------------------
(* Numbers and sequences. *)

LEMMA MinOfTwo ==
  ASSUME NEW a \in Int, NEW b \in Int
  PROVE  Min({a, b}) \in {a, b} /\ Min({a, b}) <= a /\ Min({a, b}) <= b
<1>1. \E x \in {a, b} : \A y \in {a, b} : x <= y
  OBVIOUS
<1>2. QED
  BY <1>1 DEF Min

LEMMA MaxOfTwo ==
  ASSUME NEW a \in Int, NEW b \in Int
  PROVE  Max({a, b}) \in {a, b} /\ Max({a, b}) >= a /\ Max({a, b}) >= b
<1>1. \E x \in {a, b} : \A y \in {a, b} : x >= y
  OBVIOUS
<1>2. QED
  BY <1>1 DEF Max

LEMMA MinOfSome ==
  ASSUME NEW T \in SUBSET Nat, T # {}
  PROVE  Min(T) \in T
BY LeastElement DEF Min

\* A part of a sequence is a sequence of the same elements.
LEMMA PartOfSeq ==
  ASSUME NEW S, NEW s \in Seq(S), NEW m \in Nat \ {0}, NEW n \in Nat, n <= Len(s)
  PROVE  /\ SubSeq(s, m, n) \in Seq(S)
         /\ Len(SubSeq(s, m, n)) = IF m <= n THEN n - m + 1 ELSE 0
         /\ \A i \in 1..Len(SubSeq(s, m, n)) : SubSeq(s, m, n)[i] = s[m + i - 1]
<1>1. \A i \in m..n : s[i] \in S
  OBVIOUS
<1>2. m \in Int /\ n \in Int
  OBVIOUS
<1>3. /\ SubSeq(s, m, n) \in Seq(S)
      /\ Len(SubSeq(s, m, n)) = IF m <= n THEN n - m + 1 ELSE 0
      /\ \A i \in 1..n - m + 1 : SubSeq(s, m, n)[i] = s[m + i - 1]
  BY <1>1, <1>2, SubSeqProperties
<1>4. QED
  BY <1>3

\* An element set where there is none changes nothing.
LEMMA ExceptAnywhere ==
  ASSUME NEW S, NEW s \in Seq(S), NEW i, NEW e, i \in 1..Len(s) => e \in S
  PROVE  [s EXCEPT ![i] = e] \in Seq(S) /\ Len([s EXCEPT ![i] = e]) = Len(s)
<1>1. CASE i \in 1..Len(s)
  BY <1>1, ExceptSeq
<1>2. CASE i \notin 1..Len(s)
  <2>1. DOMAIN s = 1..Len(s) /\ s = [k \in 1..Len(s) |-> s[k]]
    OBVIOUS
  <2>2. [s EXCEPT ![i] = e] = s
    BY <1>2, <2>1
  <2>3. QED
    BY <2>2
<1>3. QED
  BY <1>1, <1>2

-----------------------------------------------------------------------------
(* The state has the shape TypeOK says, and calls, messages and pages have  *)
(* theirs.                                                                  *)

Modes == {"read", "write", "append", "update"}

OpenFiles(files, streams) ==
  [kind : {"file"}, inode : 1..files, mode : Modes, app : BOOLEAN]
  \cup [kind : {"stream"}, rx : 0..streams, tx : 0..streams]
  \cup {Listener}

\* Only a file opened to append is written at its end.
AppendsExactly(file) == file.kind = "file" => file.app = (file.mode = "append")

FilesTyped ==
  /\ inode \in Seq(ByteSeq)
  /\ stream \in Seq(ByteSeq)
  /\ \A s \in 1..Len(stream) : Len(stream[s]) <= Capacity
  /\ desc \in Seq(OpenFiles(Len(inode), Len(stream)))
  /\ \A d \in 1..Len(desc) : AppendsExactly(desc[d])
  /\ pos \in Seq(Nat) /\ Len(pos) = Len(desc)
  /\ name \in [Paths -> [kind : {"none", "file", "socket"}, is : Nat]]
  /\ \A f \in Paths : name[f].kind = "file" => name[f].is \in 1..Len(inode)

HistTyped == IsSeq(hist) /\ Len(hist) = Len(stream)

\* The calls there are when so many files and pages exist.
Call(files, shared) ==
  {Idle}
  \cup [op : {"line"}, d : 1..files, text : ByteSeq, got : BOOLEAN]
  \cup [op : {"buffer"}, d : 1..files, size : 1..3, wait : {<<>>, <<NL>>}, text : ByteSeq]
  \cup [op : {"write"}, d : 1..files, rest : ByteSeq]
  \cup [op : {"accept"}, d : 1..files]
  \cup [op : {"exec"}, rest : ByteSeq, to : ByteSeq, from : ByteSeq, all : ByteSeq]
  \cup [op : {"page-write"}, k : 1..shared, text : ByteSeq]
  \cup [op : {"page-read"}, k : 1..shared, n : Nat, quiet : BOOLEAN]

CallsTyped ==
  /\ st \in [Procs -> {"unborn", "running", "gone"}]
  /\ DOMAIN call = Procs
  /\ \A p \in Procs : call[p] \in Call(Len(desc), Len(page))
  /\ \A p \in Procs : st[p] # "running" => call[p] = Idle
  /\ line \in [Procs -> ByteSeq] /\ buf \in [Procs -> ByteSeq]

Number == Pids \cup {0, 1}
Datagram == [by : Procs, pid : Number, to : Number, text : ByteSeq]

MailTyped ==
  /\ pid \in [Procs -> Number] /\ DOMAIN made = Procs
  /\ mail \in Seq([1..2 -> Seq(Datagram)])
  /\ \A k \in 1..Len(mail), e \in 1..2 : Bytes(mail[k][e]) <= MailBytes
  /\ chans \in [Procs -> Seq([pid : Number, end : (1..Len(mail)) \X (1..2)])]
  /\ inbox \in [Procs -> Seq([as : Number, mail : Datagram])]

Page == [len : Nat, bytes : ByteSeq, last : ByteSeq, mixed : BOOLEAN]

PagesTyped ==
  /\ page \in Seq(Page)
  /\ pages \in [Procs -> SUBSET (1..Len(page))]

Typed == FilesTyped /\ HistTyped /\ CallsTyped /\ MailTyped /\ PagesTyped

LEMMA BytesAndTexts ==
  /\ NL \in Byte /\ CR \in Byte /\ Zero \in Byte
  /\ Texts \subseteq ByteSeq /\ <<>> \in ByteSeq
<1>1. ASSUME NEW text \in Texts
      PROVE  text \in ByteSeq
  <2>1. text \in Seq(ToSet(text)) /\ ToSet(text) \subseteq Byte
    BY TextsAssumption DEF Byte
  <2>2. QED
    BY <2>1, SeqMonotonic DEF ByteSeq
<1>2. QED
  BY <1>1 DEF Byte, ByteSeq

LEMMA LensAreNat ==
  ASSUME IInv, Typed
  PROVE  /\ Len(desc) \in Nat /\ Len(inode) \in Nat /\ Len(stream) \in Nat
         /\ Len(page) \in Nat /\ Len(mail) \in Nat /\ Len(hist) \in Nat
BY LenIsNat DEF IInv, FilesOk, Typed, FilesTyped, HistTyped, PagesTyped, MailTyped

LEMMA OpenFilesGrow ==
  ASSUME NEW f1 \in Nat, NEW f2 \in Nat, f1 <= f2, NEW s1 \in Nat, NEW s2 \in Nat, s1 <= s2
  PROVE  OpenFiles(f1, s1) \subseteq OpenFiles(f2, s2)
<1>1. 1..f1 \subseteq 1..f2 /\ 0..s1 \subseteq 0..s2
  OBVIOUS
<1>2. QED
  BY <1>1 DEF OpenFiles

LEMMA CallGrows ==
  ASSUME NEW f1 \in Nat, NEW f2 \in Nat, f1 <= f2, NEW k1 \in Nat, NEW k2 \in Nat, k1 <= k2
  PROVE  Call(f1, k1) \subseteq Call(f2, k2)
<1>1. 1..f1 \subseteq 1..f2 /\ 1..k1 \subseteq 1..k2
  OBVIOUS
<1>2. QED
  BY <1>1 DEF Call

\* A process that runs begins, goes on with or ends a call.
LEMMA CallMade ==
  ASSUME IInv, Typed, NEW p \in Procs, st[p] = "running", UNCHANGED <<st, page>>,
         Len(desc') \in Nat, Len(desc) <= Len(desc'),
         NEW c \in Call(Len(desc'), Len(page)), Becomes(p, c),
         line' \in [Procs -> ByteSeq], buf' \in [Procs -> ByteSeq]
  PROVE  CallsTyped'
<1>1. /\ Call(Len(desc), Len(page)) \subseteq Call(Len(desc'), Len(page'))
      /\ c \in Call(Len(desc'), Len(page'))
  BY LensAreNat, CallGrows
<1>2. /\ DOMAIN call' = Procs /\ call'[p] = c
      /\ \A q \in Procs : q # p => call'[q] = call[q]
  BY DEF Becomes, Typed, CallsTyped
<1>3. ASSUME NEW q \in Procs
      PROVE  /\ call'[q] \in Call(Len(desc'), Len(page'))
             /\ st'[q] # "running" => call'[q] = Idle
  BY <1>1, <1>2 DEF Typed, CallsTyped
<1>4. QED
  BY <1>2, <1>3 DEF Typed, CallsTyped

LEMMA CallsKept ==
  ASSUME IInv, Typed, UNCHANGED <<st, call, line, buf>>, Len(desc') \in Nat,
         Len(desc) <= Len(desc'), Len(page') \in Nat, Len(page) <= Len(page')
  PROVE  CallsTyped'
<1>1. Call(Len(desc), Len(page)) \subseteq Call(Len(desc'), Len(page'))
  BY LensAreNat, CallGrows
<1>2. QED
  BY <1>1 DEF Typed, CallsTyped

LEMMA FilesKept ==
  ASSUME Typed, UNCHANGED <<inode, stream, desc, pos, name>>
  PROVE  FilesTyped'
BY DEF Typed, FilesTyped

LEMMA HistKept ==
  ASSUME Typed, UNCHANGED <<stream, hist>>
  PROVE  HistTyped'
BY DEF Typed, HistTyped

\* The history of a stream is set; the others stay.
LEMMA HistSet ==
  ASSUME Typed, NEW s, NEW e, hist' = [hist EXCEPT ![s] = e]
  PROVE  IsSeq(hist') /\ Len(hist') = Len(hist)
<1>1. PICK S : hist \in Seq(S)
  BY DEF Typed, HistTyped, IsSeq
<1>2. hist \in Seq(S \cup {e})
  BY <1>1, SeqMonotonic
<1>3. hist' \in Seq(S \cup {e}) /\ Len(hist') = Len(hist)
  BY <1>2, ExceptAnywhere
<1>4. QED
  BY <1>3 DEF IsSeq

\* The kinds of open files.
LEMMA FileKinds ==
  ASSUME IInv, Typed, NEW d \in 1..Len(desc)
  PROVE  /\ desc[d].kind \in {"file", "stream", "listener"}
         /\ desc[d].kind = "file" =>
              /\ desc[d].inode \in 1..Len(inode) /\ desc[d].mode \in Modes
              /\ desc[d].app = (desc[d].mode = "append")
         /\ desc[d].kind = "stream" =>
              desc[d].rx \in 0..Len(stream) /\ desc[d].tx \in 0..Len(stream)
<1>1. desc[d] \in OpenFiles(Len(inode), Len(stream)) /\ AppendsExactly(desc[d])
  BY DEF Typed, FilesTyped
<1>2. QED
  BY <1>1 DEF OpenFiles, AppendsExactly, Listener

\* What can be read of an open file are bytes.
LEMMA AvailIsBytes ==
  ASSUME IInv, Typed, NEW d \in 1..Len(desc)
  PROVE  Avail(d) \in ByteSeq
<1>1. CASE desc[d].kind = "file" /\ desc[d].mode \in {"read", "update"}
  <2> DEFINE content == inode[desc[d].inode]
  <2>1. content \in ByteSeq /\ pos[d] \in Nat
    BY <1>1, FileKinds DEF Typed, FilesTyped
  <2>2. SubSeq(content, pos[d] + 1, Len(content)) \in ByteSeq
    BY <2>1, PartOfSeq DEF ByteSeq
  <2>3. QED
    BY <1>1, <2>2 DEF Avail
<1>2. CASE desc[d].kind = "stream" /\ desc[d].rx # 0
  <2>1. desc[d].rx \in 1..Len(stream)
    BY <1>2, FileKinds, LensAreNat
  <2>2. QED
    BY <1>2, <2>1 DEF Typed, FilesTyped, Avail
<1>3. QED
  BY <1>1, <1>2, FileKinds, BytesAndTexts DEF Avail

\* The bytes taken from what can be read.
LEMMA TakenIsBytes ==
  ASSUME NEW s \in ByteSeq, NEW n \in Nat, n <= Len(s)
  PROVE  SubSeq(s, 1, n) \in ByteSeq /\ SubSeq(s, n + 1, Len(s)) \in ByteSeq
         /\ Len(SubSeq(s, n + 1, Len(s))) <= Len(s)
BY PartOfSeq DEF ByteSeq

-----------------------------------------------------------------------------
(* What the operations of the kernel do to files and streams.               *)

LEMMA NamedFile ==
  ASSUME Typed, NEW path \in Paths, name[path].kind = "file"
  PROVE  name[path].is \in 1..Len(inode)
BY DEF Typed, FilesTyped

\* Opening by name leaves files where they are and names one of them.
LEMMA OpenPathOk ==
  ASSUME IInv, Typed, NEW path \in Paths, NEW mode \in Modes, OpenPath(path, mode)
  PROVE  /\ inode' \in Seq(ByteSeq) /\ Len(inode') \in Nat /\ Len(inode) <= Len(inode')
         /\ name' \in [Paths -> [kind : {"none", "file", "socket"}, is : Nat]]
         /\ \A f \in Paths : name'[f].kind = "file" => name'[f].is \in 1..Len(inode')
         /\ name'[path].is \in 1..Len(inode')
<1> DEFINE new == Len(inode) + 1
           i == IF name[path].kind = "file" THEN name[path].is ELSE new
<1>1. /\ name' = [name EXCEPT ![path] = [kind |-> "file", is |-> i]]
      /\ inode' = IF i = new THEN Append(inode, <<>>)
                  ELSE IF mode = "write" THEN [inode EXCEPT ![i] = <<>>]
                  ELSE inode
  BY DEF OpenPath
<1>2. inode \in Seq(ByteSeq) /\ Len(inode) \in Nat /\ new \in Nat
  BY LensAreNat DEF Typed, FilesTyped
<1>3. i \in 1..new /\ (i # new => i \in 1..Len(inode))
  BY <1>2, NamedFile
<1> HIDE DEF i
<1>4. /\ inode' \in Seq(ByteSeq) /\ Len(inode') \in Nat /\ Len(inode) <= Len(inode')
      /\ i \in 1..Len(inode')
  <2>1. CASE i = new
    <3>1. inode' = Append(inode, <<>>) /\ <<>> \in ByteSeq
      BY <1>1, <2>1, BytesAndTexts
    <3>2. inode' \in Seq(ByteSeq) /\ Len(inode') = new
      BY <1>2, <3>1, AppendProperties
    <3>3. QED
      BY <1>2, <2>1, <3>2
  <2>2. CASE i # new
    <3>1. inode' \in {[inode EXCEPT ![i] = <<>>], inode} /\ <<>> \in ByteSeq
      BY <1>1, <2>2, BytesAndTexts
    <3>2. inode' \in Seq(ByteSeq) /\ Len(inode') = Len(inode)
      BY <1>2, <3>1, ExceptAnywhere
    <3>3. QED
      BY <1>2, <1>3, <2>2, <3>2
  <2>3. QED
    BY <2>1, <2>2
<1>5. [kind |-> "file", is |-> i] \in [kind : {"none", "file", "socket"}, is : Nat]
  BY <1>2, <1>3
<1>6. /\ name \in [Paths -> [kind : {"none", "file", "socket"}, is : Nat]]
      /\ \A f \in Paths : name[f].kind = "file" => name[f].is \in 1..Len(inode)
  BY DEF Typed, FilesTyped
<1>7. name' \in [Paths -> [kind : {"none", "file", "socket"}, is : Nat]]
  BY <1>1, <1>5, <1>6
<1>8. ASSUME NEW f \in Paths, name'[f].kind = "file"
      PROVE  name'[f].is \in 1..Len(inode')
  <2>1. CASE f = path
    BY <1>1, <1>4, <1>6, <2>1
  <2>2. CASE f # path
    <3>1. name'[f] = name[f]
      BY <1>1, <1>6, <2>2
    <3>2. name[f].is \in 1..Len(inode)
      BY <1>6, <1>8, <3>1
    <3>3. QED
      BY <1>2, <1>4, <3>1, <3>2
  <2>3. QED
    BY <2>1, <2>2
<1>9. name'[path].is \in 1..Len(inode')
  BY <1>1, <1>4, <1>6
<1>10. QED
  BY <1>4, <1>7, <1>8, <1>9

\* Files are opened at their start.
LEMMA OpenedTyped ==
  ASSUME IInv, Typed, NEW fs, Opened(fs),
         Len(inode') \in Nat, Len(inode) <= Len(inode'),
         Len(stream') \in Nat, Len(stream) <= Len(stream'),
         fs \in Seq(OpenFiles(Len(inode'), Len(stream'))),
         \A k \in 1..Len(fs) : AppendsExactly(fs[k])
  PROVE  /\ desc' \in Seq(OpenFiles(Len(inode'), Len(stream')))
         /\ \A d \in 1..Len(desc') : AppendsExactly(desc'[d])
         /\ pos' \in Seq(Nat) /\ Len(pos') = Len(desc')
<1> DEFINE kinds == OpenFiles(Len(inode'), Len(stream'))
           starts == [k \in 1..Len(fs) |-> 0]
<1>1. desc \in Seq(kinds)
  <2>1. OpenFiles(Len(inode), Len(stream)) \subseteq kinds
    BY LensAreNat, OpenFilesGrow
  <2>2. QED
    BY <2>1, SeqMonotonic DEF Typed, FilesTyped
<1> HIDE DEF kinds
<1>2. fs \in Seq(kinds) /\ Len(fs) \in Nat /\ Len(desc) \in Nat
  BY LensAreNat DEF kinds
<1>3. /\ desc' = desc \o fs /\ desc \o fs \in Seq(kinds)
      /\ Len(desc') = Len(desc) + Len(fs)
      /\ \A d \in 1..Len(desc) + Len(fs) :
           (desc \o fs)[d] = IF d <= Len(desc) THEN desc[d] ELSE fs[d - Len(desc)]
  BY <1>1, <1>2, ConcatProperties DEF Opened
<1>4. ASSUME NEW d \in 1..Len(desc')
      PROVE  AppendsExactly(desc'[d])
  <2>1. CASE d <= Len(desc)
    BY <1>2, <1>3, <2>1 DEF Typed, FilesTyped
  <2>2. CASE ~(d <= Len(desc))
    <3>1. d - Len(desc) \in 1..Len(fs)
      BY <1>2, <1>3, <2>2
    <3>2. QED
      BY <1>3, <2>2, <3>1
  <2>3. QED
    BY <2>1, <2>2
<1>5. starts \in Seq(Nat) /\ Len(starts) = Len(fs)
  BY <1>2
<1>6. pos' = pos \o starts
  BY DEF Opened
<1> HIDE DEF starts
<1>7. pos' \in Seq(Nat) /\ Len(pos') = Len(desc')
  <2>1. pos \in Seq(Nat) /\ Len(pos) = Len(desc)
    BY DEF Typed, FilesTyped
  <2>2. pos \o starts \in Seq(Nat) /\ Len(pos \o starts) = Len(pos) + Len(starts)
    <3> DEFINE N == Nat
    <3>1. starts \in Seq(N) /\ pos \in Seq(N)
      BY <1>5, <2>1
    <3> HIDE DEF N
    <3>2. pos \o starts \in Seq(N) /\ Len(pos \o starts) = Len(pos) + Len(starts)
      BY <3>1, ConcatProperties
    <3>3. QED
      BY <3>2 DEF N
  <2>3. QED
    BY <1>3, <1>5, <1>6, <2>1, <2>2
<1>8. QED
  BY <1>3, <1>4, <1>7 DEF kinds

\* A file opened by name.
LEMMA OpenFileKind ==
  ASSUME NEW files \in Nat, NEW streams \in Nat, NEW i \in 1..files, NEW mode \in Modes
  PROVE  /\ <<Mode(mode, i)>> \in Seq(OpenFiles(files, streams))
         /\ Len(<<Mode(mode, i)>>) = 1
         /\ \A k \in 1..1 : AppendsExactly(<<Mode(mode, i)>>[k])
<1>1. Mode(mode, i) \in OpenFiles(files, streams) /\ AppendsExactly(Mode(mode, i))
  BY DEF Mode, OpenFile, OpenFiles, AppendsExactly
<1>2. QED
  BY <1>1

\* New streams are empty.
LEMMA NewStreamsOk ==
  ASSUME IInv, Typed, NEW n \in Nat, NewStreams(n)
  PROVE  /\ stream' \in Seq(ByteSeq) /\ Len(stream') = Len(stream) + n
         /\ \A s \in 1..Len(stream') : Len(stream'[s]) <= Capacity
         /\ HistTyped'
<1> DEFINE more == [i \in 1..n |-> <<>>]
           notes == [i \in 1..n |-> [took |-> <<>>, by |-> {}, lines |-> <<>>, mixed |-> FALSE]]
<1>1. stream' = stream \o more /\ hist' = hist \o notes
  BY DEF NewStreams
<1>2. more \in Seq(ByteSeq) /\ Len(more) = n /\ \A i \in 1..n : more[i] = <<>>
  BY BytesAndTexts
<1>3. IsSeq(notes) /\ Len(notes) = n
  <2> DEFINE T == {[took |-> <<>>, by |-> {}, lines |-> <<>>, mixed |-> FALSE]}
  <2>1. notes \in Seq(T) /\ Len(notes) = n
    OBVIOUS
  <2> HIDE DEF notes, T
  <2>2. QED
    BY <2>1 DEF IsSeq
<1> HIDE DEF more, notes
<1>4. stream \in Seq(ByteSeq) /\ Len(stream) \in Nat
  BY LensAreNat DEF Typed, FilesTyped
<1>5. /\ stream \o more \in Seq(ByteSeq) /\ Len(stream \o more) = Len(stream) + n
      /\ \A i \in 1..Len(stream) + n :
           (stream \o more)[i] = IF i <= Len(stream) THEN stream[i] ELSE more[i - Len(stream)]
  BY <1>2, <1>4, ConcatProperties
<1>6. ASSUME NEW s \in 1..Len(stream) + n
      PROVE  Len((stream \o more)[s]) <= Capacity
  <2>1. CASE s <= Len(stream)
    BY <1>4, <1>5, <2>1 DEF Typed, FilesTyped
  <2>2. CASE ~(s <= Len(stream))
    <3>1. s - Len(stream) \in 1..n
      BY <1>4, <2>2
    <3>2. (stream \o more)[s] = <<>>
      BY <1>2, <1>5, <2>2, <3>1
    <3>3. QED
      BY <3>2, CapacityAssumption
  <2>3. QED
    BY <2>1, <2>2
<1>7. IsSeq(hist') /\ Len(hist') = Len(hist) + n
  BY <1>1, <1>3, JoinIsSeq DEF Typed, HistTyped
<1>8. QED
  BY <1>1, <1>5, <1>6, <1>7 DEF Typed, HistTyped

\* What is read leaves the stream, or moves the position.
LEMMA ReadsOk ==
  ASSUME IInv, Typed, NEW p, NEW d \in 1..Len(desc), NEW n \in Nat, NEW whole,
         n <= Len(Avail(d)), Avail(d) # <<>>,
         Reads(p, d, n, whole), UNCHANGED <<inode, desc, name>>
  PROVE  FilesTyped' /\ HistTyped'
<1>0. /\ inode \in Seq(ByteSeq) /\ stream \in Seq(ByteSeq) /\ pos \in Seq(Nat)
      /\ Len(pos) = Len(desc) /\ Len(stream) \in Nat
  BY LensAreNat DEF Typed, FilesTyped
<1>1. CASE desc[d].kind = "file"
  <2>1. pos' = [pos EXCEPT ![d] = pos[d] + n] /\ UNCHANGED <<stream, hist>>
    BY <1>1 DEF Reads, Consume
  <2>2. pos[d] + n \in Nat
    BY <1>0
  <2>3. pos' \in Seq(Nat) /\ Len(pos') = Len(desc)
    <3> DEFINE N == Nat
    <3>1. pos \in Seq(N) /\ pos[d] + n \in N
      BY <1>0, <2>2
    <3> HIDE DEF N
    <3>2. pos' \in Seq(N) /\ Len(pos') = Len(pos)
      BY <2>1, <3>1, ExceptAnywhere
    <3>3. QED
      BY <1>0, <3>2 DEF N
  <2>4. QED
    BY <2>1, <2>3, HistKept DEF Typed, FilesTyped
<1>2. CASE desc[d].kind # "file"
  <2> DEFINE rx == desc[d].rx
             rest == SubSeq(stream[rx], n + 1, Len(stream[rx]))
  <2>1. desc[d].kind = "stream" /\ rx # 0 /\ Avail(d) = stream[rx]
    BY <1>2 DEF Avail
  <2>2. rx \in 1..Len(stream)
    BY <1>0, <2>1, FileKinds
  <2>3. stream[rx] \in ByteSeq /\ Len(stream[rx]) <= Capacity /\ n <= Len(stream[rx])
        /\ Len(stream[rx]) \in Nat
    BY <1>0, <2>1, <2>2 DEF Typed, FilesTyped, ByteSeq
  <2>4. rest \in ByteSeq /\ Len(rest) <= Len(stream[rx]) /\ Len(rest) \in Nat
    <3>1. rest \in ByteSeq /\ Len(rest) <= Len(stream[rx])
      BY <2>3, TakenIsBytes
    <3> HIDE DEF rest
    <3>2. QED
      BY <3>1 DEF ByteSeq
  <2>5. stream' = [stream EXCEPT ![rx] = rest] /\ pos' = pos
    BY <1>2 DEF Reads, Consume
  <2> HIDE DEF rest
  <2>6. /\ stream' \in Seq(ByteSeq) /\ Len(stream') = Len(stream)
        /\ \A s \in 1..Len(stream) : stream'[s] = IF s = rx THEN rest ELSE stream[s]
    BY <1>0, <2>2, <2>4, <2>5, ExceptSeq
  <2>7. ASSUME NEW s \in 1..Len(stream)
        PROVE  Len(stream'[s]) <= Capacity
    <3>1. CASE s = rx
      BY <2>3, <2>4, <2>6, <3>1, CapacityAssumption
    <3>2. CASE s # rx
      BY <2>6, <3>2 DEF Typed, FilesTyped
    <3>3. QED
      BY <3>1, <3>2
  <2>8. FilesTyped'
    BY <2>5, <2>6, <2>7 DEF Typed, FilesTyped
  <2>9. IsSeq(hist') /\ Len(hist') = Len(hist)
    <3>1. \E h : hist' = [hist EXCEPT ![rx] = h]
      BY <1>2 DEF Reads
    <3>2. PICK h : hist' = [hist EXCEPT ![rx] = h]
      BY <3>1
    <3>3. PICK S : hist \in Seq(S)
      BY DEF Typed, HistTyped, IsSeq
    <3>4. hist \in Seq(S \cup {h})
      BY <3>3, SeqMonotonic
    <3>5. hist' \in Seq(S \cup {h}) /\ Len(hist') = Len(hist)
      BY <3>2, <3>4, ExceptAnywhere
    <3>6. QED
      BY <3>5 DEF IsSeq
  <2>10. QED
    BY <2>6, <2>8, <2>9 DEF Typed, HistTyped
<1>3. QED
  BY <1>1, <1>2

\* What is written over content are bytes.
LEMMA OverwriteOk ==
  ASSUME NEW content \in ByteSeq, NEW from \in Nat, NEW bytes \in ByteSeq
  PROVE  Overwrite(content, from, bytes, Zero) \in ByteSeq
<1> DEFINE last == Max({Len(content), from + Len(bytes)})
           At(k) == CASE k > from /\ k <= from + Len(bytes) -> bytes[k - from]
                      [] k <= Len(content) -> content[k]
                      [] OTHER -> Zero
<1>1. Len(content) \in Nat /\ Len(bytes) \in Nat
  BY DEF ByteSeq
<1>2. last \in Nat
  <2> DEFINE a == Len(content)
             b == from + Len(bytes)
  <2>1. a \in Nat /\ b \in Nat
    BY <1>1
  <2> HIDE DEF a, b
  <2>2. Max({a, b}) \in {a, b}
    BY <2>1, MaxOfTwo
  <2>3. QED
    BY <2>1, <2>2 DEF a, b
<1>3. ASSUME NEW k \in 1..last
      PROVE  At(k) \in Byte
  <2>1. CASE k > from /\ k <= from + Len(bytes)
    <3>1. k - from \in 1..Len(bytes)
      BY <1>1, <1>2, <2>1
    <3>2. QED
      BY <2>1, <3>1 DEF ByteSeq
  <2>2. CASE ~(k > from /\ k <= from + Len(bytes)) /\ k <= Len(content)
    <3>1. k \in 1..Len(content)
      BY <1>1, <1>2, <2>2
    <3>2. QED
      BY <2>2, <3>1 DEF ByteSeq
  <2>3. CASE ~(k > from /\ k <= from + Len(bytes)) /\ ~(k <= Len(content))
    BY <2>3, BytesAndTexts
  <2>4. QED
    BY <2>1, <2>2, <2>3
<1>4. Overwrite(content, from, bytes, Zero) = [k \in 1..last |-> At(k)]
  BY DEF Overwrite
<1> HIDE DEF last, At
<1>5. [k \in 1..last |-> At(k)] \in Seq(Byte)
  BY <1>2, <1>3
<1>6. QED
  BY <1>4, <1>5 DEF ByteSeq

-----------------------------------------------------------------------------
(* Every step keeps the shape of the state.                                 *)

LEMMA PathOpened ==
  ASSUME IInv, Typed, NEW path \in Paths, NEW mode \in Modes, OpenPath(path, mode),
         Opened(<<Mode(mode, name'[path].is)>>), UNCHANGED <<stream, hist>>
  PROVE  FilesTyped' /\ HistTyped'
<1>1. /\ inode' \in Seq(ByteSeq) /\ Len(inode') \in Nat /\ Len(inode) <= Len(inode')
      /\ name' \in [Paths -> [kind : {"none", "file", "socket"}, is : Nat]]
      /\ \A f \in Paths : name'[f].kind = "file" => name'[f].is \in 1..Len(inode')
      /\ name'[path].is \in 1..Len(inode')
  BY OpenPathOk
<1> DEFINE o == Mode(mode, name'[path].is)
<1>2. Len(stream') \in Nat /\ Len(stream) <= Len(stream')
  BY LensAreNat
<1>3. /\ <<o>> \in Seq(OpenFiles(Len(inode'), Len(stream'))) /\ Len(<<o>>) = 1
      /\ \A k \in 1..1 : AppendsExactly(<<o>>[k])
  BY <1>1, <1>2, OpenFileKind
<1> HIDE DEF o
<1>4. /\ desc' \in Seq(OpenFiles(Len(inode'), Len(stream')))
      /\ \A d \in 1..Len(desc') : AppendsExactly(desc'[d])
      /\ pos' \in Seq(Nat) /\ Len(pos') = Len(desc')
  <2>1. Opened(<<o>>)
    BY DEF o
  <2>2. QED
    BY <1>1, <1>2, <1>3, <2>1, OpenedTyped
<1>5. FilesTyped'
  BY <1>1, <1>4 DEF Typed, FilesTyped
<1>6. QED
  BY <1>5, HistKept

LEMMA FileStepTyped ==
  ASSUME IInv, Typed, NEW p \in Procs, FileStep(p), UNCHANGED mailVars
  PROVE  FilesTyped' /\ HistTyped' /\ CallsTyped'
<1>0. /\ Len(desc') \in Nat /\ Len(desc) <= Len(desc') /\ Len(desc) \in Nat
      /\ UNCHANGED page /\ Len(page) \in Nat /\ Len(inode) \in Nat /\ Len(stream) \in Nat
  BY FileActions, LenIsNat, LensAreNat DEF Good, FilesOk, mailVars
<1>b. line \in [Procs -> ByteSeq] /\ buf \in [Procs -> ByteSeq]
  BY DEF Typed, CallsTyped
<1>1. ASSUME NEW path \in Paths, NEW mode \in Modes, Open(p, path, mode)
      PROVE  FilesTyped' /\ HistTyped' /\ CallsTyped'
  <2>1. /\ OpenPath(path, mode) /\ Opened(<<Mode(mode, name'[path].is)>>)
        /\ UNCHANGED <<st, call, stream, line, buf, hist>>
    BY <1>1 DEF Open, OpensAs
  <2>2. QED
    BY <1>0, <2>1, PathOpened, CallsKept
<1>2. ASSUME NEW h, CloseHandle(p, h)
      PROVE  FilesTyped' /\ HistTyped' /\ CallsTyped'
  BY <1>0, <1>2, FilesKept, HistKept, CallsKept DEF CloseHandle
<1>3. ASSUME NEW h, NEW to \in -1..1, Seek(p, h, to)
      PROVE  FilesTyped' /\ HistTyped' /\ CallsTyped'
  <2> DEFINE d == FileAt(table[p], h)
             at == IF to = -1 THEN Len(inode[desc[d].inode]) ELSE to
  <2>1. /\ d \in 1..Len(desc) /\ desc[d].kind = "file" /\ pos' = [pos EXCEPT ![d] = at]
        /\ UNCHANGED <<st, desc, inode, name, stream, call, line, buf, hist>>
    BY <1>3, FileAtIsFile DEF Seek
  <2>2. inode[desc[d].inode] \in ByteSeq
    BY <2>1, FileKinds DEF Typed, FilesTyped
  <2>3. at \in Nat
    BY <2>2 DEF ByteSeq
  <2> HIDE DEF at
  <2>4. pos' \in Seq(Nat) /\ Len(pos') = Len(desc)
    <3> DEFINE N == Nat
    <3>1. pos \in Seq(N) /\ at \in N
      BY <2>3 DEF Typed, FilesTyped
    <3> HIDE DEF N
    <3>2. pos' \in Seq(N) /\ Len(pos') = Len(pos)
      BY <2>1, <3>1, ExceptAnywhere
    <3>3. QED
      BY <3>2 DEF N, Typed, FilesTyped
  <2>5. FilesTyped'
    BY <2>1, <2>4 DEF Typed, FilesTyped
  <2>6. QED
    BY <1>0, <2>1, <2>5, HistKept, CallsKept
<1>4. ASSUME NEW c \in Call(Len(desc), Len(page)), st[p] = "running", Becomes(p, c),
             UNCHANGED <<kernelVars, line, buf>>, IsSeq(hist'), Len(hist') = Len(hist)
      PROVE  FilesTyped' /\ HistTyped' /\ CallsTyped'
  <2>1. FilesTyped'
    BY <1>4, FilesKept DEF kernelVars
  <2>2. HistTyped'
    BY <1>4 DEF kernelVars, Typed, HistTyped
  <2>3. CallsTyped'
    BY <1>0, <1>b, <1>4, CallMade DEF kernelVars
  <2>4. QED
    BY <2>1, <2>2, <2>3
<1>h. IsSeq(hist) /\ (hist' = hist => IsSeq(hist') /\ Len(hist') = Len(hist))
  BY DEF Typed, HistTyped
<1>5. ASSUME NEW h, BeginReadLine(p, h)
      PROVE  FilesTyped' /\ HistTyped' /\ CallsTyped'
  <2> DEFINE d == FileAt(table[p], h)
             c == [op |-> "line", d |-> d, text |-> <<>>, got |-> FALSE]
  <2>1. d \in 1..Len(desc) /\ st[p] = "running" /\ Becomes(p, c)
        /\ UNCHANGED <<kernelVars, line, buf, hist>>
    BY <1>5, FileAtIsFile, BeginFacts DEF BeginReadLine
  <2>2. c \in Call(Len(desc), Len(page))
    BY <2>1, BytesAndTexts DEF Call
  <2>3. QED
    BY <1>4, <1>h, <2>1, <2>2
<1>6. ASSUME NEW h, NEW size \in 1..3, NEW wait \in {<<>>, <<NL>>},
             BeginReadBuffer(p, h, size, wait)
      PROVE  FilesTyped' /\ HistTyped' /\ CallsTyped'
  <2> DEFINE d == FileAt(table[p], h)
             c == [op |-> "buffer", d |-> d, size |-> size, wait |-> wait, text |-> <<>>]
  <2>1. d \in 1..Len(desc) /\ st[p] = "running" /\ Becomes(p, c)
        /\ UNCHANGED <<kernelVars, line, buf>>
    BY <1>6, FileAtIsFile, BeginFacts DEF BeginReadBuffer
  <2>2. c \in Call(Len(desc), Len(page))
    BY <2>1, BytesAndTexts DEF Call
  <2>3. hist' = hist \/ \E s, e : hist' = [hist EXCEPT ![s] = e]
    <3>1. \/ hist' = hist
          \/ hist' = [hist EXCEPT ![desc[d].rx].mixed = TRUE]
      BY <1>6 DEF BeginReadBuffer
    <3>2. CASE hist' = [hist EXCEPT ![desc[d].rx].mixed = TRUE]
      <4>1. hist' = [hist EXCEPT ![desc[d].rx] = [@ EXCEPT !.mixed = TRUE]]
        BY <3>2
      <4>2. QED
        BY <4>1
    <3>3. QED
      BY <3>1, <3>2
  <2>4. ASSUME NEW s, NEW e, hist' = [hist EXCEPT ![s] = e]
        PROVE  IsSeq(hist') /\ Len(hist') = Len(hist)
    BY <2>4, HistSet
  <2>5. QED
    BY <1>4, <1>h, <2>1, <2>2, <2>3, <2>4
<1>7. ASSUME NEW h, NEW text \in Texts, BeginWrite(p, h, text)
      PROVE  FilesTyped' /\ HistTyped' /\ CallsTyped'
  <2> DEFINE d == FileAt(table[p], h)
             c == [op |-> "write", d |-> d, rest |-> text]
  <2>1. d \in 1..Len(desc) /\ st[p] = "running" /\ Becomes(p, c)
        /\ UNCHANGED <<kernelVars, line, buf, hist>>
    BY <1>7, FileAtIsFile, BeginFacts DEF BeginWrite
  <2>2. c \in Call(Len(desc), Len(page))
    BY <2>1, BytesAndTexts DEF Call
  <2>3. QED
    BY <1>4, <1>h, <2>1, <2>2
<1>8. ASSUME NEW h, BeginWriteCurrent(p, h)
      PROVE  FilesTyped' /\ HistTyped' /\ CallsTyped'
  <2> DEFINE d == FileAt(table[p], h)
             c == [op |-> "write", d |-> d, rest |-> Append(line[p], NL)]
  <2>1. d \in 1..Len(desc) /\ st[p] = "running" /\ Becomes(p, c)
        /\ UNCHANGED <<kernelVars, line, buf, hist>>
    BY <1>8, FileAtIsFile, BeginFacts DEF BeginWriteCurrent
  <2>2. Append(line[p], NL) \in ByteSeq
    BY <1>b, BytesAndTexts, AppendProperties DEF ByteSeq
  <2>3. c \in Call(Len(desc), Len(page))
    BY <2>1, <2>2 DEF Call
  <2>4. QED
    BY <1>4, <1>h, <2>1, <2>3
<1>9. ASSUME NEW h, BeginAccept(p, h)
      PROVE  FilesTyped' /\ HistTyped' /\ CallsTyped'
  <2> DEFINE d == FileAt(table[p], h)
             c == [op |-> "accept", d |-> d]
  <2>1. d \in 1..Len(desc) /\ st[p] = "running" /\ Becomes(p, c)
        /\ UNCHANGED <<kernelVars, line, buf, hist>>
    BY <1>9, FileAtIsFile, BeginFacts DEF BeginAccept
  <2>2. c \in Call(Len(desc), Len(page))
    BY <2>1 DEF Call
  <2>3. QED
    BY <1>4, <1>h, <2>1, <2>2
<1>10. ASSUME NEW path \in Paths, NEW mode \in Modes, NEW text \in Texts,
              BeginWriteWhole(p, path, mode, text)
       PROVE  FilesTyped' /\ HistTyped' /\ CallsTyped'
  <2> DEFINE c == [op |-> "write", d |-> Len(desc) + 1, rest |-> text]
             o == Mode(mode, name'[path].is)
  <2>1. /\ OpenPath(path, mode) /\ Opened(<<o>>) /\ Becomes(p, c) /\ st[p] = "running"
        /\ UNCHANGED <<st, stream, line, buf, hist>>
    BY <1>10, BeginFacts DEF BeginWriteWhole
  <2>2. Len(desc') = Len(desc) + 1
    <3>1. IsSeq(<<o>>) /\ Len(<<o>>) = 1
      BY ShortSeqs
    <3>2. QED
      BY <2>1, <3>1, OpenedOk
  <2>3. c \in Call(Len(desc'), Len(page))
    <3>1. Len(desc) + 1 \in 1..Len(desc')
      BY <1>0, <2>2
    <3>2. QED
      BY <3>1, BytesAndTexts DEF Call
  <2>4. FilesTyped' /\ HistTyped'
    BY <2>1, PathOpened
  <2>5. CallsTyped'
    BY <1>0, <1>b, <2>1, <2>3, CallMade
  <2>6. QED
    BY <2>4, <2>5

<1>n. /\ name \in [Paths -> [kind : {"none", "file", "socket"}, is : Nat]]
      /\ \A f \in Paths : name[f].kind = "file" => name[f].is \in 1..Len(inode)
      /\ Nothing \in [kind : {"none", "file", "socket"}, is : Nat]
      /\ Nothing.kind = "none"
  BY DEF Typed, FilesTyped, Nothing
<1>r. ASSUME name' \in [Paths -> [kind : {"none", "file", "socket"}, is : Nat]],
             \A f \in Paths : name'[f].kind = "file" => name'[f].is \in 1..Len(inode),
             UNCHANGED <<inode, stream, desc, pos, st, call, line, buf, hist>>
      PROVE  FilesTyped' /\ HistTyped' /\ CallsTyped'
  <2>1. FilesTyped'
    BY <1>r DEF Typed, FilesTyped
  <2>2. QED
    BY <1>0, <1>r, <2>1, HistKept, CallsKept
<1>11. ASSUME NEW path \in Paths, DeleteFile(p, path)
       PROVE  FilesTyped' /\ HistTyped' /\ CallsTyped'
  <2>1. /\ name' = [name EXCEPT ![path] = Nothing]
        /\ UNCHANGED <<inode, stream, desc, pos, st, call, line, buf, hist>>
    BY <1>11 DEF DeleteFile
  <2>2. /\ name' \in [Paths -> [kind : {"none", "file", "socket"}, is : Nat]]
        /\ \A f \in Paths : name'[f].kind = "file" => name'[f].is \in 1..Len(inode)
    BY <1>n, <2>1
  <2>3. QED
    BY <1>r, <2>1, <2>2
<1>12. ASSUME NEW from \in Paths, NEW to \in Paths, RenameFile(p, from, to)
       PROVE  FilesTyped' /\ HistTyped' /\ CallsTyped'
  <2>1. /\ name' = [name EXCEPT ![to] = name[from], ![from] = Nothing]
        /\ UNCHANGED <<inode, stream, desc, pos, st, call, line, buf, hist>>
    BY <1>12 DEF RenameFile
  <2>2. /\ name' \in [Paths -> [kind : {"none", "file", "socket"}, is : Nat]]
        /\ \A f \in Paths : name'[f].kind = "file" => name'[f].is \in 1..Len(inode)
    BY <1>n, <2>1
  <2>3. QED
    BY <1>r, <2>1, <2>2
<1>13. ASSUME NEW n \in Nat, NewStreams(n), NEW fs, IsSeq(fs), Opened(fs),
              fs \in Seq(OpenFiles(Len(inode), Len(stream) + n)),
              \A k \in 1..Len(fs) : AppendsExactly(fs[k]),
              UNCHANGED <<st, inode, name, call, line, buf>>
       PROVE  FilesTyped' /\ HistTyped' /\ CallsTyped'
  <2>1. /\ stream' \in Seq(ByteSeq) /\ Len(stream') = Len(stream) + n
        /\ \A s \in 1..Len(stream') : Len(stream'[s]) <= Capacity
        /\ HistTyped'
    BY <1>13, NewStreamsOk
  <2>2. /\ Len(stream') \in Nat /\ Len(stream) <= Len(stream')
        /\ Len(inode') \in Nat /\ Len(inode) <= Len(inode')
        /\ fs \in Seq(OpenFiles(Len(inode'), Len(stream')))
    <3>1. Len(stream') \in Nat /\ Len(stream) <= Len(stream')
      BY <1>0, <1>13, <2>1
    <3>2. Len(inode') = Len(inode)
      BY <1>13
    <3>3. QED
      BY <1>0, <1>13, <2>1, <3>1, <3>2
  <2>3. /\ desc' \in Seq(OpenFiles(Len(inode'), Len(stream')))
        /\ \A d \in 1..Len(desc') : AppendsExactly(desc'[d])
        /\ pos' \in Seq(Nat) /\ Len(pos') = Len(desc')
    BY <1>13, <2>2, OpenedTyped
  <2>4. FilesTyped'
    BY <1>13, <1>n, <2>1, <2>3 DEF Typed, FilesTyped
  <2>5. QED
    BY <1>0, <1>13, <2>1, <2>4, CallsKept
<1>14. CASE Pipe(p)
  <2> DEFINE s == Len(stream) + 1
             a == End(s, 0)
             b == End(0, s)
             fs == <<a, b>>
  <2>1. NewStreams(1) /\ Opened(fs) /\ UNCHANGED <<st, inode, name, call, line, buf>>
    BY <1>14 DEF Pipe
  <2>2. /\ a \in OpenFiles(Len(inode), Len(stream) + 1) /\ AppendsExactly(a)
        /\ b \in OpenFiles(Len(inode), Len(stream) + 1) /\ AppendsExactly(b)
    <3>1. s \in 0..Len(stream) + 1 /\ 0 \in 0..Len(stream) + 1
      BY <1>0
    <3>2. QED
      BY <3>1 DEF OpenFiles, End, AppendsExactly
  <2> HIDE DEF a, b
  <2>3. /\ fs \in Seq(OpenFiles(Len(inode), Len(stream) + 1)) /\ IsSeq(fs)
        /\ \A k \in 1..Len(fs) : AppendsExactly(fs[k])
    BY <2>2, ShortSeqs
  <2>4. QED
    BY <1>13, <2>1, <2>3
<1>15. ASSUME NEW addr \in Paths \cup Ports, Listen(p, addr)
       PROVE  FilesTyped' /\ HistTyped' /\ CallsTyped'
  <2> DEFINE fs == <<Listener>>
  <2>1. /\ Opened(fs) /\ UNCHANGED <<st, inode, stream, call, line, buf, hist>>
    BY <1>15 DEF Listen, OpensAs
  <2>2. fs \in Seq(OpenFiles(Len(inode), Len(stream))) /\ Len(fs) = 1
        /\ \A k \in 1..Len(fs) : AppendsExactly(fs[k])
    BY DEF OpenFiles, Listener, AppendsExactly
  <2> HIDE DEF fs
  <2>3. /\ Len(inode') \in Nat /\ Len(inode) <= Len(inode') /\ Len(inode') = Len(inode)
        /\ Len(stream') \in Nat /\ Len(stream) <= Len(stream') /\ Len(stream') = Len(stream)
    BY <1>0, <2>1
  <2>4. /\ desc' \in Seq(OpenFiles(Len(inode'), Len(stream')))
        /\ \A d \in 1..Len(desc') : AppendsExactly(desc'[d])
        /\ pos' \in Seq(Nat) /\ Len(pos') = Len(desc')
    BY <2>1, <2>2, <2>3, OpenedTyped
  <2>5. /\ name' \in [Paths -> [kind : {"none", "file", "socket"}, is : Nat]]
        /\ \A f \in Paths : name'[f].kind = "file" => name'[f].is \in 1..Len(inode)
    <3>1. CASE name' = name
      BY <1>n, <3>1
    <3>2. CASE name' = [name EXCEPT ![addr] = [kind |-> "socket", is |-> Len(desc) + 1]]
               /\ addr \in Paths
      <4> DEFINE bound == [kind |-> "socket", is |-> Len(desc) + 1]
      <4>1. bound \in [kind : {"none", "file", "socket"}, is : Nat] /\ bound.kind = "socket"
        BY <1>0
      <4> HIDE DEF bound
      <4>2. name' = [name EXCEPT ![addr] = bound]
        BY <3>2 DEF bound
      <4>3. QED
        BY <1>n, <3>2, <4>1, <4>2
    <3>3. QED
      BY <1>15, <3>1, <3>2 DEF Listen
  <2>6. FilesTyped'
    BY <2>1, <2>4, <2>5 DEF Typed, FilesTyped
  <2>7. QED
    BY <1>0, <2>1, <2>6, HistKept, CallsKept
<1>16. ASSUME NEW addr \in Paths \cup Ports, Connect(p, addr)
       PROVE  FilesTyped' /\ HistTyped' /\ CallsTyped'
  <2> DEFINE s == Len(stream) + 1
             a == End(s, s + 1)
             b == End(s + 1, s)
             fs == <<a, b>>
  <2>1. /\ NewStreams(2) /\ desc' = desc \o fs /\ pos' = pos \o <<0, 0>>
        /\ UNCHANGED <<st, inode, name, call, line, buf>>
    BY <1>16 DEF Connect
  <2>2. /\ a \in OpenFiles(Len(inode), Len(stream) + 2) /\ AppendsExactly(a)
        /\ b \in OpenFiles(Len(inode), Len(stream) + 2) /\ AppendsExactly(b)
    <3>1. s \in 0..Len(stream) + 2 /\ s + 1 \in 0..Len(stream) + 2
      BY <1>0
    <3>2. QED
      BY <3>1 DEF OpenFiles, End, AppendsExactly
  <2> HIDE DEF a, b
  <2>3. /\ fs \in Seq(OpenFiles(Len(inode), Len(stream) + 2)) /\ Len(fs) = 2
        /\ \A k \in 1..Len(fs) : AppendsExactly(fs[k])
    BY <2>2
  <2> HIDE DEF fs
  <2>4. /\ stream' \in Seq(ByteSeq) /\ Len(stream') = Len(stream) + 2
        /\ \A i \in 1..Len(stream') : Len(stream'[i]) <= Capacity
        /\ HistTyped'
    BY <2>1, NewStreamsOk
  <2> DEFINE kinds == OpenFiles(Len(inode), Len(stream) + 2)
  <2>5. desc \in Seq(kinds) /\ fs \in Seq(kinds)
    <3>1. OpenFiles(Len(inode), Len(stream)) \subseteq kinds
      BY <1>0, OpenFilesGrow
    <3>2. QED
      BY <2>3, <3>1, SeqMonotonic DEF Typed, FilesTyped
  <2> HIDE DEF kinds
  <2>6. /\ desc' \in Seq(kinds) /\ Len(desc') = Len(desc) + 2
        /\ \A d \in 1..Len(desc) + 2 :
             desc'[d] = IF d <= Len(desc) THEN desc[d] ELSE fs[d - Len(desc)]
    <3>1. /\ desc \o fs \in Seq(kinds) /\ Len(desc \o fs) = Len(desc) + Len(fs)
          /\ \A d \in 1..Len(desc) + Len(fs) :
               (desc \o fs)[d] = IF d <= Len(desc) THEN desc[d] ELSE fs[d - Len(desc)]
      BY <2>5, ConcatProperties
    <3>2. desc' = desc \o fs /\ Len(fs) = 2
      BY <2>1, <2>3
    <3>3. QED
      BY <3>1, <3>2
  <2>7. ASSUME NEW d \in 1..Len(desc')
        PROVE  AppendsExactly(desc'[d])
    <3>1. CASE d <= Len(desc)
      BY <1>0, <2>6, <3>1 DEF Typed, FilesTyped
    <3>2. CASE ~(d <= Len(desc))
      <4>1. d - Len(desc) \in 1..2
        BY <1>0, <2>6, <3>2
      <4>2. QED
        BY <2>3, <2>6, <3>2, <4>1
    <3>3. QED
      BY <3>1, <3>2
  <2>8. pos' \in Seq(Nat) /\ Len(pos') = Len(desc')
    <3> DEFINE N == Nat
               zeros == <<0, 0>>
    <3>1. pos \in Seq(N) /\ zeros \in Seq(N) /\ Len(zeros) = 2 /\ Len(pos) = Len(desc)
      BY DEF Typed, FilesTyped
    <3>2. pos' = pos \o zeros
      BY <2>1
    <3> HIDE DEF N, zeros
    <3>3. pos' \in Seq(N) /\ Len(pos') = Len(pos) + Len(zeros)
      BY <3>1, <3>2, ConcatProperties
    <3>4. QED
      BY <2>6, <3>1, <3>3 DEF N
  <2>9. FilesTyped'
    <3>1. Len(inode') = Len(inode) /\ inode' = inode /\ name' = name
      BY <2>1
    <3>2. desc' \in Seq(OpenFiles(Len(inode'), Len(stream')))
      BY <2>4, <2>6, <3>1 DEF kinds
    <3>3. QED
      BY <1>n, <2>4, <2>7, <2>8, <3>1, <3>2 DEF Typed, FilesTyped
  <2>10. QED
    BY <1>0, <2>1, <2>4, <2>9, CallsKept
<1>17. ASSUME NEW text \in Texts, NEW more \in Texts, BeginExec(p, text \o more)
       PROVE  FilesTyped' /\ HistTyped' /\ CallsTyped'
  <2> DEFINE all == text \o more
             c == [op |-> "exec", rest |-> all, to |-> <<>>, from |-> <<>>, all |-> all]
  <2>1. st[p] = "running" /\ Becomes(p, c) /\ UNCHANGED <<kernelVars, line, buf, hist>>
    BY <1>17, BeginFacts DEF BeginExec
  <2>2. all \in ByteSeq
    BY BytesAndTexts, ConcatProperties DEF ByteSeq
  <2> HIDE DEF all
  <2>3. c \in Call(Len(desc), Len(page))
    BY <2>2, BytesAndTexts DEF Call
  <2>4. QED
    BY <1>4, <1>h, <2>1, <2>3
<1>18. QED
  <2>1. "read" \in Modes /\ "write" \in Modes /\ "append" \in Modes /\ "update" \in Modes
    BY DEF Modes
  <2>2. ASSUME NEW h \in HandleNumbers,
               \/ CloseHandle(p, h)
               \/ \E to \in -1..1 : Seek(p, h, to)
               \/ BeginReadLine(p, h)
               \/ \E size \in 1..3, wait \in {<<>>, <<NL>>} : BeginReadBuffer(p, h, size, wait)
               \/ \E text \in Texts : BeginWrite(p, h, text)
               \/ BeginWriteCurrent(p, h)
               \/ BeginAccept(p, h)
        PROVE  FilesTyped' /\ HistTyped' /\ CallsTyped'
    BY <1>2, <1>3, <1>5, <1>6, <1>7, <1>8, <1>9, <2>2
  <2>3. QED
    BY <1>1, <1>10, <1>11, <1>12, <1>14, <1>15, <1>16, <1>17, <2>1, <2>2 DEF FileStep

\* What is known of the call of a process.
LEMMA CallParts ==
  ASSUME IInv, Typed, NEW p \in Procs
  PROVE  /\ call[p] # Idle => st[p] = "running"
         /\ call[p].op = "line" =>
              /\ call[p] \in [op : {"line"}, d : 1..Len(desc), text : ByteSeq, got : BOOLEAN]
              /\ call[p] # Idle
         /\ call[p].op = "buffer" =>
              /\ call[p] \in [op : {"buffer"}, d : 1..Len(desc), size : 1..3,
                              wait : {<<>>, <<NL>>}, text : ByteSeq]
              /\ call[p] # Idle
         /\ call[p].op = "write" =>
              call[p] \in [op : {"write"}, d : 1..Len(desc), rest : ByteSeq] /\ call[p] # Idle
         /\ call[p].op = "accept" =>
              call[p] \in [op : {"accept"}, d : 1..Len(desc)] /\ call[p] # Idle
         /\ call[p].op = "exec" =>
              /\ call[p] \in [op : {"exec"}, rest : ByteSeq, to : ByteSeq, from : ByteSeq,
                              all : ByteSeq]
              /\ call[p] # Idle
         /\ call[p].op = "page-write" =>
              /\ call[p] \in [op : {"page-write"}, k : 1..Len(page), text : ByteSeq]
              /\ call[p] # Idle
         /\ call[p].op = "page-read" =>
              /\ call[p] \in [op : {"page-read"}, k : 1..Len(page), n : Nat, quiet : BOOLEAN]
              /\ call[p] # Idle
<1>1. call[p] \in Call(Len(desc), Len(page)) /\ (st[p] # "running" => call[p] = Idle)
  BY DEF Typed, CallsTyped
<1>2. Idle.op = "idle"
  BY DEF Idle
<1>3. QED
  BY <1>1, <1>2 DEF Call

\* A call goes on or ends without touching files.
LEMMA CallOnly ==
  ASSUME IInv, Typed, NEW p \in Procs, st[p] = "running", UNCHANGED <<kernelVars, hist, page>>,
         NEW c \in Call(Len(desc), Len(page)), Becomes(p, c),
         line' \in [Procs -> ByteSeq], buf' \in [Procs -> ByteSeq]
  PROVE  FilesTyped' /\ HistTyped' /\ CallsTyped'
<1>1. Len(desc') = Len(desc) /\ Len(desc) \in Nat
  BY LensAreNat DEF kernelVars
<1>2. FilesTyped' /\ HistTyped'
  BY FilesKept, HistKept DEF kernelVars
<1>3. CallsTyped'
  BY <1>1, CallMade DEF kernelVars
<1>4. QED
  BY <1>2, <1>3

\* The part of a record of sequences that stays.
LEMMA SomeRead ==
  ASSUME NEW s \in ByteSeq, s # <<>>
  PROVE  Len(s) \in Nat /\ 1 <= Len(s) /\ Head(s) \in Byte /\ Tail(s) \in ByteSeq
BY DEF ByteSeq

LEMMA ReadLineTyped ==
  ASSUME IInv, Typed, NEW p \in Procs, ReadLineByte(p) \/ ReadLineEnd(p), UNCHANGED page
  PROVE  FilesTyped' /\ HistTyped' /\ CallsTyped'
<1> DEFINE c == call[p]
<1>1. /\ c \in [op : {"line"}, d : 1..Len(desc), text : ByteSeq, got : BOOLEAN]
      /\ st[p] = "running"
  BY CallParts DEF ReadLineByte, ReadLineEnd
<1>2. /\ Len(desc) \in Nat /\ line \in [Procs -> ByteSeq] /\ buf \in [Procs -> ByteSeq]
      /\ [line EXCEPT ![p] = c.text] \in [Procs -> ByteSeq]
  BY <1>1, LensAreNat DEF Typed, CallsTyped
<1>3. Idle \in Call(Len(desc), Len(page))
  BY DEF Call
<1>4. CASE ReadLineByte(p)
  <2> DEFINE byte == Head(Avail(c.d))
             on == [c EXCEPT !.text = LineAfter(@, byte), !.got = TRUE]
  <2>1. /\ Avail(c.d) # <<>> /\ UNCHANGED <<st, table, desc, backlog, inode, name, buf>>
        /\ IF byte = NL
             THEN /\ Reads(p, c.d, 1, <<c.text>>)
                  /\ Becomes(p, Idle) /\ line' = [line EXCEPT ![p] = c.text]
             ELSE Reads(p, c.d, 1, <<>>) /\ Becomes(p, on) /\ line' = line
    BY <1>4 DEF ReadLineByte
  <2>2. Avail(c.d) \in ByteSeq
    BY <1>1, AvailIsBytes
  <2>3. Len(Avail(c.d)) \in Nat /\ 1 <= Len(Avail(c.d)) /\ byte \in Byte
    BY <2>1, <2>2, SomeRead
  <2>4. FilesTyped' /\ HistTyped'
    <3>1. PICK whole : Reads(p, c.d, 1, whole)
      BY <2>1
    <3>2. QED
      BY <1>1, <2>1, <2>3, <3>1, ReadsOk
  <2>5. on \in Call(Len(desc), Len(page))
    <3>1. LineAfter(c.text, byte) \in ByteSeq
      BY <1>1, <2>3, AppendProperties DEF LineAfter, ByteSeq
    <3> HIDE DEF byte
    <3>2. QED
      BY <1>1, <3>1 DEF Call
  <2> HIDE DEF on
  <2>6. CallsTyped'
    <3>1. PICK c2 \in {Idle, on} : Becomes(p, c2)
      BY <2>1
    <3>2. line' \in [Procs -> ByteSeq] /\ buf' \in [Procs -> ByteSeq]
      BY <1>2, <2>1
    <3>3. Len(desc') \in Nat /\ Len(desc) <= Len(desc') /\ c2 \in Call(Len(desc'), Len(page))
      BY <1>2, <1>3, <2>1, <2>5
    <3>4. QED
      BY <1>1, <2>1, <3>1, <3>2, <3>3, CallMade
  <2>7. QED
    BY <2>4, <2>6
<1>5. CASE ReadLineEnd(p)
  <2>1. /\ Becomes(p, Idle) /\ UNCHANGED <<kernelVars, buf>>
        /\ line' \in {line, [line EXCEPT ![p] = c.text]}
    BY <1>5 DEF ReadLineEnd
  <2>2. IsSeq(hist') /\ Len(hist') = Len(hist)
    <3>1. hist' = hist \/ hist' = [hist EXCEPT ![desc[c.d].rx].lines = Append(@, c.text)]
      BY <1>5 DEF ReadLineEnd
    <3>2. hist' = hist \/ \E s, e : hist' = [hist EXCEPT ![s] = e]
      <4>1. CASE hist' = [hist EXCEPT ![desc[c.d].rx].lines = Append(@, c.text)]
        <5> DEFINE s == desc[c.d].rx
                   lines == Append(hist[s].lines, c.text)
        <5>1. hist' = [hist EXCEPT ![s].lines = lines]
          BY <4>1
        <5> HIDE DEF s, lines
        <5>2. hist' = [hist EXCEPT ![s] = [hist[s] EXCEPT !.lines = lines]]
          BY <5>1
        <5>3. QED
          BY <5>2
      <4>2. QED
        BY <3>1, <4>1
    <3>3. ASSUME NEW s, NEW e, hist' = [hist EXCEPT ![s] = e]
          PROVE  IsSeq(hist') /\ Len(hist') = Len(hist)
      BY <3>3, HistSet
    <3>4. QED
      BY <3>2, <3>3 DEF Typed, HistTyped
  <2>3. FilesTyped' /\ HistTyped'
    BY <2>1, <2>2, FilesKept DEF kernelVars, Typed, HistTyped
  <2>4. CallsTyped'
    <3>1. UNCHANGED <<st, desc>> /\ line' \in [Procs -> ByteSeq] /\ buf' \in [Procs -> ByteSeq]
      BY <1>2, <2>1 DEF kernelVars
    <3>2. Len(desc') \in Nat /\ Len(desc) <= Len(desc') /\ Idle \in Call(Len(desc'), Len(page))
      BY <1>2, <1>3, <3>1
    <3>3. QED
      BY <1>1, <2>1, <3>1, <3>2, CallMade
  <2>5. QED
    BY <2>3, <2>4
<1>6. QED
  BY <1>4, <1>5

LEMMA ReadBufferTyped ==
  ASSUME IInv, Typed, NEW p \in Procs, ReadBufferStep(p) \/ ReadBufferEnd(p), UNCHANGED page
  PROVE  FilesTyped' /\ HistTyped' /\ CallsTyped'
<1> DEFINE c == call[p]
<1>1. /\ c \in [op : {"buffer"}, d : 1..Len(desc), size : 1..3, wait : {<<>>, <<NL>>},
                text : ByteSeq]
      /\ st[p] = "running"
  BY CallParts DEF ReadBufferStep, ReadBufferEnd
<1>2. /\ Len(desc) \in Nat /\ line \in [Procs -> ByteSeq] /\ buf \in [Procs -> ByteSeq]
      /\ \A text \in ByteSeq : [buf EXCEPT ![p] = text] \in [Procs -> ByteSeq]
  BY <1>1, LensAreNat DEF Typed, CallsTyped
<1>3. Idle \in Call(Len(desc), Len(page))
  BY DEF Call
<1>4. CASE ReadBufferStep(p)
  <2> DEFINE n == IF c.wait = <<>> THEN Min({c.size, Len(Avail(c.d))}) ELSE 1
             text == c.text \o SubSeq(Avail(c.d), 1, n)
             on == [c EXCEPT !.text = text]
  <2>1. /\ Avail(c.d) # <<>> /\ UNCHANGED <<st, table, desc, backlog, inode, name, line>>
        /\ Reads(p, c.d, n, <<>>)
        /\ \/ Becomes(p, Idle) /\ buf' = [buf EXCEPT ![p] = text]
           \/ Becomes(p, on) /\ buf' = buf
    BY <1>4 DEF ReadBufferStep, EndReadBuffer
  <2>2. Avail(c.d) \in ByteSeq
    BY <1>1, AvailIsBytes
  <2>3. Len(Avail(c.d)) \in Nat /\ 1 <= Len(Avail(c.d))
    BY <2>1, <2>2, SomeRead
  <2>4. n \in Nat /\ n <= Len(Avail(c.d))
    <3> DEFINE a == c.size
               b == Len(Avail(c.d))
    <3>1. a \in Nat /\ b \in Nat /\ 1 <= b
      BY <1>1, <2>3
    <3>2. n = IF c.wait = <<>> THEN Min({a, b}) ELSE 1
      OBVIOUS
    <3> HIDE DEF a, b, n
    <3>3. Min({a, b}) \in {a, b} /\ Min({a, b}) <= b
      BY <3>1, MinOfTwo
    <3>4. QED
      BY <3>1, <3>2, <3>3 DEF b
  <2> HIDE DEF n
  <2>5. text \in ByteSeq
    <3> DEFINE more == SubSeq(Avail(c.d), 1, n)
    <3>1. more \in ByteSeq /\ c.text \in ByteSeq
      BY <1>1, <2>2, <2>4, TakenIsBytes
    <3> HIDE DEF more
    <3>2. c.text \o more \in ByteSeq
      BY <3>1, ConcatProperties DEF ByteSeq
    <3>3. QED
      BY <3>2 DEF more
  <2> HIDE DEF text
  <2>6. on \in Call(Len(desc), Len(page))
    BY <1>1, <2>5 DEF Call
  <2> HIDE DEF on
  <2>7. FilesTyped' /\ HistTyped'
    BY <1>1, <2>1, <2>4, ReadsOk
  <2>8. CallsTyped'
    <3>1. PICK c2 \in {Idle, on} : Becomes(p, c2)
      BY <2>1
    <3>2. line' \in [Procs -> ByteSeq] /\ buf' \in [Procs -> ByteSeq]
      BY <1>2, <2>1, <2>5
    <3>3. Len(desc') \in Nat /\ Len(desc) <= Len(desc') /\ c2 \in Call(Len(desc'), Len(page))
      BY <1>2, <1>3, <2>1, <2>6
    <3>4. QED
      BY <1>1, <2>1, <3>1, <3>2, <3>3, CallMade
  <2>9. QED
    BY <2>7, <2>8
<1>5. CASE ReadBufferEnd(p)
  <2>1. /\ Becomes(p, Idle) /\ UNCHANGED <<kernelVars, hist, line>>
        /\ buf' = [buf EXCEPT ![p] = c.text]
    BY <1>5 DEF ReadBufferEnd, EndReadBuffer
  <2>2. line' \in [Procs -> ByteSeq] /\ buf' \in [Procs -> ByteSeq]
    BY <1>1, <1>2, <2>1
  <2>3. QED
    BY <1>1, <1>3, <2>1, <2>2, CallOnly
<1>6. QED
  BY <1>4, <1>5

\* What a write is told it has written fits where it goes.
LEMMA AcceptedFits ==
  ASSUME IInv, Typed, NEW d \in 1..Len(desc), NEW rest \in ByteSeq, NEW n \in 0..Len(rest),
         n # 0, Accepts(d, rest, n)
  PROVE  \/ desc[d].kind = "file" /\ desc[d].mode # "read" /\ n = Len(rest)
         \/ /\ desc[d].kind = "stream" /\ desc[d].tx \in 1..Len(stream)
            /\ Len(stream[desc[d].tx]) + n <= Capacity
<1>1. CASE desc[d].kind = "file"
  BY <1>1 DEF Accepts
<1>2. CASE desc[d].kind = "stream" /\ desc[d].tx # 0
  <2> DEFINE tx == desc[d].tx
             full == Len(stream[tx])
             room == Capacity - full
             all == Len(rest)
  <2>1. tx \in 1..Len(stream)
    BY <1>2, FileKinds, LensAreNat
  <2>2. full \in Nat /\ room \in Int /\ all \in Nat
    <3>1. stream[tx] \in ByteSeq
      BY <2>1 DEF Typed, FilesTyped
    <3>2. QED
      BY <3>1, CapacityAssumption DEF ByteSeq
  <2>3. IF all <= PipeBuf THEN room >= all /\ n = all ELSE n = Min({room, all})
    BY <1>2 DEF Accepts
  <2>4. n <= room
    <3>1. CASE room >= all /\ n = all
      BY <3>1
    <3>2. CASE n = Min({room, all})
      <4>0. room \in Int /\ all \in Int
        BY <2>2
      <4> HIDE DEF room, all
      <4>1. Min({room, all}) <= room
        BY <4>0, MinOfTwo
      <4>2. QED
        BY <3>2, <4>1
    <3>3. QED
      BY <2>3, <3>1, <3>2
  <2>5. QED
    BY <1>2, <2>1, <2>2, <2>4, CapacityAssumption
<1>3. CASE ~(desc[d].kind = "file") /\ ~(desc[d].kind = "stream" /\ desc[d].tx # 0)
  BY <1>3 DEF Accepts
<1>4. QED
  BY <1>1, <1>2, <1>3

LEMMA DeliverOk ==
  ASSUME IInv, Typed, NEW d \in 1..Len(desc), NEW rest \in ByteSeq, NEW n \in 0..Len(rest),
         n # 0, Accepts(d, rest, n), Deliver(d, SubSeq(rest, 1, n), Zero),
         UNCHANGED <<desc, name>>
  PROVE  FilesTyped' /\ Len(stream') = Len(stream)
<1> DEFINE bytes == SubSeq(rest, 1, n)
<1>0. bytes \in ByteSeq /\ Len(bytes) = n /\ n \in Nat
  BY PartOfSeq DEF ByteSeq
<1>1. /\ inode \in Seq(ByteSeq) /\ stream \in Seq(ByteSeq) /\ pos \in Seq(Nat)
      /\ Len(pos) = Len(desc) /\ Len(stream) \in Nat
  BY LensAreNat DEF Typed, FilesTyped
<1>a. Deliver(d, bytes, Zero)
  OBVIOUS
<1> HIDE DEF bytes
<1>2. CASE desc[d].kind = "file"
  <2> DEFINE i == desc[d].inode
             at == IF desc[d].app THEN Len(inode[i]) ELSE pos[d]
             new == Overwrite(inode[i], at, bytes, Zero)
             end == at + Len(bytes)
  <2>1. i \in 1..Len(inode) /\ inode[i] \in ByteSeq /\ pos[d] \in Nat
    BY <1>1, <1>2, FileKinds
  <2>2. at \in Nat
    BY <2>1 DEF ByteSeq
  <2>3. inode' = [inode EXCEPT ![i] = new] /\ pos' = [pos EXCEPT ![d] = end] /\ stream' = stream
    BY <1>a, <1>2 DEF Deliver
  <2> HIDE DEF at
  <2>4. new \in ByteSeq /\ end \in Nat
    BY <1>0, <2>1, <2>2, OverwriteOk
  <2> HIDE DEF new, end, i
  <2>5. inode' \in Seq(ByteSeq) /\ Len(inode') = Len(inode)
    <3>1. inode \in Seq(ByteSeq) /\ new \in ByteSeq /\ inode' = [inode EXCEPT ![i] = new]
      BY <1>1, <2>3, <2>4
    <3>2. [inode EXCEPT ![i] = new] \in Seq(ByteSeq) /\ Len([inode EXCEPT ![i] = new]) = Len(inode)
      BY <3>1, ExceptAnywhere
    <3>3. QED
      BY <3>1, <3>2
  <2>6. pos' \in Seq(Nat) /\ Len(pos') = Len(desc)
    <3> DEFINE N == Nat
    <3>1. pos \in Seq(N) /\ end \in N /\ pos' = [pos EXCEPT ![d] = end]
      BY <1>1, <2>3, <2>4
    <3> HIDE DEF N
    <3>2. [pos EXCEPT ![d] = end] \in Seq(N) /\ Len([pos EXCEPT ![d] = end]) = Len(pos)
      BY <3>1, ExceptAnywhere
    <3>3. QED
      BY <1>1, <3>1, <3>2 DEF N
  <2>7. QED
    BY <2>3, <2>5, <2>6 DEF Typed, FilesTyped
<1>3. CASE desc[d].kind = "stream" /\ desc[d].tx \in 1..Len(stream)
           /\ Len(stream[desc[d].tx]) + n <= Capacity
  <2> DEFINE tx == desc[d].tx
             old == stream[tx]
             new == old \o bytes
  <2>1. old \in ByteSeq /\ Len(old) \in Nat
    BY <1>1, <1>3 DEF ByteSeq
  <2>2. stream' = [stream EXCEPT ![tx] = new] /\ UNCHANGED <<inode, pos>>
    BY <1>a, <1>3 DEF Deliver
  <2>3. Len(old) + n <= Capacity
    BY <1>3
  <2> HIDE DEF old
  <2>4. new \in ByteSeq /\ Len(new) <= Capacity
    <3>1. new \in ByteSeq /\ Len(new) = Len(old) + Len(bytes)
      BY <1>0, <2>1, ConcatProperties DEF ByteSeq
    <3>2. QED
      BY <1>0, <2>3, <3>1
  <2> HIDE DEF new
  <2>5. /\ stream' \in Seq(ByteSeq) /\ Len(stream') = Len(stream)
        /\ \A s \in 1..Len(stream) : stream'[s] = IF s = tx THEN new ELSE stream[s]
    BY <1>1, <1>3, <2>2, <2>4, ExceptSeq
  <2>6. \A s \in 1..Len(stream') : Len(stream'[s]) <= Capacity
    BY <2>4, <2>5 DEF Typed, FilesTyped
  <2>7. QED
    BY <2>2, <2>5, <2>6 DEF Typed, FilesTyped
<1>4. QED
  BY <1>2, <1>3, AcceptedFits

LEMMA WriteTyped ==
  ASSUME IInv, Typed, NEW p \in Procs, WriteStep(p), UNCHANGED page
  PROVE  FilesTyped' /\ HistTyped' /\ CallsTyped'
<1> DEFINE c == call[p]
<1>1. c \in [op : {"write"}, d : 1..Len(desc), rest : ByteSeq] /\ st[p] = "running"
  BY CallParts DEF WriteStep
<1>2. PICK n \in 0..Len(c.rest) :
        /\ Accepts(c.d, c.rest, n)
        /\ IF n = 0 THEN UNCHANGED <<pos, inode, stream>>
                    ELSE Deliver(c.d, SubSeq(c.rest, 1, n), Zero)
        /\ Becomes(p, IF n = 0 \/ n = Len(c.rest) THEN Idle
                      ELSE [c EXCEPT !.rest = SubSeq(@, n + 1, Len(@))])
  BY DEF WriteStep
<1>3. UNCHANGED <<st, table, desc, backlog, name, port, line, buf, hist, left>>
  BY DEF WriteStep
<1>4. FilesTyped' /\ Len(stream') = Len(stream)
  <2>1. CASE n = 0
    <3>1. UNCHANGED <<pos, inode, stream>>
      BY <1>2, <2>1
    <3>2. QED
      BY <1>3, <3>1, FilesKept
  <2>2. CASE n # 0
    BY <1>1, <1>2, <1>3, <2>2, DeliverOk
  <2>3. QED
    BY <2>1, <2>2
<1>5. HistTyped'
  BY <1>3, <1>4 DEF Typed, HistTyped
<1> DEFINE on == [c EXCEPT !.rest = SubSeq(@, n + 1, Len(@))]
<1>6. on \in Call(Len(desc), Len(page)) /\ Idle \in Call(Len(desc), Len(page))
  <2> DEFINE rest == SubSeq(c.rest, n + 1, Len(c.rest))
  <2>1. rest \in ByteSeq
    <3>1. c.rest \in ByteSeq /\ Len(c.rest) \in Nat
      BY <1>1 DEF ByteSeq
    <3>2. QED
      BY <3>1, TakenIsBytes
  <2>2. on = [c EXCEPT !.rest = rest]
    OBVIOUS
  <2> HIDE DEF rest, on
  <2>3. QED
    BY <1>1, <2>1, <2>2 DEF Call
<1>7. \E c2 \in {Idle, on} : Becomes(p, c2)
  BY <1>2
<1> HIDE DEF on
<1>8. CallsTyped'
  <2>1. PICK c2 \in {Idle, on} : Becomes(p, c2)
    BY <1>7
  <2>2. line' \in [Procs -> ByteSeq] /\ buf' \in [Procs -> ByteSeq]
    BY <1>3 DEF Typed, CallsTyped
  <2>3. Len(desc') \in Nat /\ Len(desc) <= Len(desc') /\ c2 \in Call(Len(desc'), Len(page))
    BY <1>3, <1>6, LensAreNat
  <2>4. QED
    BY <1>1, <1>3, <2>1, <2>2, <2>3, CallMade
<1>9. QED
  BY <1>4, <1>5, <1>8

LEMMA ExecTyped ==
  ASSUME IInv, Typed, NEW p \in Procs, ExecFeed(p) \/ CommandStep(p) \/ ExecDrain(p),
         UNCHANGED page
  PROVE  FilesTyped' /\ HistTyped' /\ CallsTyped'
<1> DEFINE c == call[p]
<1>1. /\ c \in [op : {"exec"}, rest : ByteSeq, to : ByteSeq, from : ByteSeq, all : ByteSeq]
      /\ st[p] = "running"
  BY CallParts DEF ExecFeed, CommandStep, ExecDrain
<1>2. ASSUME NEW c2 \in Call(Len(desc), Len(page)), Becomes(p, c2),
             UNCHANGED <<kernelVars, line, buf, hist>>
      PROVE  FilesTyped' /\ HistTyped' /\ CallsTyped'
  <2>1. line' \in [Procs -> ByteSeq] /\ buf' \in [Procs -> ByteSeq]
    BY <1>2 DEF Typed, CallsTyped
  <2>2. QED
    BY <1>1, <1>2, <2>1, CallOnly
<1>3. CASE ExecFeed(p)
  <2> DEFINE free == Capacity - Len(c.to)
             all == Len(c.rest)
             n == Min({free, all})
             rest == SubSeq(c.rest, n + 1, all)
             more == SubSeq(c.rest, 1, n)
             to == c.to \o more
             on == [c EXCEPT !.rest = rest, !.to = to]
  <2>1. n > 0 /\ Becomes(p, on) /\ UNCHANGED <<kernelVars, line, buf, hist>>
    BY <1>3 DEF ExecFeed
  <2>2. free \in Int /\ all \in Nat
    BY <1>1, CapacityAssumption DEF ByteSeq
  <2>3. n \in Nat /\ n <= all
    <3>1. free \in Int /\ all \in Int /\ n = Min({free, all})
      BY <2>2
    <3> HIDE DEF free, all, n
    <3>2. n \in {free, all} /\ n <= all
      BY <3>1, MinOfTwo
    <3>3. n \in Int
      BY <3>1, <3>2
    <3>4. QED
      BY <2>1, <3>2, <3>3
  <2> HIDE DEF n
  <2>4. rest \in ByteSeq /\ more \in ByteSeq /\ c.to \in ByteSeq
    BY <1>1, <2>3, TakenIsBytes
  <2> HIDE DEF rest, more
  <2>5. to \in ByteSeq
    BY <2>4, ConcatProperties DEF ByteSeq
  <2> HIDE DEF to
  <2>6. on \in Call(Len(desc), Len(page))
    BY <1>1, <2>4, <2>5 DEF Call
  <2>7. QED
    BY <1>2, <2>1, <2>6
<1>4. CASE CommandStep(p)
  <2> DEFINE to == Tail(c.to)
             from == Append(c.from, Head(c.to))
             on == [c EXCEPT !.to = to, !.from = from]
  <2>1. c.to # <<>> /\ Becomes(p, on) /\ UNCHANGED <<kernelVars, line, buf, hist>>
    BY <1>4 DEF CommandStep
  <2>2. to \in ByteSeq /\ Head(c.to) \in Byte /\ c.from \in ByteSeq
    BY <1>1, <2>1, SomeRead
  <2>3. from \in ByteSeq
    BY <2>2, AppendProperties DEF ByteSeq
  <2> HIDE DEF to, from
  <2>4. on \in Call(Len(desc), Len(page))
    BY <1>1, <2>2, <2>3 DEF Call
  <2>5. QED
    BY <1>2, <2>1, <2>4
<1>5. CASE ExecDrain(p)
  <2> DEFINE on == [c EXCEPT !.from = <<>>]
  <2>1. (Becomes(p, on) \/ Becomes(p, Idle)) /\ UNCHANGED <<kernelVars, line, buf, hist>>
    BY <1>5 DEF ExecDrain
  <2>2. on \in Call(Len(desc), Len(page)) /\ Idle \in Call(Len(desc), Len(page))
    BY <1>1, BytesAndTexts DEF Call
  <2> HIDE DEF on
  <2>3. QED
    BY <1>2, <2>1, <2>2
<1>6. QED
  BY <1>3, <1>4, <1>5

LEMMA CallStepTyped ==
  ASSUME IInv, Typed, NEW p \in Procs, CallStep(p), UNCHANGED mailVars
  PROVE  FilesTyped' /\ HistTyped' /\ CallsTyped'
<1>1. UNCHANGED page
  BY DEF mailVars
<1>2. CASE Accept(p)
  <2>1. /\ call[p].op = "accept" /\ Becomes(p, Idle)
        /\ UNCHANGED <<st, desc, pos, inode, name, stream, line, buf, hist>>
    BY <1>2 DEF Accept
  <2>2. st[p] = "running"
    BY <2>1, CallParts
  <2>3. FilesTyped' /\ HistTyped'
    BY <2>1, FilesKept, HistKept
  <2>4. CallsTyped'
    <3>1. Len(desc') \in Nat /\ Len(desc) <= Len(desc') /\ Idle \in Call(Len(desc'), Len(page))
      BY <2>1, LensAreNat DEF Call
    <3>2. line' \in [Procs -> ByteSeq] /\ buf' \in [Procs -> ByteSeq]
      BY <2>1 DEF Typed, CallsTyped
    <3>3. QED
      BY <1>1, <2>1, <2>2, <3>1, <3>2, CallMade
  <2>5. QED
    BY <2>3, <2>4
<1>3. QED
  BY <1>1, <1>2, ReadLineTyped, ReadBufferTyped, WriteTyped, ExecTyped DEF CallStep

-----------------------------------------------------------------------------
(* Messages.                                                                *)

\* What Bytes adds up.
LEMMA BytesAre ==
  ASSUME NEW q \in Seq(Datagram)
  PROVE  \E sum \in [0..Len(q) -> Nat] :
           /\ sum[0] = 0 /\ \A k \in 1..Len(q) : sum[k] = sum[k - 1] + Len(q[k].text)
           /\ Bytes(q) = sum[Len(q)]
<1> DEFINE Sums(f) == f = [k \in 0..Len(q) |-> IF k = 0 THEN 0 ELSE f[k - 1] + Len(q[k].text)]
           n == Len(q)
           size(k) == Len(q[k].text)
<1>1. n \in Nat
  OBVIOUS
<1>2. \A k \in 1..n : size(k) \in Nat
  <2> TAKE k \in 1..n
  <2>1. q[k] \in Datagram
    OBVIOUS
  <2>2. q[k].text \in Seq(Byte)
    BY <2>1 DEF Datagram, ByteSeq
  <2>3. QED
    BY <2>2
<1> HIDE DEF n, size
<1> DEFINE step == [k \in 1..n |-> [m \in Nat |-> m + size(k)]]
<1>3. step \in [1..n -> [Nat -> Nat]]
  BY <1>2
<1>4. \E f \in [0..n -> Nat] : f[0] = 0 /\ \A k \in 1..n : f[k] = step[k][f[k - 1]]
  <2> DEFINE N == Nat
             zero == 0
             from == [k \in 1..n |-> [m \in N |-> m + size(k)]]
  <2>1. n \in Nat /\ zero \in N /\ from \in [1..n -> [N -> N]]
    BY <1>1, <1>3
  <2> HIDE DEF from, N, zero
  <2>2. \E f : Iterates(f, n, N, zero, from)
    BY <2>1, RecursionExists
  <2>3. \E f \in [0..n -> N] : f[0] = zero /\ \A k \in 1..n : f[k] = from[k][f[k - 1]]
    BY <2>2 DEF Iterates
  <2>4. QED
    BY <2>3 DEF N, zero, from
<1>5. PICK f \in [0..n -> Nat] : f[0] = 0 /\ \A k \in 1..n : f[k] = step[k][f[k - 1]]
  BY <1>4
<1>6. ASSUME NEW k \in 0..n, k # 0
      PROVE  k \in 1..n /\ k - 1 \in 0..n /\ f[k] = f[k - 1] + size(k)
  <2>1. k \in 1..n /\ k - 1 \in 0..n
    BY <1>1, <1>6
  <2>2. f[k - 1] \in Nat
    BY <2>1
  <2>3. step[k][f[k - 1]] = f[k - 1] + size(k)
    BY <2>1, <2>2
  <2> HIDE DEF step
  <2>4. QED
    BY <1>5, <2>1, <2>3
<1>7. f = [k \in 0..n |-> IF k = 0 THEN 0 ELSE f[k - 1] + size(k)]
  BY <1>1, <1>5, <1>6
<1> DEFINE sum == CHOOSE g : g = [k \in 0..n |-> IF k = 0 THEN 0 ELSE g[k - 1] + size(k)]
<1>8. sum = [k \in 0..n |-> IF k = 0 THEN 0 ELSE sum[k - 1] + size(k)]
  BY <1>7
<1>9. Bytes(q) = sum[n]
  BY DEF Bytes, n, size
<1> HIDE DEF sum
<1>10. /\ DOMAIN sum = 0..n /\ sum[0] = 0
       /\ \A k \in 1..n : sum[k] = sum[k - 1] + size(k)
  BY <1>1, <1>8
<1>11. \A k \in 0..n : k \in {x \in 0..n : sum[x] \in Nat}
  <2> DEFINE S == {x \in 0..n : sum[x] \in Nat}
  <2>1. 0 \in S
    BY <1>1, <1>10
  <2>2. \A k \in 1..n : k - 1 \in S => k \in S
    BY <1>1, <1>2, <1>10
  <2> HIDE DEF S
  <2>3. \A k \in 0..n : k \in S
    BY <1>1, <2>1, <2>2, CountUp
  <2>4. QED
    BY <2>3 DEF S
<1>12. sum \in [0..n -> Nat]
  BY <1>8, <1>11
<1>13. QED
  BY <1>9, <1>10, <1>12 DEF n, size

LEMMA BytesOfNone == Bytes(<<>>) = 0
<1>1. <<>> \in Seq(Datagram) /\ Len(<<>>) = 0
  OBVIOUS
<1>2. QED
  BY <1>1, BytesAre

LEMMA TextLength ==
  ASSUME NEW m \in Datagram
  PROVE  Len(m.text) \in Nat
<1>1. m.text \in Seq(Byte)
  BY DEF Datagram, ByteSeq
<1>2. QED
  BY <1>1

\* A datagram more is as many bytes more as its text is long.
LEMMA BytesOfAppend ==
  ASSUME NEW q \in Seq(Datagram), NEW m \in Datagram
  PROVE  Bytes(Append(q, m)) = Bytes(q) + Len(m.text) /\ Bytes(q) \in Nat
<1> DEFINE n == Len(q)
           r == Append(q, m)
<1>1. /\ n \in Nat /\ r \in Seq(Datagram) /\ Len(r) = n + 1
      /\ r[n + 1] = m /\ \A k \in 1..n : r[k] = q[k]
  BY AppendProperties
<1>2. PICK s \in [0..n -> Nat] :
        /\ s[0] = 0 /\ \A k \in 1..n : s[k] = s[k - 1] + Len(q[k].text)
        /\ Bytes(q) = s[n]
  BY BytesAre
<1> HIDE DEF r
<1>3. PICK t \in [0..Len(r) -> Nat] :
        /\ t[0] = 0 /\ \A k \in 1..Len(r) : t[k] = t[k - 1] + Len(r[k].text)
        /\ Bytes(r) = t[Len(r)]
  BY <1>1, BytesAre
<1> HIDE DEF n
<1> DEFINE Same == {k \in 0..n : s[k] = t[k]}
<1>4. 0 \in Same
  BY <1>1, <1>2, <1>3
<1>5. ASSUME NEW k \in 1..n, k - 1 \in Same
      PROVE  k \in Same
  <2>1. k \in 1..n + 1 /\ k \in 0..n /\ s[k - 1] = t[k - 1] /\ r[k] = q[k]
    BY <1>1, <1>5
  <2>2. s[k] = s[k - 1] + Len(q[k].text) /\ t[k] = t[k - 1] + Len(r[k].text)
    BY <1>1, <1>2, <1>3, <2>1
  <2>3. QED
    BY <2>1, <2>2
<1> HIDE DEF Same
<1>6. n \in Same
  <2>1. \A k \in 0..n : k \in Same
    BY <1>1, <1>4, <1>5, CountUp
  <2>2. QED
    BY <1>1, <2>1
<1>7. t[n + 1] = t[n] + Len(m.text)
  <2>1. n + 1 \in 1..Len(r) /\ n + 1 - 1 = n
    BY <1>1
  <2>2. QED
    BY <1>1, <1>3, <2>1
<1>8. Bytes(r) = Bytes(q) + Len(m.text)
  BY <1>1, <1>2, <1>3, <1>6, <1>7 DEF Same
<1>9. QED
  BY <1>1, <1>2, <1>8 DEF r

\* A queue without its first datagram is no longer.
LEMMA BytesOfTail ==
  ASSUME NEW q \in Seq(Datagram), q # <<>>
  PROVE  Bytes(Tail(q)) <= Bytes(q) /\ Bytes(q) \in Nat /\ Bytes(Tail(q)) \in Nat
<1> DEFINE n == Len(q)
           r == Tail(q)
           first == Len(q[1].text)
<1>1. /\ n \in Nat /\ n >= 1 /\ r \in Seq(Datagram) /\ Len(r) = n - 1
      /\ \A k \in 1..n - 1 : r[k] = q[k + 1]
  BY HeadTailProperties
<1>a. first \in Nat
  <2>1. q[1] \in Datagram
    BY <1>1
  <2>2. QED
    BY <2>1, TextLength
<1>2. PICK s \in [0..n -> Nat] :
        /\ s[0] = 0 /\ \A k \in 1..n : s[k] = s[k - 1] + Len(q[k].text)
        /\ Bytes(q) = s[n]
  BY BytesAre
<1>s. s[1] = first
  <2>1. 1 \in 1..n /\ 1 - 1 = 0
    BY <1>1
  <2>2. s[1] = s[1 - 1] + Len(q[1].text)
    BY <1>2, <2>1
  <2>3. QED
    BY <1>2, <1>a, <2>2
<1> HIDE DEF r
<1>3. PICK t \in [0..Len(r) -> Nat] :
        /\ t[0] = 0 /\ \A k \in 1..Len(r) : t[k] = t[k - 1] + Len(r[k].text)
        /\ Bytes(r) = t[Len(r)]
  BY <1>1, BytesAre
<1> HIDE DEF n, first
<1> DEFINE Same == {k \in 0..n - 1 : s[k + 1] = t[k] + first}
<1>4. 0 \in Same
  BY <1>1, <1>a, <1>s, <1>3
<1>5. ASSUME NEW k \in 1..n - 1, k - 1 \in Same
      PROVE  k \in Same
  <2>1. /\ k \in 1..Len(r) /\ k \in 0..n - 1 /\ k + 1 \in 1..n /\ k + 1 - 1 = k
        /\ k - 1 \in 0..Len(r) /\ k - 1 + 1 = k
    BY <1>1
  <2>2. s[k] = t[k - 1] + first /\ r[k] = q[k + 1]
    BY <1>1, <1>5, <2>1
  <2>3. s[k + 1] = s[k] + Len(q[k + 1].text) /\ t[k] = t[k - 1] + Len(r[k].text)
    <3>1. s[k + 1] = s[k + 1 - 1] + Len(q[k + 1].text)
      BY <1>2, <2>1
    <3>2. QED
      BY <1>3, <2>1, <3>1
  <2>4. t[k - 1] \in Nat /\ Len(q[k + 1].text) \in Nat
    <3>1. q[k + 1] \in Datagram
      BY <2>1 DEF n
    <3>2. QED
      BY <1>3, <2>1, <3>1, TextLength
  <2>5. s[k + 1] = t[k] + first
    BY <1>a, <2>2, <2>3, <2>4
  <2>6. QED
    BY <2>1, <2>5
<1> HIDE DEF Same
<1>6. n - 1 \in Same
  <2>1. n - 1 \in Nat
    BY <1>1
  <2>2. \A k \in 0..n - 1 : k \in Same
    BY <1>4, <1>5, <2>1, CountUp
  <2>3. QED
    BY <2>1, <2>2
<1>7. s[n] = t[n - 1] + first /\ t[n - 1] \in Nat
  <2>1. n - 1 + 1 = n /\ n - 1 \in 0..Len(r)
    BY <1>1
  <2>2. QED
    BY <1>3, <1>6, <2>1 DEF Same
<1>8. Bytes(r) = t[n - 1] /\ Bytes(q) = t[n - 1] + first
  BY <1>1, <1>2, <1>3, <1>7
<1>9. QED
  BY <1>7, <1>8, <1>a DEF r

\* The socket under a label is that of a channel with the label.
LEMMA PeerEndFacts ==
  ASSUME IInv, Typed, NEW p \in Procs, NEW n, NEW e \in PeerEnd(p, n)
  PROVE  /\ \E i \in 1..Len(chans[p]) : chans[p][i].pid = n /\ chans[p][i].end = e
         /\ n \in Number /\ e \in (1..Len(mail)) \X (1..2)
<1> DEFINE at == {i \in 1..Len(chans[p]) : chans[p][i].pid = n}
<1>1. at # {} /\ e = chans[p][Min(at)].end
  BY DEF PeerEnd
<1>2. at \in SUBSET Nat
  BY DEF Typed, MailTyped
<1>3. Min(at) \in at
  <2> HIDE DEF at
  <2>1. QED
    BY <1>1, <1>2, MinOfSome
<1>4. PICK i \in 1..Len(chans[p]) : i = Min(at) /\ chans[p][i].pid = n
  BY <1>3
<1>5. chans[p][i] \in [pid : Number, end : (1..Len(mail)) \X (1..2)]
  <2> DEFINE C == [pid : Number, end : (1..Len(mail)) \X (1..2)]
  <2>1. chans[p] \in Seq(C)
    BY DEF Typed, MailTyped
  <2> HIDE DEF C
  <2>2. chans[p][i] \in C
    BY <2>1
  <2>3. QED
    BY <2>2 DEF C
<1>6. chans[p][i].end = e
  BY <1>1, <1>4
<1>7. QED
  BY <1>4, <1>5, <1>6

\* One queue of a channel is set.
LEMMA QueueSet ==
  ASSUME Typed, NEW k \in 1..Len(mail), NEW e \in 1..2, NEW q \in Seq(Datagram),
         mail' = [mail EXCEPT ![k][e] = q]
  PROVE  /\ mail' \in Seq([1..2 -> Seq(Datagram)]) /\ Len(mail') = Len(mail)
         /\ \A l \in 1..Len(mail), f \in 1..2 :
              mail'[l][f] = IF l = k /\ f = e THEN q ELSE mail[l][f]
<1> DEFINE Q == Seq(Datagram)
           both == [mail[k] EXCEPT ![e] = q]
<1>1. mail \in Seq([1..2 -> Q]) /\ mail' = [mail EXCEPT ![k] = both] /\ q \in Q
  BY DEF Typed, MailTyped
<1> HIDE DEF Q
<1>2. both \in [1..2 -> Q] /\ \A f \in 1..2 : both[f] = IF f = e THEN q ELSE mail[k][f]
  <2>1. mail[k] \in [1..2 -> Q]
    BY <1>1
  <2>2. QED
    BY <1>1, <2>1
<1> HIDE DEF both
<1>3. /\ mail' \in Seq([1..2 -> Q]) /\ Len(mail') = Len(mail)
      /\ \A l \in 1..Len(mail) : mail'[l] = IF l = k THEN both ELSE mail[l]
  <2> DEFINE T == [1..2 -> Q]
  <2>1. mail \in Seq(T) /\ both \in T /\ mail' = [mail EXCEPT ![k] = both]
    BY <1>1, <1>2
  <2> HIDE DEF T
  <2> DEFINE new == [mail EXCEPT ![k] = both]
  <2>2. /\ new \in Seq(T) /\ Len(new) = Len(mail)
        /\ \A l \in 1..Len(mail) : new[l] = IF l = k THEN both ELSE mail[l]
    BY <2>1, ExceptSeq
  <2> HIDE DEF new
  <2>3. mail' = new
    BY <2>1 DEF new
  <2>4. QED
    BY <2>2, <2>3 DEF T
<1>4. QED
  BY <1>2, <1>3 DEF Q

Posts(p, n, text, k, e, i, m) ==
  /\ m.by = p /\ m.pid = pid[p] /\ m.to = n /\ m.text = text /\ st[p] = "running"
  /\ chans[p][i].pid = n /\ chans[p][i].end = Other(<<k, e>>)
  /\ Bytes(mail[k][e]) + Len(text) <= MailBytes
  /\ mail' = [mail EXCEPT ![k][e] = Append(mail[k][e], m)]

\* send puts one datagram at the end of the queue to the other end of the
\* first channel with the label.
LEMMA SendDoes ==
  ASSUME IInv, Typed, NEW p \in Procs, NEW n, NEW text \in Texts, Send(p, n, text)
  PROVE  \E k \in 1..Len(mail), e \in 1..2, i \in 1..Len(chans[p]), m \in Datagram :
           Posts(p, n, text, k, e, i, m)
<1> DEFINE m == [by |-> p, pid |-> pid[p], to |-> n, text |-> text]
<1>1. PICK end \in PeerEnd(p, n) :
        LET to == Other(end) IN
        /\ Bytes(mail[to[1]][to[2]]) + Len(text) <= MailBytes
        /\ mail' = [mail EXCEPT ![to[1]][to[2]] = Append(@, m)]
  BY DEF Send
<1>2. PICK i \in 1..Len(chans[p]) : chans[p][i].pid = n /\ chans[p][i].end = end
  BY PeerEndFacts
<1>3. n \in Number /\ end \in (1..Len(mail)) \X (1..2)
  BY PeerEndFacts
<1> DEFINE k == end[1]
           e == 3 - end[2]
<1>4. k \in 1..Len(mail) /\ e \in 1..2 /\ end = Other(<<k, e>>) /\ Other(end) = <<k, e>>
  BY <1>3 DEF Other
<1>5. m \in Datagram
  BY <1>3, BytesAndTexts DEF Datagram, Typed, MailTyped
<1>6. /\ Bytes(mail[k][e]) + Len(text) <= MailBytes
      /\ mail' = [mail EXCEPT ![k][e] = Append(mail[k][e], m)]
  <2> DEFINE to == Other(end)
  <2>1. to[1] = k /\ to[2] = e
    BY <1>4
  <2>2. /\ Bytes(mail[to[1]][to[2]]) + Len(text) <= MailBytes
        /\ mail' = [mail EXCEPT ![to[1]][to[2]] = Append(mail[to[1]][to[2]], m)]
    BY <1>1
  <2> HIDE DEF to, m, k, e
  <2>3. QED
    BY <2>1, <2>2
<1> HIDE DEF m, k, e
<1>7. st[p] = "running"
  BY BeginFacts DEF Send
<1>8. m.by = p /\ m.pid = pid[p] /\ m.to = n /\ m.text = text
  BY DEF m
<1>9. QED
  BY <1>2, <1>4, <1>5, <1>6, <1>7, <1>8, Zenon DEF Posts

\* receive takes the first datagram of the queue of its end, and keeps no
\* more of its text than it asked for.
LEMMA ReceiveDoes ==
  ASSUME IInv, Typed, NEW p \in Procs, NEW n, Receive(p, n)
  PROVE  \E k \in 1..Len(mail), e \in 1..2, i \in 1..Len(chans[p]), value \in Datagram :
           /\ chans[p][i].pid = n /\ chans[p][i].end = <<k, e>> /\ n \in Number
           /\ st[p] = "running" /\ mail[k][e] # <<>>
           /\ mail' = [mail EXCEPT ![k][e] = Tail(mail[k][e])]
           /\ value.by = mail[k][e][1].by /\ value.pid = mail[k][e][1].pid
           /\ value.to = mail[k][e][1].to
           /\ inbox' \in {inbox, [inbox EXCEPT ![p] = Append(inbox[p], [as |-> n, mail |-> value])]}
<1>1. PICK end \in PeerEnd(p, n) :
        /\ mail[end[1]][end[2]] # <<>>
        /\ mail' = [mail EXCEPT ![end[1]][end[2]] = Tail(@)]
        /\ LET m == Head(mail[end[1]][end[2]])
               value == [m EXCEPT !.text = SubSeq(@, 1, Min({RecvMax, Len(@)}))]
           IN  inbox' \in {inbox, [inbox EXCEPT ![p] = Append(@, [as |-> n, mail |-> value])]}
  BY DEF Receive
<1>2. PICK i \in 1..Len(chans[p]) : chans[p][i].pid = n /\ chans[p][i].end = end
  BY PeerEndFacts
<1>3. n \in Number /\ end \in (1..Len(mail)) \X (1..2)
  BY PeerEndFacts
<1> DEFINE k == end[1]
           e == end[2]
           m == mail[k][e][1]
           size == Len(m.text)
           cut == SubSeq(m.text, 1, Min({RecvMax, size}))
           value == [m EXCEPT !.text = cut]
<1>4. k \in 1..Len(mail) /\ e \in 1..2 /\ end = <<k, e>>
  BY <1>3
<1>5. mail[k][e] \in Seq(Datagram) /\ mail[k][e] # <<>>
  BY SMTT(30), <1>1, <1>4 DEF Typed, MailTyped
<1>6. m \in Datagram /\ Head(mail[k][e]) = m
  BY <1>5
<1>7. value \in Datagram /\ value.by = m.by /\ value.pid = m.pid /\ value.to = m.to
  <2>1. size \in Nat
    BY <1>6, TextLength
  <2>2. Min({RecvMax, size}) \in Nat /\ Min({RecvMax, size}) <= size
    <3>1. RecvMax \in Int /\ size \in Int
      BY <2>1, MailAssumption
    <3> HIDE DEF size
    <3>2. Min({RecvMax, size}) \in {RecvMax, size} /\ Min({RecvMax, size}) <= size
      BY <3>1, MinOfTwo
    <3>3. QED
      BY <2>1, <3>2, MailAssumption
  <2>3. m.text \in ByteSeq
    BY <1>6 DEF Datagram
  <2>4. cut \in ByteSeq
    BY <2>2, <2>3, TakenIsBytes
  <2> HIDE DEF cut, m
  <2>5. QED
    BY <1>6, <2>4 DEF Datagram
<1>8. inbox' \in {inbox, [inbox EXCEPT ![p] = Append(inbox[p], [as |-> n, mail |-> value])]}
  BY <1>1, <1>6
<1>9. mail' = [mail EXCEPT ![k][e] = Tail(mail[k][e])]
  BY <1>1
<1>10. st[p] = "running"
  BY BeginFacts DEF Receive
<1> HIDE DEF value
<1>11. QED
  BY <1>2, <1>3, <1>4, <1>5, <1>7, <1>8, <1>9, <1>10

-----------------------------------------------------------------------------
(* Pages.                                                                   *)

\* One page is set.
LEMMA PageSet ==
  ASSUME Typed, NEW k \in 1..Len(page), NEW new \in Page, page' = [page EXCEPT ![k] = new]
  PROVE  /\ page' \in Seq(Page) /\ Len(page') = Len(page) /\ Len(page) \in Nat
         /\ \A j \in 1..Len(page) : page'[j] = IF j = k THEN new ELSE page[j]
<1> DEFINE then == [page EXCEPT ![k] = new]
<1>1. page \in Seq(Page) /\ Len(page) \in Nat
  BY DEF Typed, PagesTyped
<1>2. /\ then \in Seq(Page) /\ Len(then) = Len(page)
      /\ \A j \in 1..Len(page) : then[j] = IF j = k THEN new ELSE page[j]
  BY <1>1, ExceptSeq
<1>3. page' = then
  OBVIOUS
<1> HIDE DEF then
<1>4. QED
  BY <1>1, <1>2, <1>3

\* A page that is known exists.
LEMMA KnownPage ==
  ASSUME Typed, NEW p \in Procs, NEW k \in pages[p]
  PROVE  k \in 1..Len(page)
BY DEF Typed, PagesTyped

\* The first half of a write stores the length.
LEMMA PageWriteBegins ==
  ASSUME IInv, Typed, NEW p \in Procs, NEW k \in pages[p], NEW text \in Texts,
         BeginPageWrite(p, k, text)
  PROVE  /\ k \in 1..Len(page) /\ Len(page) \in Nat /\ Len(text) \in Nat /\ st[p] = "running"
         /\ page' \in Seq(Page) /\ Len(page') = Len(page)
         /\ \A j \in 1..Len(page) : j # k => page'[j] = page[j]
         /\ page'[k].len = Len(text) /\ page'[k].bytes = page[k].bytes
         /\ page'[k].last = page[k].last
         /\ page'[k].mixed = (InWrite(k) # {})
<1> DEFINE busy == InWrite(k) # {}
           new == [page[k] EXCEPT !.len = Len(text), !.mixed = busy]
<1>1. k \in 1..Len(page) /\ page \in Seq(Page)
  BY KnownPage DEF Typed, PagesTyped
<1>2. page' = [page EXCEPT ![k].len = Len(text), ![k].mixed = busy]
  BY DEF BeginPageWrite
<1>3. busy \in BOOLEAN
  OBVIOUS
<1>4. st[p] = "running"
  BY BeginFacts DEF BeginPageWrite
<1> HIDE DEF busy
<1>5. page[k] \in Page /\ Len(text) \in Nat
  BY <1>1, BytesAndTexts DEF ByteSeq
<1>6. page' = [page EXCEPT ![k] = new]
  BY <1>1, <1>2, <1>5 DEF Page
<1>7. /\ new \in Page /\ new.len = Len(text) /\ new.bytes = page[k].bytes
      /\ new.last = page[k].last /\ new.mixed = busy
  BY <1>3, <1>5 DEF Page
<1> HIDE DEF new
<1>8. QED
  BY <1>1, <1>4, <1>5, <1>6, <1>7, PageSet DEF busy

\* The second half stores the bytes.
LEMMA PageWriteEnds ==
  ASSUME IInv, Typed, NEW p \in Procs, PageWriteEnd(p)
  PROVE  LET c == call[p] IN
         /\ c.k \in 1..Len(page) /\ Len(page) \in Nat /\ st[p] = "running" /\ c.text \in ByteSeq
         /\ page' \in Seq(Page) /\ Len(page') = Len(page)
         /\ \A j \in 1..Len(page) : j # c.k => page'[j] = page[j]
         /\ page'[c.k].len = page[c.k].len /\ page'[c.k].mixed = page[c.k].mixed
         /\ page'[c.k].last = c.text
         /\ page'[c.k].bytes = c.text \o SubSeq(page[c.k].bytes, Len(c.text) + 1,
                                                Len(page[c.k].bytes))
<1> DEFINE c == call[p]
           k == c.k
           text == c.text
           rest == SubSeq(page[k].bytes, Len(text) + 1, Len(page[k].bytes))
           bytes == text \o rest
           new == [page[k] EXCEPT !.bytes = bytes, !.last = text]
<1>1. c \in [op : {"page-write"}, k : 1..Len(page), text : ByteSeq] /\ st[p] = "running"
  BY CallParts DEF PageWriteEnd
<1>2. k \in 1..Len(page) /\ text \in ByteSeq
  BY <1>1
<1>3. page \in Seq(Page) /\ Len(page) \in Nat /\ page[k] \in Page
  BY <1>2 DEF Typed, PagesTyped
<1>4. page' = [page EXCEPT ![k].bytes = bytes, ![k].last = text]
  BY DEF PageWriteEnd
<1>5. bytes \in ByteSeq
  <2>1. page[k].bytes \in ByteSeq
    BY <1>3 DEF Page
  <2>2. Len(text) \in Nat /\ Len(page[k].bytes) \in Nat
    BY <1>2, <2>1 DEF ByteSeq
  <2>3. rest \in ByteSeq
    BY <2>1, <2>2, PartOfSeq DEF ByteSeq
  <2> HIDE DEF rest, text
  <2>4. QED
    BY <1>2, <2>3, ConcatProperties DEF ByteSeq
<1> HIDE DEF bytes, text, k
<1>6. page' = [page EXCEPT ![k] = new]
  BY <1>2, <1>3, <1>4 DEF Page
<1>7. /\ new \in Page /\ new.len = page[k].len /\ new.bytes = bytes
      /\ new.last = text /\ new.mixed = page[k].mixed
  BY <1>2, <1>3, <1>5 DEF Page
<1> HIDE DEF new
<1>8. /\ page' \in Seq(Page) /\ Len(page') = Len(page)
      /\ \A j \in 1..Len(page) : page'[j] = IF j = k THEN new ELSE page[j]
  BY <1>2, <1>6, <1>7, PageSet
<1>9. QED
  BY <1>1, <1>2, <1>3, <1>7, <1>8 DEF bytes, text, k

\* A record of a page that is being read says whether it is quiet.
LEMMA NoisyCall ==
  ASSUME NEW files, NEW shared, NEW c \in Call(files, shared), c.op = "page-read"
  PROVE  /\ [c EXCEPT !.quiet = FALSE] \in Call(files, shared)
         /\ [c EXCEPT !.quiet = FALSE] # Idle
<1>1. c \in [op : {"page-read"}, k : 1..shared, n : Nat, quiet : BOOLEAN]
  BY DEF Call, Idle
<1> DEFINE d == [c EXCEPT !.quiet = FALSE]
<1>2. d \in [op : {"page-read"}, k : 1..shared, n : Nat, quiet : BOOLEAN] /\ d.op = "page-read"
  BY <1>1
<1> HIDE DEF d
<1>3. d \in Call(files, shared) /\ d # Idle
  BY <1>2 DEF Call, Idle
<1>4. QED
  BY <1>3 DEF d

LEMMA PageCallsTyped ==
  ASSUME IInv, Typed, NEW p \in Procs,
         \/ PageWriteEnd(p) \/ PageReadEnd(p)
         \/ \E k \in pages[p] : (\E text \in Texts : BeginPageWrite(p, k, text))
                                \/ BeginPageRead(p, k)
  PROVE  CallsTyped' /\ PagesTyped'
<1>0. /\ Len(page) \in Nat /\ Len(desc) \in Nat /\ page \in Seq(Page)
      /\ line \in [Procs -> ByteSeq] /\ buf \in [Procs -> ByteSeq]
      /\ Idle \in Call(Len(desc), Len(page))
      /\ pages \in [Procs -> SUBSET (1..Len(page))]
  BY LensAreNat DEF Call, Typed, CallsTyped, PagesTyped
<1>1. ASSUME st[p] = "running", UNCHANGED <<kernelVars, line, buf, pages>>,
             page' \in Seq(Page), Len(page') = Len(page),
             NEW c \in Call(Len(desc), Len(page)), Becomes(p, c)
      PROVE  CallsTyped' /\ PagesTyped'
  <2>1. /\ DOMAIN call' = Procs /\ call'[p] = c
        /\ \A q \in Procs : q # p => call'[q] = call[q]
    BY <1>1 DEF Becomes, Typed, CallsTyped
  <2>2. UNCHANGED <<st, desc>>
    BY <1>1 DEF kernelVars
  <2>3. CallsTyped'
    BY <1>0, <1>1, <2>1, <2>2 DEF Typed, CallsTyped
  <2>4. PagesTyped'
    BY <1>0, <1>1 DEF PagesTyped
  <2>5. QED
    BY <2>3, <2>4
<1>2. CASE PageWriteEnd(p)
  <2>1. /\ st[p] = "running" /\ UNCHANGED <<kernelVars, line, buf, pages>> /\ Becomes(p, Idle)
        /\ page' \in Seq(Page) /\ Len(page') = Len(page)
    BY <1>2, PageWriteEnds DEF PageWriteEnd
  <2>2. QED
    BY <1>0, <1>1, <2>1
<1>3. CASE PageReadEnd(p)
  <2>1. /\ st[p] = "running" /\ UNCHANGED <<kernelVars, line, buf, pages, page>>
        /\ Becomes(p, Idle)
    BY <1>3, CallParts DEF PageReadEnd, mailVars
  <2>2. QED
    BY <1>0, <1>1, <2>1
<1>4. ASSUME NEW k \in pages[p], BeginPageRead(p, k)
      PROVE  CallsTyped' /\ PagesTyped'
  <2> DEFINE quiet == InWrite(k) = {}
             c == [op |-> "page-read", k |-> k, n |-> page[k].len, quiet |-> quiet]
  <2>1. /\ st[p] = "running" /\ UNCHANGED <<kernelVars, line, buf, pages, page>>
        /\ Becomes(p, c)
    BY <1>4, BeginFacts DEF BeginPageRead, mailVars
  <2>2. quiet \in BOOLEAN
    OBVIOUS
  <2>3. k \in 1..Len(page) /\ page[k].len \in Nat
    <3>1. k \in 1..Len(page)
      BY KnownPage
    <3>2. page[k] \in Page
      BY <1>0, <3>1
    <3>3. QED
      BY <3>1, <3>2 DEF Page
  <2> HIDE DEF quiet
  <2>4. c \in Call(Len(desc), Len(page))
    BY <2>2, <2>3 DEF Call
  <2>5. QED
    BY <1>0, <1>1, <2>1, <2>4
<1>5. ASSUME NEW k \in pages[p], NEW text \in Texts, BeginPageWrite(p, k, text)
      PROVE  CallsTyped' /\ PagesTyped'
  <2>1. /\ k \in 1..Len(page) /\ st[p] = "running"
        /\ page' \in Seq(Page) /\ Len(page') = Len(page)
    BY <1>5, PageWriteBegins
  <2>2. /\ UNCHANGED <<kernelVars, line, buf, pages>>
        /\ call' = [q \in Procs |->
             IF q = p THEN [op |-> "page-write", k |-> k, text |-> text]
             ELSE IF call[q].op = "page-read" THEN [call[q] EXCEPT !.quiet = FALSE]
             ELSE call[q]]
    BY <1>5 DEF BeginPageWrite
  <2>3. [op |-> "page-write", k |-> k, text |-> text] \in Call(Len(desc), Len(page))
    BY <2>1, BytesAndTexts DEF Call
  <2>4. ASSUME NEW q \in Procs
        PROVE  /\ call'[q] \in Call(Len(desc), Len(page))
               /\ st[q] # "running" => call'[q] = Idle
    <3>1. call[q] \in Call(Len(desc), Len(page)) /\ (st[q] # "running" => call[q] = Idle)
      BY DEF Typed, CallsTyped
    <3>2. CASE q = p
      BY <2>1, <2>2, <2>3, <3>2
    <3>3. CASE q # p /\ call[q].op = "page-read"
      <4>1. call'[q] = [call[q] EXCEPT !.quiet = FALSE] /\ st[q] = "running"
        BY <2>2, <3>3, CallParts
      <4>2. QED
        BY <3>1, <3>3, <4>1, NoisyCall
    <3>4. CASE q # p /\ call[q].op # "page-read"
      BY <2>2, <3>1, <3>4
    <3>5. QED
      BY <3>2, <3>3, <3>4
  <2>5. UNCHANGED <<st, desc>> /\ DOMAIN call' = Procs
    BY <2>2 DEF kernelVars
  <2>6. CallsTyped'
    BY <1>0, <2>1, <2>2, <2>4, <2>5 DEF Typed, CallsTyped
  <2>7. PagesTyped'
    BY <1>0, <2>1, <2>2 DEF PagesTyped
  <2>8. QED
    BY <2>6, <2>7
<1>6. QED
  BY <1>2, <1>3, <1>4, <1>5

LEMMA MailKept ==
  ASSUME Typed, UNCHANGED <<pid, made, chans, mail, inbox>>
  PROVE  MailTyped'
BY DEF Typed, MailTyped

LEMMA MailStepTyped ==
  ASSUME IInv, Typed, NEW p \in Procs, MailStep(p)
  PROVE  Typed'
<1>0. /\ FilesTyped' /\ HistTyped' /\ Len(desc') = Len(desc)
      /\ Len(desc) \in Nat /\ Len(page) \in Nat
  <2>1. UNCHANGED <<kernelVars, hist>>
    BY DEF MailStep, Send, Receive, NewPage, PageWriteEnd, PageReadEnd, BeginPageWrite,
           BeginPageRead
  <2>2. QED
    BY <2>1, FilesKept, HistKept, LensAreNat DEF kernelVars
<1>1. ASSUME NEW n, NEW text \in Texts, Send(p, n, text)
      PROVE  CallsTyped' /\ MailTyped' /\ PagesTyped'
  <2>1. UNCHANGED <<kernelVars, call, line, buf, pid, made, chans, inbox, page, pages>>
    BY <1>1 DEF Send
  <2>2. CallsTyped' /\ PagesTyped'
    BY <1>0, <2>1, CallsKept DEF kernelVars, Typed, PagesTyped
  <2>3. PICK k \in 1..Len(mail), e \in 1..2, i \in 1..Len(chans[p]), m \in Datagram :
          Posts(p, n, text, k, e, i, m)
    BY <1>1, SendDoes
  <2> DEFINE q == Append(mail[k][e], m)
  <2>4. mail[k][e] \in Seq(Datagram)
    <3>1. mail \in Seq([1..2 -> Seq(Datagram)])
      BY DEF Typed, MailTyped
    <3> DEFINE Queues == [1..2 -> Seq(Datagram)]
    <3>2. mail \in Seq(Queues)
      BY <3>1
    <3> HIDE DEF Queues
    <3>3. mail[k] \in Queues
      BY <3>2
    <3>4. QED
      BY <3>3 DEF Queues
  <2>5. q \in Seq(Datagram) /\ Bytes(q) <= MailBytes
    <3>1. Bytes(q) = Bytes(mail[k][e]) + Len(text)
      BY <2>3, <2>4, BytesOfAppend DEF Posts
    <3>2. QED
      BY <2>3, <2>4, <3>1, AppendProperties DEF Posts
  <2> HIDE DEF q
  <2>6. /\ mail' \in Seq([1..2 -> Seq(Datagram)]) /\ Len(mail') = Len(mail)
        /\ \A l \in 1..Len(mail), f \in 1..2 :
             mail'[l][f] = IF l = k /\ f = e THEN q ELSE mail[l][f]
    BY <2>3, <2>5, QueueSet DEF q, Posts
  <2>7. ASSUME NEW l \in 1..Len(mail), NEW f \in 1..2
        PROVE  Bytes(mail'[l][f]) <= MailBytes
    BY <2>5, <2>6 DEF Typed, MailTyped
  <2>8. MailTyped'
    BY <2>1, <2>6, <2>7 DEF Typed, MailTyped
  <2>9. QED
    BY <2>2, <2>8
<1>2. ASSUME NEW n, Receive(p, n)
      PROVE  CallsTyped' /\ MailTyped' /\ PagesTyped'
  <2>1. UNCHANGED <<kernelVars, call, line, buf, pid, made, chans, page, pages>>
    BY <1>2 DEF Receive
  <2>2. CallsTyped' /\ PagesTyped'
    BY <1>0, <2>1, CallsKept DEF kernelVars, Typed, PagesTyped
  <2>3. PICK k \in 1..Len(mail), e \in 1..2, i \in 1..Len(chans[p]), value \in Datagram :
           /\ chans[p][i].pid = n /\ chans[p][i].end = <<k, e>> /\ n \in Number
           /\ st[p] = "running" /\ mail[k][e] # <<>>
           /\ mail' = [mail EXCEPT ![k][e] = Tail(mail[k][e])]
           /\ value.by = mail[k][e][1].by /\ value.pid = mail[k][e][1].pid
           /\ value.to = mail[k][e][1].to
           /\ inbox' \in {inbox, [inbox EXCEPT ![p] = Append(inbox[p], [as |-> n, mail |-> value])]}
    BY <1>2, ReceiveDoes, Zenon
  <2> DEFINE q == Tail(mail[k][e])
             got == [as |-> n, mail |-> value]
  <2>4. mail[k][e] \in Seq(Datagram) /\ Bytes(mail[k][e]) <= MailBytes
    BY SMTT(30) DEF Typed, MailTyped
  <2>5. q \in Seq(Datagram) /\ Bytes(q) <= MailBytes
    <3>1. Bytes(q) <= Bytes(mail[k][e]) /\ Bytes(q) \in Nat /\ Bytes(mail[k][e]) \in Nat
      BY <2>3, <2>4, BytesOfTail
    <3>2. q \in Seq(Datagram)
      BY <2>3, <2>4, HeadTailProperties
    <3>3. QED
      BY <2>4, <3>1, <3>2, MailAssumption
  <2> HIDE DEF q
  <2>6. /\ mail' \in Seq([1..2 -> Seq(Datagram)]) /\ Len(mail') = Len(mail)
        /\ \A l \in 1..Len(mail), f \in 1..2 :
             mail'[l][f] = IF l = k /\ f = e THEN q ELSE mail[l][f]
    BY ZenonT(30), <2>3, <2>5, QueueSet DEF q
  <2>7. ASSUME NEW l \in 1..Len(mail), NEW f \in 1..2
        PROVE  Bytes(mail'[l][f]) <= MailBytes
    BY <2>5, <2>6 DEF Typed, MailTyped
  <2>8. inbox' \in [Procs -> Seq([as : Number, mail : Datagram])]
    <3> DEFINE G == [as : Number, mail : Datagram]
    <3>1. inbox \in [Procs -> Seq(G)] /\ got \in G
      BY <2>3 DEF Typed, MailTyped
    <3> HIDE DEF G, got
    <3>2. Append(inbox[p], got) \in Seq(G)
      BY <3>1, AppendProperties
    <3>3. inbox' \in {inbox, [inbox EXCEPT ![p] = Append(inbox[p], got)]}
      BY <2>3 DEF got
    <3>4. inbox' \in [Procs -> Seq(G)]
      BY <3>1, <3>2, <3>3
    <3>5. QED
      BY <3>4 DEF G
  <2>9. MailTyped'
    BY <2>1, <2>6, <2>7, <2>8 DEF Typed, MailTyped
  <2>10. QED
    BY <2>2, <2>9
<1>3. ASSUME NewPage(p)
      PROVE  CallsTyped' /\ MailTyped' /\ PagesTyped'
  <2> DEFINE new == [len |-> 0, bytes |-> <<>>, last |-> <<>>, mixed |-> FALSE]
  <2>1. /\ page' = Append(page, new) /\ pages' = [pages EXCEPT ![p] = @ \cup {Len(page) + 1}]
        /\ UNCHANGED <<kernelVars, call, line, buf, pid, made, chans, mail, inbox>>
    BY <1>3 DEF NewPage
  <2>2. new \in Page
    BY BytesAndTexts DEF Page
  <2> HIDE DEF new
  <2>3. page' \in Seq(Page) /\ Len(page') = Len(page) + 1
    BY <2>1, <2>2, AppendProperties DEF Typed, PagesTyped
  <2>4. pages' \in [Procs -> SUBSET (1..Len(page) + 1)]
    <3>1. 1..Len(page) \subseteq 1..Len(page) + 1 /\ Len(page) + 1 \in 1..Len(page) + 1
      BY <1>0
    <3>2. pages \in [Procs -> SUBSET (1..Len(page))]
      BY DEF Typed, PagesTyped
    <3>3. QED
      BY <2>1, <3>1, <3>2
  <2>5. CallsTyped'
    <3>1. Len(page') \in Nat /\ Len(page) <= Len(page')
      BY <1>0, <2>3
    <3>2. QED
      BY <1>0, <2>1, <3>1, CallsKept DEF kernelVars
  <2>6. QED
    BY <2>1, <2>3, <2>4, <2>5, MailKept DEF PagesTyped
<1>4. ASSUME \/ PageWriteEnd(p) \/ PageReadEnd(p)
             \/ \E k \in pages[p] : (\E text \in Texts : BeginPageWrite(p, k, text))
                                    \/ BeginPageRead(p, k)
      PROVE  CallsTyped' /\ MailTyped' /\ PagesTyped'
  <2>1. CallsTyped' /\ PagesTyped'
    BY <1>4, PageCallsTyped
  <2>2. UNCHANGED <<pid, made, chans, mail, inbox>>
    BY <1>4 DEF PageWriteEnd, PageReadEnd, BeginPageWrite, BeginPageRead, mailVars
  <2>3. QED
    BY <2>1, <2>2, MailKept
<1>5. QED
  BY <1>0, <1>1, <1>2, <1>3, <1>4 DEF MailStep, Typed

-----------------------------------------------------------------------------
(* Processes begin and end.                                                 *)

Channel(most) == [pid : Number, end : (1..most) \X (1..2)]

LEMMA ChildBegins ==
  ASSUME IInv, Typed, NEW p \in Procs, NEW q \in Procs, NEW how, Child(p, q, how)
  PROVE  /\ FilesTyped' /\ HistTyped' /\ CallsTyped' /\ PagesTyped'
         /\ pid' \in [Procs -> Number] /\ pid'[q] \in Pids /\ DOMAIN made' = Procs
         /\ \A r \in Procs : r # q => pid'[r] = pid[r] /\ made'[r] = made[r]
         /\ made'[q] = how /\ inbox' = inbox
         /\ \E n \in Pids \ {pid[r] : r \in Running} : pid'[q] = n
<1>1. /\ st[q] = "unborn" /\ st' = [st EXCEPT ![q] = "running"]
      /\ line' = [line EXCEPT ![q] = line[p]] /\ buf' = [buf EXCEPT ![q] = buf[p]]
      /\ made' = [made EXCEPT ![q] = how] /\ pages' = [pages EXCEPT ![q] = pages[p]]
      /\ UNCHANGED <<desc, pos, inode, name, stream, call, hist, inbox, page>>
  BY DEF Child
<1>2. PICK n \in Pids \ {pid[r] : r \in Running} : pid' = [pid EXCEPT ![q] = n]
  BY DEF Child
<1>3. FilesTyped' /\ HistTyped'
  BY <1>1, FilesKept, HistKept
<1>4. CallsTyped'
  <2>1. /\ st' \in [Procs -> {"unborn", "running", "gone"}]
        /\ \A r \in Procs : st'[r] = "running" \/ st'[r] = st[r]
    BY <1>1 DEF Typed, CallsTyped
  <2>2. line' \in [Procs -> ByteSeq] /\ buf' \in [Procs -> ByteSeq]
    BY <1>1 DEF Typed, CallsTyped
  <2>3. QED
    BY <1>1, <2>1, <2>2 DEF Typed, CallsTyped
<1>5. PagesTyped'
  <2>1. pages \in [Procs -> SUBSET (1..Len(page))] /\ page \in Seq(Page)
    BY DEF Typed, PagesTyped
  <2>2. pages' \in [Procs -> SUBSET (1..Len(page))]
    BY <1>1, <2>1
  <2>3. QED
    BY <1>1, <2>1, <2>2 DEF PagesTyped
<1>6. pid \in [Procs -> Number] /\ DOMAIN made = Procs /\ n \in Number
  BY DEF Typed, MailTyped, Number
<1>7. /\ pid' \in [Procs -> Number] /\ pid'[q] = n /\ DOMAIN made' = Procs
      /\ \A r \in Procs : r # q => pid'[r] = pid[r] /\ made'[r] = made[r]
      /\ made'[q] = how
  BY <1>1, <1>2, <1>6
<1>8. QED
  BY <1>1, <1>3, <1>4, <1>5, <1>7

\* The channel list of the child of a fork.
LEMMA ForkTyped ==
  ASSUME IInv, Typed, NEW p \in Procs, NEW q \in Procs, Fork(p, q)
  PROVE  Typed'
<1>1. /\ FilesTyped' /\ HistTyped' /\ CallsTyped' /\ PagesTyped'
      /\ pid' \in [Procs -> Number] /\ DOMAIN made' = Procs /\ inbox' = inbox
  BY ChildBegins DEF Fork
<1>2. chans' = [chans EXCEPT ![q] = chans[p]] /\ mail' = mail
  BY DEF Fork, ForkChannels
<1> DEFINE C == Channel(Len(mail))
<1>3. chans \in [Procs -> Seq(C)]
  BY DEF Typed, MailTyped, Channel
<1> HIDE DEF C
<1>4. chans' \in [Procs -> Seq(C)]
  BY <1>2, <1>3
<1>5. MailTyped'
  BY <1>1, <1>2, <1>4 DEF Typed, MailTyped, C, Channel
<1>6. QED
  BY <1>1, <1>5 DEF Typed

\* What spawn does to channels: none, or one with an end for each of the two.
LEMMA SpawnDoes ==
  ASSUME IInv, Typed, NEW p \in Procs, NEW q \in Procs, NEW flag \in BOOLEAN, Spawn(p, q, flag)
  PROVE  LET k == Len(mail) + 1 IN
         /\ Child(p, q, "spawn") /\ st[p] = "running" /\ st[q] = "unborn" /\ p # q
         /\ k \in Nat
         /\ \A r \in Procs \ {p, q} : chans'[r] = chans[r]
         /\ \/ flag = FALSE /\ mail' = mail /\ chans'[p] = chans[p] /\ chans'[q] = <<>>
            \/ /\ flag = TRUE /\ mail' = Append(mail, <<<<>>, <<>>>>)
               /\ chans'[p] = Append(chans[p], [pid |-> pid'[q], end |-> <<k, 1>>])
               /\ chans'[q] = <<[pid |-> pid[p], end |-> <<k, 2>>]>>
         /\ chans' = [r \in Procs |-> chans'[r]]
<1>1. Child(p, q, "spawn") /\ st[p] = "running" /\ st[q] = "unborn" /\ SpawnChannels(p, q, flag)
  BY BeginFacts DEF Spawn, Child
<1>2. p # q
  BY <1>1
<1>3. DOMAIN chans = Procs
  BY DEF Typed, MailTyped
<1>4. Len(mail) + 1 \in Nat
  BY LensAreNat
<1>5. CASE flag = TRUE
  <2> DEFINE mine == Append(chans[p], [pid |-> pid'[q], end |-> <<Len(mail) + 1, 1>>])
             its == <<[pid |-> pid[p], end |-> <<Len(mail) + 1, 2>>]>>
  <2>1. /\ mail' = Append(mail, <<<<>>, <<>>>>)
        /\ chans' = [chans EXCEPT ![p] = mine, ![q] = its]
    BY <1>1, <1>5 DEF SpawnChannels
  <2> HIDE DEF mine, its
  <2>2. /\ chans'[p] = mine /\ chans'[q] = its /\ chans' = [r \in Procs |-> chans'[r]]
        /\ \A r \in Procs \ {p, q} : chans'[r] = chans[r]
    BY <1>2, <1>3, <2>1
  <2>3. QED
    BY <1>1, <1>2, <1>4, <1>5, <2>1, <2>2 DEF mine, its
<1>6. CASE flag = FALSE
  <2>1. mail' = mail /\ chans' = [chans EXCEPT ![q] = <<>>]
    BY <1>1, <1>6 DEF SpawnChannels
  <2>2. QED
    BY <1>1, <1>2, <1>3, <1>4, <1>6, <2>1
<1>7. QED
  BY <1>5, <1>6

LEMMA SpawnTyped ==
  ASSUME IInv, Typed, NEW p \in Procs, NEW q \in Procs, NEW flag \in BOOLEAN, Spawn(p, q, flag)
  PROVE  Typed'
<1> DEFINE k == Len(mail) + 1
           mine == [pid |-> pid'[q], end |-> <<k, 1>>]
           its == [pid |-> pid[p], end |-> <<k, 2>>]
           none == <<<<>>, <<>>>>
<1>1. /\ Child(p, q, "spawn") /\ p # q /\ k \in Nat /\ chans' = [r \in Procs |-> chans'[r]]
      /\ \A r \in Procs \ {p, q} : chans'[r] = chans[r]
      /\ \/ mail' = mail /\ chans'[p] = chans[p] /\ chans'[q] = <<>>
         \/ /\ mail' = Append(mail, none)
            /\ chans'[p] = Append(chans[p], mine) /\ chans'[q] = <<its>>
  BY SpawnDoes
<1>2. /\ FilesTyped' /\ HistTyped' /\ CallsTyped' /\ PagesTyped'
      /\ pid' \in [Procs -> Number] /\ DOMAIN made' = Procs /\ inbox' = inbox
  BY <1>1, ChildBegins
<1> DEFINE C == Channel(Len(mail))
           D == Channel(k)
           M == [1..2 -> Seq(Datagram)]
<1>3. /\ chans \in [Procs -> Seq(C)] /\ mail \in Seq(M) /\ Len(mail) \in Nat
      /\ pid \in [Procs -> Number]
  BY LensAreNat DEF Typed, MailTyped, Channel
<1>4. CASE mail' = mail /\ chans'[p] = chans[p] /\ chans'[q] = <<>>
  <2> HIDE DEF C, D, M
  <2>1. ASSUME NEW r \in Procs
        PROVE  chans'[r] \in Seq(C)
    <3>1. <<>> \in Seq(C) /\ chans[r] \in Seq(C)
      BY <1>3
    <3>2. chans'[r] \in {<<>>, chans[r]}
      BY <1>1, <1>4
    <3>3. QED
      BY <3>1, <3>2
  <2>2. chans' \in [Procs -> Seq(C)]
    BY <1>1, <2>1
  <2>3. MailTyped'
    BY <1>2, <1>4, <2>2 DEF Typed, MailTyped, C, Channel
  <2>4. QED
    BY <1>2, <2>3 DEF Typed
<1>5. CASE /\ mail' = Append(mail, none)
           /\ chans'[p] = Append(chans[p], mine) /\ chans'[q] = <<its>>
  <2>1. C \subseteq D /\ mine \in D /\ its \in D
    <3>1. 1..Len(mail) \subseteq 1..k /\ k \in 1..k
      BY <1>3
    <3>2. QED
      BY <1>2, <1>3, <3>1 DEF Channel
  <2>2. none \in M
    <3>1. none = [e \in 1..2 |-> <<>>]
      OBVIOUS
    <3>2. <<>> \in Seq(Datagram)
      OBVIOUS
    <3>3. QED
      BY <3>1, <3>2
  <2> HIDE DEF C, D, M, mine, its, none
  <2>3. \A r \in Procs : chans[r] \in Seq(D)
    BY <1>3, <2>1, SeqMonotonic
  <2>4. Append(chans[p], mine) \in Seq(D) /\ <<its>> \in Seq(D)
    BY <2>1, <2>3, AppendProperties
  <2>5. \A r \in Procs : chans'[r] \in Seq(D)
    BY <1>1, <1>5, <2>3, <2>4
  <2>6. chans' \in [Procs -> Seq(D)]
    BY <1>1, <2>5
  <2>7. /\ mail' \in Seq(M) /\ Len(mail') = k /\ mail'[k] = none
        /\ \A l \in 1..Len(mail) : mail'[l] = mail[l]
    BY <1>3, <1>5, <2>2, AppendProperties
  <2>8. ASSUME NEW l \in 1..k, NEW e \in 1..2
        PROVE  Bytes(mail'[l][e]) <= MailBytes
    <3>1. CASE l = k
      BY <2>7, <3>1, BytesOfNone, MailAssumption DEF none
    <3>2. CASE l # k
      <4>1. l \in 1..Len(mail)
        BY <1>3, <3>2
      <4>2. QED
        BY <2>7, <4>1 DEF Typed, MailTyped
    <3>3. QED
      BY <3>1, <3>2
  <2>9. MailTyped'
    <3>1. inbox' \in [Procs -> Seq([as : Number, mail : Datagram])]
      BY <1>2 DEF Typed, MailTyped
    <3>2. QED
      BY <1>2, <2>6, <2>7, <2>8, <3>1 DEF MailTyped, D, M, Channel
  <2>10. QED
    BY <1>2, <2>9 DEF Typed
<1>6. QED
  BY <1>1, <1>4, <1>5

LEMMA EndTyped ==
  ASSUME IInv, Typed, NEW p \in Procs, Dies(p)
  PROVE  FilesTyped' /\ HistTyped' /\ CallsTyped' /\ PagesTyped'
<1>1. /\ st' = [st EXCEPT ![p] = "gone"] /\ Becomes(p, Idle)
      /\ UNCHANGED <<desc, pos, inode, name, stream, line, buf, hist, pages>>
  BY DEF Dies
<1>2. page' \in Seq(Page) /\ Len(page') = Len(page) /\ Len(page) \in Nat
  <2>1. page \in Seq(Page) /\ Len(page) \in Nat
    BY DEF Typed, PagesTyped
  <2>2. CASE call[p].op = "page-write"
    <3> DEFINE k == call[p].k
               new == [page[k] EXCEPT !.mixed = TRUE]
    <3>1. k \in 1..Len(page)
      BY <2>2, CallParts
    <3>2. page[k] \in Page
      BY <2>1, <3>1
    <3>3. new \in Page
      BY <3>2 DEF Page
    <3>4. page' = [page EXCEPT ![k] = new]
      BY <2>2 DEF Dies
    <3> HIDE DEF k, new
    <3>5. QED
      BY <3>1, <3>3, <3>4, PageSet
  <2>3. CASE call[p].op # "page-write"
    BY <2>1, <2>3 DEF Dies
  <2>4. QED
    BY <2>2, <2>3
<1>3. FilesTyped' /\ HistTyped'
  BY <1>1, FilesKept, HistKept
<1>4. CallsTyped'
  <2>1. Idle \in Call(Len(desc), Len(page))
    BY DEF Call
  <2>2. /\ DOMAIN call' = Procs /\ call'[p] = Idle
        /\ \A q \in Procs : q # p => call'[q] = call[q]
    BY <1>1 DEF Becomes, Typed, CallsTyped
  <2>3. /\ st' \in [Procs -> {"unborn", "running", "gone"}]
        /\ \A q \in Procs : q # p => st'[q] = st[q]
    BY <1>1 DEF Typed, CallsTyped
  <2>4. QED
    BY <1>1, <1>2, <2>1, <2>2, <2>3 DEF Typed, CallsTyped
<1>5. PagesTyped'
  BY <1>1, <1>2 DEF Typed, PagesTyped
<1>6. QED
  BY <1>3, <1>4, <1>5

LEMMA ExitTyped ==
  ASSUME IInv, Typed, NEW p \in Procs, Exit(p)
  PROVE  Typed'
<1>1. Dies(p) /\ UNCHANGED <<pid, made, chans, mail, inbox>>
  BY DEF Exit, Dies
<1>2. QED
  BY <1>1, EndTyped, MailKept DEF Typed

\* What abort leaves of a list of channels was in it.
LEMMA WithoutAre ==
  ASSUME NEW S, NEW list \in Seq(S), NEW n
  PROVE  Without(list, n) \in Seq(S)
<1> DEFINE last == Len(list)
           none == <<>>
           All == Seq(S)
           drop == [k \in 1..last |-> list[k].pid = n]
<1>1. last \in Nat /\ \A k \in 1..last : list[k] \in S
  OBVIOUS
<1>2. none \in All /\ \A s \in All, x \in S : Append(s, x) \in All
  BY AppendProperties
<1>3. Without(list, n) = (CHOOSE g : g = [k \in 0..last |-> IF k = 0 THEN none
                                          ELSE IF list[k].pid = n THEN g[k - 1]
                                          ELSE Append(g[k - 1], list[k])])[last]
  BY DEF Without
<1> HIDE DEF last, none, All
<1> DEFINE step == [k \in 1..last |-> [s \in All |->
                      IF list[k].pid = n THEN s ELSE Append(s, list[k])]]
<1>4. step \in [1..last -> [All -> All]]
  BY <1>1, <1>2
<1>5. PICK f : Iterates(f, last, All, none, step)
  <2> HIDE DEF step
  <2>1. QED
    BY <1>1, <1>2, <1>4, RecursionExists
<1>6. f \in [0..last -> All] /\ f[0] = none /\ \A k \in 1..last : f[k] = step[k][f[k - 1]]
  BY <1>5 DEF Iterates
<1>7. ASSUME NEW k \in 0..last, k # 0
      PROVE  f[k] = IF list[k].pid = n THEN f[k - 1] ELSE Append(f[k - 1], list[k])
  <2>1. k \in 1..last /\ k - 1 \in 0..last
    BY <1>1, <1>7
  <2>2. f[k - 1] \in All
    BY <1>6, <2>1
  <2>3. QED
    BY <1>6, <2>1, <2>2
<1>8. f = [k \in 0..last |-> IF k = 0 THEN none
                             ELSE IF list[k].pid = n THEN f[k - 1]
                             ELSE Append(f[k - 1], list[k])]
  BY <1>1, <1>6, <1>7
<1> DEFINE kept == CHOOSE g : g = [k \in 0..last |-> IF k = 0 THEN none
                                   ELSE IF list[k].pid = n THEN g[k - 1]
                                   ELSE Append(g[k - 1], list[k])]
           next(k) == IF k = 0 THEN none
                      ELSE IF list[k].pid = n THEN kept[k - 1]
                      ELSE Append(kept[k - 1], list[k])
<1>9. kept = [k \in 0..last |-> IF k = 0 THEN none
                                ELSE IF list[k].pid = n THEN kept[k - 1]
                                ELSE Append(kept[k - 1], list[k])]
  BY <1>8
<1>10. Without(list, n) = kept[last]
  BY <1>3
<1> HIDE DEF kept
<1>11. DOMAIN kept = 0..last /\ \A k \in 0..last : kept[k] = next(k)
  BY <1>9
<1> DEFINE T == {x \in 0..last : kept[x] \in All}
<1>12. 0 \in T
  BY <1>1, <1>2, <1>11
<1>13. \A k \in 1..last : k - 1 \in T => k \in T
  <2> SUFFICES ASSUME NEW k \in 1..last, kept[k - 1] \in All
               PROVE  k \in T
    OBVIOUS
  <2>1. k \in 0..last /\ k # 0 /\ list[k] \in S
    BY <1>1
  <2>2. kept[k] = IF list[k].pid = n THEN kept[k - 1] ELSE Append(kept[k - 1], list[k])
    BY <1>11, <2>1
  <2>3. QED
    BY <1>2, <2>1, <2>2
<1>14. \A k \in 0..last : k \in T
  <2> HIDE DEF T
  <2>1. QED
    BY <1>1, <1>12, <1>13, CountUp
<1>15. QED
  BY <1>1, <1>10, <1>14 DEF All

LEMMA WithoutParts ==
  ASSUME NEW S, NEW list \in Seq(S), NEW n
  PROVE  \A i \in 1..Len(Without(list, n)) :
           \E j \in 1..Len(list) : Without(list, n)[i] = list[j]
<1> DEFINE R == {list[j] : j \in 1..Len(list)}
           kept == Without(list, n)
<1>1. list \in Seq(R)
  <2>1. list \in [1..Len(list) -> S] /\ Len(list) \in Nat
    BY LenProperties
  <2>2. list \in [1..Len(list) -> R]
    BY <2>1
  <2> HIDE DEF R
  <2>3. QED
    BY <2>1, <2>2, SeqDef
<1> HIDE DEF R
<1>2. kept \in Seq(R)
  BY <1>1, WithoutAre
<1> HIDE DEF kept
<1>3. \A i \in 1..Len(kept) : kept[i] \in R
  BY <1>2, ElementOfSeq
<1>4. QED
  BY <1>3 DEF R, kept

LEMMA AbortTyped ==
  ASSUME IInv, Typed, NEW p \in Procs, NEW q \in Procs, Abort(p, q)
  PROVE  Typed'
<1> DEFINE S == [pid : Number, end : (1..Len(mail)) \X (1..2)]
           kept == Without(chans[p], pid[q])
<1>1. /\ Dies(q) /\ chans' = [chans EXCEPT ![p] = kept]
      /\ UNCHANGED <<pid, made, mail, inbox>>
  BY EndSteps DEF AbortChannels, Dies
<1>2. chans \in [Procs -> Seq(S)]
  BY DEF Typed, MailTyped
<1> HIDE DEF S
<1>3. kept \in Seq(S)
  BY <1>2, WithoutAre
<1> HIDE DEF kept
<1>4. chans' \in [Procs -> Seq(S)]
  BY <1>1, <1>2, <1>3
<1>5. MailTyped'
  BY <1>1, <1>4 DEF Typed, MailTyped, S
<1>6. QED
  BY <1>1, <1>5, EndTyped DEF Typed

LEMMA InitTyped == Init => Typed
<1> SUFFICES ASSUME Init PROVE Typed
  OBVIOUS
<1>1. \A S : <<>> \in Seq(S) /\ Len(<<>>) = 0
  OBVIOUS
<1>2. FilesTyped /\ HistTyped
  BY <1>1 DEF Init, FilesTyped, HistTyped, IsSeq, Nothing
<1>3. CallsTyped
  BY BytesAndTexts DEF Init, CallsTyped, Call
<1>4. MailTyped
  <2>1. /\ pid \in [Procs -> Number] /\ DOMAIN made = Procs /\ mail = <<>>
    BY DEF Init, Number
  <2>2. chans = [p \in Procs |-> <<>>] /\ inbox = [p \in Procs |-> <<>>]
    BY DEF Init
  <2>3. QED
    BY <1>1, <2>1, <2>2 DEF MailTyped
<1>5. PagesTyped
  BY <1>1 DEF Init, PagesTyped
<1>6. QED
  BY <1>2, <1>3, <1>4, <1>5 DEF Typed

LEMMA TypedStep == IInv /\ Typed /\ [Next]_vars => Typed'
<1> SUFFICES ASSUME IInv, Typed, [Next]_vars PROVE Typed'
  OBVIOUS
<1>1. CASE UNCHANGED vars
  <2>1. FilesTyped' /\ HistTyped' /\ MailTyped'
    BY <1>1, FilesKept, HistKept, MailKept DEF vars, kernelVars, ioVars, mailVars
  <2>2. CallsTyped' /\ PagesTyped'
    BY <1>1, CallsKept, LensAreNat
       DEF vars, kernelVars, ioVars, mailVars, Typed, CallsTyped, PagesTyped
  <2>3. QED
    BY <2>1, <2>2 DEF Typed
<1>2. ASSUME NEW p \in Procs, FileStep(p) \/ CallStep(p), UNCHANGED mailVars
      PROVE  Typed'
  <2>1. FilesTyped' /\ HistTyped' /\ CallsTyped'
    BY <1>2, FileStepTyped, CallStepTyped
  <2>2. MailTyped' /\ PagesTyped'
    BY <1>2, MailKept DEF mailVars, Typed, PagesTyped
  <2>3. QED
    BY <2>1, <2>2 DEF Typed
<1>3. CASE Next
  BY <1>2, <1>3, MailStepTyped, ForkTyped, SpawnTyped, ExitTyped, AbortTyped
     DEF Next
<1>4. QED
  BY <1>1, <1>3

\* In every reachable state of every program the state has its shape: no
\* stream holds more than its capacity and no socket more than its buffer,
\* every handle names an open file and every name of a regular file a file
\* that exists, and a process that has ended is inside no call (fileio.rs,
\* net.rs, process.rs).
THEOREM TypesCorrect == Spec => []TypeOK
<1>1. IInv /\ Typed => TypeOK
  <2> SUFFICES ASSUME IInv, Typed PROVE TypeOK
    OBVIOUS
  <2>1. /\ st \in [Procs -> {"unborn", "running", "gone"}]
        /\ \A p \in Procs : IsTable(table[p], 1..Len(desc))
        /\ \A p \in Procs : line[p] \in ByteSeq /\ buf[p] \in ByteSeq
        /\ \A p \in Procs : st[p] = "gone" => call[p] = Idle
    BY DEF IInv, HandlesOk, Typed, CallsTyped
  <2>2. \A d \in 1..Len(desc) : desc[d].kind \in {"file", "stream", "listener"}
    BY FileKinds
  <2>3. DOMAIN pos = DOMAIN desc /\ DOMAIN backlog = DOMAIN desc /\ DOMAIN hist = DOMAIN stream
    <3>1. Len(pos) = Len(desc) /\ Len(backlog) = Len(desc) /\ Len(hist) = Len(stream)
      BY DEF IInv, FilesOk, Typed, FilesTyped, HistTyped
    <3>2. \A s : IsSeq(s) => DOMAIN s = 1..Len(s)
      BY DEF IsSeq
    <3>3. IsSeq(pos) /\ IsSeq(desc) /\ IsSeq(backlog) /\ IsSeq(hist) /\ IsSeq(stream)
      <4>1. \A S, s : s \in Seq(S) => IsSeq(s)
        BY DEF IsSeq
      <4>2. QED
        BY <4>1 DEF IInv, FilesOk, Typed, FilesTyped, HistTyped
    <3>4. QED
      BY <3>1, <3>2, <3>3
  <2>4. /\ \A i \in 1..Len(inode) : inode[i] \in ByteSeq
        /\ \A s \in 1..Len(stream) : stream[s] \in ByteSeq /\ Len(stream[s]) <= Capacity
        /\ \A f \in Paths : name[f].kind \in {"none", "file", "socket"}
    BY DEF Typed, FilesTyped
  <2>5. \A k \in 1..Len(mail), e \in 1..2 : Bytes(mail[k][e]) <= MailBytes
    BY DEF Typed, MailTyped
  <2>6. QED
    BY <2>1, <2>2, <2>3, <2>4, <2>5 DEF TypeOK
<1>2. QED
  BY <1>1, InitInv, InvStep, InitTyped, TypedStep, PTL DEF Spec

-----------------------------------------------------------------------------
(* Messages between processes that no plain fork has made: labels name the  *)
(* process at the other end, and what is under way was sent by that process *)
(* to the one that will receive it.                                         *)

Unforked == {p \in Procs : made[p] # "fork"}

\* Nobody has heard of a process before it starts.
UnbornUnknown ==
  /\ \A p \in Procs \ Started : chans[p] = <<>> /\ inbox[p] = <<>>
  /\ \A k \in 1..Len(mail), e \in 1..2 : \A i \in 1..Len(mail[k][e]) :
       mail[k][e][i].by \in Started
  /\ \A p \in Procs : \A i \in 1..Len(inbox[p]) : inbox[p][i].mail.by \in Started

LabelsTrue ==
  \A p, q \in Unforked : \A i \in 1..Len(chans[p]), j \in 1..Len(chans[q]) :
    chans[p][i].end = Other(chans[q][j].end) => chans[p][i].pid = pid[q]

\* The datagram m, on its way to end e of channel k, says who sends it to whom.
Faithful(m, k, e, unforked, channels, numbers) ==
  m.by \in unforked =>
    \A p \in unforked : \A j \in 1..Len(channels[p]) :
      channels[p][j].end = <<k, e>> => channels[p][j].pid = m.pid /\ m.to = numbers[p]

MailTrue ==
  \A k \in 1..Len(mail), e \in 1..2 : \A i \in 1..Len(mail[k][e]) :
    Faithful(mail[k][e][i], k, e, Unforked, chans, pid)

Letters == UnbornUnknown /\ LabelsTrue /\ MailTrue /\ MailMatches

LEMMA LettersKept ==
  ASSUME Letters, UNCHANGED <<pid, made, chans, mail, inbox>>, Started' = Started
  PROVE  Letters'
<1>1. Unforked' = Unforked
  BY DEF Unforked
<1>2. UnbornUnknown' /\ LabelsTrue'
  BY <1>1 DEF Letters, UnbornUnknown, LabelsTrue
<1>3. MailTrue'
  BY <1>1 DEF Letters, MailTrue
<1>4. MailMatches'
  BY DEF Letters, MailMatches
<1>5. QED
  BY <1>2, <1>3, <1>4 DEF Letters

\* The shape of channel lists, queues and inboxes.
LEMMA MailShape ==
  ASSUME IInv, Typed
  PROVE  /\ \A p \in Procs : /\ chans[p] \in Seq(Channel(Len(mail))) /\ Len(chans[p]) \in Nat
                             /\ Len(inbox[p]) \in Nat
                             /\ \A i \in 1..Len(chans[p]) :
                                  chans[p][i].end \in (1..Len(mail)) \X (1..2)
                             /\ \A i \in 1..Len(inbox[p]) : inbox[p][i].mail \in Datagram
         /\ \A k \in 1..Len(mail), e \in 1..2 :
              mail[k][e] \in Seq(Datagram) /\ Len(mail[k][e]) \in Nat
<1>1. ASSUME NEW p \in Procs
      PROVE  /\ chans[p] \in Seq(Channel(Len(mail))) /\ Len(chans[p]) \in Nat
             /\ \A i \in 1..Len(chans[p]) : chans[p][i].end \in (1..Len(mail)) \X (1..2)
  <2> DEFINE C == Channel(Len(mail))
  <2>1. chans[p] \in Seq(C)
    BY DEF Typed, MailTyped, Channel
  <2> HIDE DEF C
  <2>2. Len(chans[p]) \in Nat /\ \A i \in 1..Len(chans[p]) : chans[p][i] \in C
    BY <2>1
  <2>3. \A c \in C : c.end \in (1..Len(mail)) \X (1..2)
    BY DEF C, Channel
  <2>4. QED
    BY <2>1, <2>2, <2>3 DEF C
<1>2. ASSUME NEW p \in Procs
      PROVE  Len(inbox[p]) \in Nat /\ \A i \in 1..Len(inbox[p]) : inbox[p][i].mail \in Datagram
  <2> DEFINE G == [as : Number, mail : Datagram]
  <2>1. inbox[p] \in Seq(G)
    BY DEF Typed, MailTyped
  <2> HIDE DEF G
  <2>2. Len(inbox[p]) \in Nat /\ \A i \in 1..Len(inbox[p]) : inbox[p][i] \in G
    BY <2>1
  <2>3. QED
    BY <2>2 DEF G
<1>3. ASSUME NEW k \in 1..Len(mail), NEW e \in 1..2
      PROVE  mail[k][e] \in Seq(Datagram) /\ Len(mail[k][e]) \in Nat
  <2>1. mail[k][e] \in Seq(Datagram)
    BY DEF Typed, MailTyped
  <2> DEFINE q == mail[k][e]
  <2> HIDE DEF q
  <2>2. q \in Seq(Datagram) => Len(q) \in Nat
    OBVIOUS
  <2>3. QED
    BY <2>1, <2>2 DEF q
<1>4. QED
  BY <1>1, <1>2, <1>3

\* A datagram is sent under a label that names its receiver.
LEMMA SendFaithful ==
  ASSUME IInv, Typed, Letters, NEW p \in Procs, NEW n, NEW text \in Texts, Send(p, n, text)
  PROVE  Letters'
<1>1. UNCHANGED <<st, pid, made, chans, inbox>>
  BY DEF Send, kernelVars
<1>2. PICK k \in 1..Len(mail), e \in 1..2, i \in 1..Len(chans[p]), m \in Datagram :
        Posts(p, n, text, k, e, i, m)
  BY SendDoes
<1> DEFINE q == Append(mail[k][e], m)
<1>3. /\ mail[k][e] \in Seq(Datagram) /\ Len(mail[k][e]) \in Nat
      /\ Len(q) = Len(mail[k][e]) + 1 /\ q \in Seq(Datagram)
      /\ \A l \in 1..Len(mail[k][e]) : q[l] = mail[k][e][l]
      /\ q[Len(mail[k][e]) + 1] = m
  BY MailShape, AppendProperties
<1>4. /\ Len(mail') = Len(mail)
      /\ \A l \in 1..Len(mail), f \in 1..2 :
           mail'[l][f] = IF l = k /\ f = e THEN q ELSE mail[l][f]
  BY <1>2, <1>3, QueueSet DEF Posts
<1>5. ASSUME NEW l \in 1..Len(mail), NEW f \in 1..2, NEW x \in 1..Len(mail'[l][f])
      PROVE  \/ x \in 1..Len(mail[l][f]) /\ mail'[l][f][x] = mail[l][f][x]
             \/ l = k /\ f = e /\ mail'[l][f][x] = m
  <2>1. CASE l = k /\ f = e
    <3>1. mail'[l][f] = q
      BY <1>4, <2>1
    <3>2. x \in 1..Len(mail[k][e]) \/ x = Len(mail[k][e]) + 1
      BY <1>3, <1>5, <3>1
    <3> HIDE DEF q
    <3>3. QED
      BY <1>3, <2>1, <3>1, <3>2
  <2>2. CASE ~(l = k /\ f = e)
    BY <1>4, <1>5, <2>2
  <2>3. QED
    BY <2>1, <2>2
<1> HIDE DEF q
<1>6. Unforked' = Unforked /\ Started' = Started
  BY <1>1 DEF Unforked, Started
<1>7. m.by = p /\ m.pid = pid[p] /\ m.to = n /\ p \in Started
      /\ chans[p][i].pid = n /\ chans[p][i].end = Other(<<k, e>>)
  BY <1>2 DEF Posts, Started
<1>8. UnbornUnknown'
  <2>1. ASSUME NEW l \in 1..Len(mail), NEW f \in 1..2, NEW x \in 1..Len(mail'[l][f])
        PROVE  mail'[l][f][x].by \in Started
    BY <1>5, <1>7 DEF Letters, UnbornUnknown
  <2>2. QED
    BY <1>1, <1>4, <1>6, <2>1 DEF Letters, UnbornUnknown
<1>9. LabelsTrue'
  BY <1>1, <1>6 DEF Letters, LabelsTrue
<1>10. Faithful(m, k, e, Unforked, chans, pid)
  <2> SUFFICES ASSUME p \in Unforked, NEW r \in Unforked, NEW j \in 1..Len(chans[r]),
                      chans[r][j].end = <<k, e>>
               PROVE  chans[r][j].pid = m.pid /\ m.to = pid[r]
    BY <1>7 DEF Faithful
  <2>1. chans[p][i].end = Other(chans[r][j].end)
    BY <1>7
  <2>2. Other(chans[p][i].end) = <<k, e>>
    BY <1>7 DEF Other
  <2>3. chans[p][i].pid = pid[r]
    BY <2>1 DEF Letters, LabelsTrue
  <2>4. chans[r][j].pid = pid[p]
    BY SMTT(30), <2>2 DEF Letters, LabelsTrue
  <2>5. QED
    BY <1>7, <2>3, <2>4
<1>11. MailTrue'
  <2>1. ASSUME NEW l \in 1..Len(mail), NEW f \in 1..2, NEW x \in 1..Len(mail'[l][f])
        PROVE  Faithful(mail'[l][f][x], l, f, Unforked, chans, pid)
    BY <1>5, <1>10 DEF Letters, MailTrue
  <2>2. QED
    BY <1>1, <1>4, <1>6, <2>1 DEF MailTrue
<1>12. MailMatches'
  BY <1>1 DEF Letters, MailMatches
<1>13. QED
  BY <1>8, <1>9, <1>11, <1>12 DEF Letters

\* What is received was sent by the process the label names.
LEMMA ReceiveFaithful ==
  ASSUME IInv, Typed, Letters, NEW p \in Procs, NEW n, Receive(p, n)
  PROVE  Letters'
<1>1. UNCHANGED <<st, pid, made, chans>>
  BY DEF Receive, kernelVars
<1>2. PICK k \in 1..Len(mail), e \in 1..2, i \in 1..Len(chans[p]), value \in Datagram :
        /\ chans[p][i].pid = n /\ chans[p][i].end = <<k, e>> /\ n \in Number
        /\ st[p] = "running" /\ mail[k][e] # <<>>
        /\ mail' = [mail EXCEPT ![k][e] = Tail(mail[k][e])]
        /\ value.by = mail[k][e][1].by /\ value.pid = mail[k][e][1].pid
        /\ value.to = mail[k][e][1].to
        /\ inbox' \in {inbox, [inbox EXCEPT ![p] = Append(inbox[p], [as |-> n, mail |-> value])]}
  BY ReceiveDoes, Zenon
<1> DEFINE q == Tail(mail[k][e])
           first == mail[k][e][1]
           got == [as |-> n, mail |-> value]
<1>3. /\ mail[k][e] \in Seq(Datagram) /\ Len(mail[k][e]) \in Nat /\ 1 \in 1..Len(mail[k][e])
      /\ Len(q) = Len(mail[k][e]) - 1 /\ q \in Seq(Datagram)
      /\ \A l \in 1..Len(q) : q[l] = mail[k][e][l + 1] /\ l + 1 \in 1..Len(mail[k][e])
  <2>1. mail[k][e] \in Seq(Datagram) /\ mail[k][e] # <<>>
    BY <1>2, MailShape
  <2>2. QED
    BY <2>1, HeadTailProperties
<1>4. /\ Len(mail') = Len(mail)
      /\ \A l \in 1..Len(mail), f \in 1..2 :
           mail'[l][f] = IF l = k /\ f = e THEN q ELSE mail[l][f]
  <2>1. q \in Seq(Datagram)
    BY <1>3
  <2> HIDE DEF q
  <2>2. mail' = [mail EXCEPT ![k][e] = q]
    BY <1>2 DEF q
  <2>3. QED
    BY <2>1, <2>2, QueueSet
<1> HIDE DEF q
<1>5. ASSUME NEW l \in 1..Len(mail), NEW f \in 1..2, NEW x \in 1..Len(mail'[l][f])
      PROVE  \E y \in 1..Len(mail[l][f]) : mail'[l][f][x] = mail[l][f][y]
  <2>1. CASE l = k /\ f = e
    BY <1>3, <1>4, <1>5, <2>1
  <2>2. CASE ~(l = k /\ f = e)
    BY <1>4, <1>5, <2>2
  <2>3. QED
    BY <2>1, <2>2
<1>6. Unforked' = Unforked /\ Started' = Started
  BY <1>1 DEF Unforked, Started
<1>7. Faithful(first, k, e, Unforked, chans, pid) /\ first.by \in Started
  BY <1>3 DEF Letters, MailTrue, UnbornUnknown
<1>8. ASSUME NEW r \in Procs, NEW x \in 1..Len(inbox'[r])
      PROVE  \/ x \in 1..Len(inbox[r]) /\ inbox'[r][x] = inbox[r][x]
             \/ r = p /\ inbox'[r][x] = got
  <2> DEFINE G == [as : Number, mail : Datagram]
  <2>1. inbox \in [Procs -> Seq(G)] /\ got \in G
    BY <1>2 DEF Typed, MailTyped
  <2> HIDE DEF G
  <2>2. inbox' \in {inbox, [inbox EXCEPT ![p] = Append(inbox[p], got)]}
    BY <1>2
  <2> HIDE DEF got
  <2>3. /\ Len(Append(inbox[p], got)) = Len(inbox[p]) + 1 /\ Len(inbox[p]) \in Nat
        /\ \A y \in 1..Len(inbox[p]) : Append(inbox[p], got)[y] = inbox[p][y]
        /\ Append(inbox[p], got)[Len(inbox[p]) + 1] = got
    BY <2>1, AppendProperties
  <2>4. CASE inbox' = inbox
    BY <1>8, <2>4
  <2>5. CASE inbox' = [inbox EXCEPT ![p] = Append(inbox[p], got)] /\ r # p
    BY <1>8, <2>1, <2>5
  <2>6. CASE inbox' = [inbox EXCEPT ![p] = Append(inbox[p], got)] /\ r = p
    <3>1. inbox'[r] = Append(inbox[p], got)
      BY <2>1, <2>6
    <3>2. x \in 1..Len(inbox[p]) \/ x = Len(inbox[p]) + 1
      BY <1>8, <2>3, <3>1
    <3>3. QED
      BY <2>3, <2>6, <3>1, <3>2
  <2>7. QED
    BY <2>2, <2>4, <2>5, <2>6
<1>9. p \in Started
  BY <1>2 DEF Started
<1>10. UnbornUnknown'
  <2>1. ASSUME NEW l \in 1..Len(mail), NEW f \in 1..2, NEW x \in 1..Len(mail'[l][f])
        PROVE  mail'[l][f][x].by \in Started
    BY SMTT(30), <1>5 DEF Letters, UnbornUnknown
  <2>2. ASSUME NEW r \in Procs, NEW x \in 1..Len(inbox'[r])
        PROVE  inbox'[r][x].mail.by \in Started
    BY <1>2, <1>7, <1>8 DEF Letters, UnbornUnknown
  <2>3. ASSUME NEW r \in Procs \ Started
        PROVE  chans[r] = <<>> /\ inbox'[r] = <<>>
    <3>1. chans[r] = <<>> /\ inbox[r] = <<>> /\ r # p
      BY <1>9 DEF Letters, UnbornUnknown
    <3>2. inbox'[r] = inbox[r]
      BY <1>2, <3>1 DEF Typed, MailTyped
    <3>3. QED
      BY <3>1, <3>2
  <2>4. QED
    BY <1>1, <1>4, <1>6, <2>1, <2>2, <2>3 DEF UnbornUnknown
<1>11. LabelsTrue'
  BY <1>1, <1>6 DEF Letters, LabelsTrue
<1>12. MailTrue'
  <2>1. ASSUME NEW l \in 1..Len(mail), NEW f \in 1..2, NEW x \in 1..Len(mail'[l][f])
        PROVE  Faithful(mail'[l][f][x], l, f, Unforked, chans, pid)
    BY <1>5 DEF Letters, MailTrue
  <2>2. QED
    BY <1>1, <1>4, <1>6, <2>1 DEF MailTrue
<1>13. MailMatches'
  <2> SUFFICES ASSUME NEW r \in Procs, NEW x \in 1..Len(inbox'[r]),
                      "fork" \notin {made'[r], made'[inbox'[r][x].mail.by]}
               PROVE  /\ inbox'[r][x].as = inbox'[r][x].mail.pid
                      /\ inbox'[r][x].mail.to = pid'[r]
    BY DEF MailMatches
  <2>1. CASE x \in 1..Len(inbox[r]) /\ inbox'[r][x] = inbox[r][x]
    BY <1>1, <2>1 DEF Letters, MailMatches
  <2>2. CASE r = p /\ inbox'[r][x] = got
    <3>1. first.by \in Unforked /\ p \in Unforked
      BY <1>1, <1>2, <1>7, <2>2 DEF Unforked, Started
    <3>2. chans[p][i].pid = first.pid /\ first.to = pid[p]
      BY <1>2, <1>7, <3>1 DEF Faithful
    <3>3. QED
      BY <1>1, <1>2, <2>2, <3>2
  <2>3. QED
    BY <1>8, <2>1, <2>2
<1>14. QED
  BY <1>10, <1>11, <1>12, <1>13 DEF Letters

\* Only fork, spawn and exit change which processes there are.
LEMMA FileCallProcesses ==
  ASSUME NEW p, FileStep(p) \/ CallStep(p)
  PROVE  st' = st
<1>1. CASE FileStep(p)
  <2>1. UNCHANGED st
    BY <1>1 DEF FileStep, Open, CloseHandle, Seek, BeginReadLine, BeginReadBuffer, BeginWrite,
         BeginWriteCurrent, BeginAccept, BeginWriteWhole, DeleteFile, RenameFile, Pipe,
         Listen, Connect, BeginExec, kernelVars
  <2>2. QED
    BY <2>1
<1>2. CASE CallStep(p)
  <2>1. UNCHANGED st
    BY <1>2 DEF CallStep, ReadLineByte, ReadLineEnd, ReadBufferStep, ReadBufferEnd, WriteStep,
         Accept, ExecFeed, CommandStep, ExecDrain, kernelVars
  <2>2. QED
    BY <2>1
<1>3. QED
  BY <1>1, <1>2

LEMMA ForkLetters ==
  ASSUME IInv, Typed, Letters, NEW p \in Procs, NEW q \in Procs, Fork(p, q)
  PROVE  Letters'
<1>1. /\ st[p] = "running" /\ st[q] = "unborn" /\ st' = [st EXCEPT ![q] = "running"]
      /\ chans' = [chans EXCEPT ![q] = chans[p]] /\ mail' = mail /\ inbox' = inbox
  BY BeginFacts DEF Fork, Child, ForkChannels
<1>2. /\ made'[q] = "fork"
      /\ \A r \in Procs : r # q => pid'[r] = pid[r] /\ made'[r] = made[r]
  BY ChildBegins DEF Fork
<1>3. Unforked' = Unforked \ {q}
  BY <1>2 DEF Unforked
<1>4. Started' = Started \cup {q} /\ p \in Started /\ q \notin Started
  BY <1>1 DEF Started, Typed, CallsTyped
<1>5. \A r \in Procs : r # q => chans'[r] = chans[r]
  BY <1>1 DEF Typed, MailTyped
<1>6. UnbornUnknown'
  BY <1>1, <1>4, <1>5 DEF Letters, UnbornUnknown
<1>7. LabelsTrue'
  BY <1>2, <1>3, <1>5 DEF Letters, LabelsTrue, Unforked
<1>8. MailTrue'
  <2>1. ASSUME NEW k \in 1..Len(mail), NEW e \in 1..2, NEW i \in 1..Len(mail[k][e])
        PROVE  Faithful(mail[k][e][i], k, e, Unforked', chans', pid')
    <3>1. Faithful(mail[k][e][i], k, e, Unforked, chans, pid)
      BY DEF Letters, MailTrue
    <3>2. \A r \in Unforked' : r \in Unforked /\ chans'[r] = chans[r] /\ pid'[r] = pid[r]
      BY <1>2, <1>3, <1>5 DEF Unforked
    <3>3. QED
      BY <1>3, <3>1, <3>2 DEF Faithful
  <2>2. QED
    BY <1>1, <2>1 DEF MailTrue
<1>9. MailMatches'
  <2> SUFFICES ASSUME NEW r \in Procs, NEW x \in 1..Len(inbox[r]),
                      "fork" \notin {made'[r], made'[inbox[r][x].mail.by]}
               PROVE  /\ inbox[r][x].as = inbox[r][x].mail.pid
                      /\ inbox[r][x].mail.to = pid'[r]
    BY <1>1 DEF MailMatches
  <2>1. inbox[r][x].mail.by \in Procs
    BY MailShape DEF Datagram
  <2>2. QED
    BY <1>2, <2>1 DEF Letters, MailMatches
<1>10. QED
  BY <1>6, <1>7, <1>8, <1>9 DEF Letters

LEMMA SpawnLetters ==
  ASSUME IInv, Typed, Letters, NEW p \in Procs, NEW q \in Procs, NEW flag \in BOOLEAN,
         Spawn(p, q, flag)
  PROVE  Letters'
<1> DEFINE k == Len(mail) + 1
           mine == [pid |-> pid'[q], end |-> <<k, 1>>]
           its == [pid |-> pid[p], end |-> <<k, 2>>]
           none == <<<<>>, <<>>>>
<1>1. /\ Child(p, q, "spawn") /\ st[p] = "running" /\ st[q] = "unborn" /\ p # q /\ k \in Nat
      /\ \A r \in Procs \ {p, q} : chans'[r] = chans[r]
      /\ \/ mail' = mail /\ chans'[p] = chans[p] /\ chans'[q] = <<>>
         \/ /\ mail' = Append(mail, none)
            /\ chans'[p] = Append(chans[p], mine) /\ chans'[q] = <<its>>
  BY SpawnDoes
<1>2. /\ inbox' = inbox
      /\ \A r \in Procs : r # q => pid'[r] = pid[r] /\ made'[r] = made[r]
  BY <1>1, ChildBegins
<1>3. Unforked' \ {q} = Unforked \ {q}
  BY <1>2 DEF Unforked
<1>4. Started' = Started \cup {q} /\ p \in Started /\ q \notin Started
  BY <1>1 DEF Started, Typed, CallsTyped, Child
<1>5. chans[q] = <<>> /\ inbox[q] = <<>>
  BY <1>4 DEF Letters, UnbornUnknown
<1>6. /\ \A l \in 1..Len(mail) : mail'[l] = mail[l]
      /\ Len(mail) \in Nat
      /\ Len(mail') \in {Len(mail), k}
      /\ \A l \in 1..Len(mail') : l \notin 1..Len(mail) => l = k /\ mail'[l] = none
  <2> DEFINE M == [1..2 -> Seq(Datagram)]
  <2>1. mail \in Seq(M) /\ Len(mail) \in Nat
    BY LensAreNat DEF Typed, MailTyped
  <2>2. none \in M
    <3>1. none = [e \in 1..2 |-> <<>>]
      OBVIOUS
    <3>2. <<>> \in Seq(Datagram)
      OBVIOUS
    <3>3. QED
      BY <3>1, <3>2
  <2> HIDE DEF M, none
  <2>3. CASE mail' = mail
    BY <2>1, <2>3
  <2>4. CASE mail' = Append(mail, none)
    <3>1. /\ Len(mail') = Len(mail) + 1 /\ mail'[Len(mail) + 1] = none
          /\ \A l \in 1..Len(mail) : mail'[l] = mail[l]
      BY <2>1, <2>2, <2>4, AppendProperties
    <3>2. QED
      BY <2>1, <3>1
  <2>5. QED
    BY <1>1, <2>3, <2>4
\* The channels there are: those there were, and perhaps the new one.
<1> DEFINE Old(r, i) == r # q /\ i \in 1..Len(chans[r]) /\ chans'[r][i] = chans[r][i]
<1>7. ASSUME NEW r \in Procs, NEW i \in 1..Len(chans'[r])
      PROVE  Old(r, i) \/ (r = p /\ chans'[r][i] = mine) \/ (r = q /\ chans'[r][i] = its)
  <2>1. CASE r # p /\ r # q
    BY <1>1, <1>7, <2>1
  <2>2. CASE r = q
    BY <1>1, <1>7, <2>2
  <2>3. CASE r = p
    <3> DEFINE C == Channel(Len(mail)) \cup {mine}
    <3>1. chans[p] \in Seq(C) /\ mine \in C /\ Len(chans[p]) \in Nat
      BY MailShape, SeqMonotonic
    <3> HIDE DEF C, mine
    <3>2. /\ Len(Append(chans[p], mine)) = Len(chans[p]) + 1
          /\ \A j \in 1..Len(chans[p]) : Append(chans[p], mine)[j] = chans[p][j]
          /\ Append(chans[p], mine)[Len(chans[p]) + 1] = mine
      BY <3>1, AppendProperties
    <3>3. CASE chans'[p] = chans[p]
      BY <1>1, <1>7, <2>3, <3>3
    <3>4. CASE chans'[p] = Append(chans[p], mine)
      <4>1. i \in 1..Len(chans[p]) \/ i = Len(chans[p]) + 1
        BY <1>7, <2>3, <3>1, <3>2, <3>4
      <4>2. QED
        BY <1>1, <2>3, <3>2, <3>4, <4>1
    <3>5. QED
      BY <1>1, <3>3, <3>4
  <2>4. QED
    BY <2>1, <2>2, <2>3
<1>8. ASSUME NEW r \in Procs, NEW i \in 1..Len(chans'[r]), Old(r, i)
      PROVE  /\ chans'[r][i].end[1] # k
             /\ chans'[r][i].end = <<chans'[r][i].end[1], chans'[r][i].end[2]>>
  <2>1. chans'[r][i].end \in (1..Len(mail)) \X (1..2)
    BY <1>8, MailShape
  <2>2. QED
    BY <1>6, <2>1
<1>9. mine.end = <<k, 1>> /\ its.end = <<k, 2>> /\ mine.pid = pid'[q] /\ its.pid = pid[p]
  OBVIOUS
<1>a. k # 0 /\ \A e : Other(e)[1] = e[1]
  BY <1>6 DEF Other
<1>b. Other(<<k, 1>>) = <<k, 2>> /\ Other(<<k, 2>>) = <<k, 1>>
  BY DEF Other
<1> HIDE DEF mine, its, none, k
<1>10. UnbornUnknown'
  <2>1. \A r \in Procs \ Started' : chans'[r] = <<>> /\ inbox'[r] = <<>>
    BY <1>1, <1>2, <1>4 DEF Letters, UnbornUnknown
  <2>2. ASSUME NEW l \in 1..Len(mail'), NEW e \in 1..2, NEW i \in 1..Len(mail'[l][e])
        PROVE  mail'[l][e][i].by \in Started
    <3>1. CASE l \in 1..Len(mail)
      BY <1>6, <2>2, <3>1 DEF Letters, UnbornUnknown
    <3>2. CASE l \notin 1..Len(mail)
      <4>1. mail'[l][e] = <<>>
        BY <1>6, <3>2 DEF none
      <4>2. QED
        BY <2>2, <4>1
    <3>3. QED
      BY <3>1, <3>2
  <2>3. QED
    BY <1>2, <1>4, <2>1, <2>2 DEF Letters, UnbornUnknown
<1>11. LabelsTrue'
  <2> SUFFICES ASSUME NEW r \in Unforked', NEW s \in Unforked',
                      NEW i \in 1..Len(chans'[r]), NEW j \in 1..Len(chans'[s]),
                      chans'[r][i].end = Other(chans'[s][j].end)
               PROVE  chans'[r][i].pid = pid'[s]
    BY DEF LabelsTrue
  <2>0. r \in Procs /\ s \in Procs
    BY DEF Unforked
  <2>1. CASE Old(r, i) /\ Old(s, j)
    <3>1. r \in Unforked /\ s \in Unforked /\ pid'[s] = pid[s]
      BY <1>2, <1>3, <2>0, <2>1
    <3>2. QED
      BY <2>1, <3>1 DEF Letters, LabelsTrue
  <2>2. CASE Old(r, i) /\ chans'[s][j] \in {mine, its}
    BY <1>8, <1>9, <1>a, <2>0, <2>2
  <2>3. CASE chans'[r][i] \in {mine, its} /\ Old(s, j)
    BY <1>8, <1>9, <1>a, <2>0, <2>3
  <2>4. CASE chans'[r][i] = mine /\ chans'[s][j] = mine
    <3>1. <<k, 1>> = <<k, 2>>
      BY <1>9, <1>b, <2>4
    <3>2. QED
      BY <3>1
  <2>5. CASE chans'[r][i] = its /\ chans'[s][j] = its
    <3>1. <<k, 2>> = <<k, 1>>
      BY <1>9, <1>b, <2>5
    <3>2. QED
      BY <3>1
  <2>6. CASE chans'[r][i] = mine /\ s = q
    BY <1>9, <2>6
  <2>7. CASE chans'[r][i] = its /\ s = p
    BY <1>1, <1>2, <1>9, <2>7
  <2> HIDE DEF Old
  <2>8. Old(r, i) \/ (r = p /\ chans'[r][i] = mine) \/ (r = q /\ chans'[r][i] = its)
    BY <1>7, <2>0
  <2>9. Old(s, j) \/ (s = p /\ chans'[s][j] = mine) \/ (s = q /\ chans'[s][j] = its)
    BY <1>7, <2>0
  <2>10. QED
    BY <2>1, <2>2, <2>3, <2>4, <2>5, <2>6, <2>7, <2>8, <2>9
<1>12. MailTrue'
  <2> SUFFICES ASSUME NEW l \in 1..Len(mail'), NEW e \in 1..2, NEW x \in 1..Len(mail'[l][e])
               PROVE  Faithful(mail'[l][e][x], l, e, Unforked', chans', pid')
    BY DEF MailTrue
  <2>1. l \in 1..Len(mail) /\ mail'[l] = mail[l]
    <3>1. CASE l \notin 1..Len(mail)
      <4>1. mail'[l][e] = <<>>
        BY <1>6, <3>1 DEF none
      <4>2. QED
        BY <4>1
    <3>2. QED
      BY <1>6, <3>1
  <2> DEFINE m == mail[l][e][x]
  <2>2. m.by \in Started /\ Faithful(m, l, e, Unforked, chans, pid)
    BY <2>1 DEF Letters, UnbornUnknown, MailTrue
  <2>3. m.by \in Unforked' => m.by \in Unforked
    BY <1>3, <1>4, <2>2
  <2> HIDE DEF m
  <2>4. ASSUME m.by \in Unforked', NEW r \in Unforked', NEW j \in 1..Len(chans'[r]),
               chans'[r][j].end = <<l, e>>
        PROVE  chans'[r][j].pid = m.pid /\ m.to = pid'[r]
    <3>0. r \in Procs
      BY DEF Unforked
    <3>1. l # k
      BY <1>6, <2>1 DEF k
    <3>2. Old(r, j)
      <4> HIDE DEF Old
      <4>1. chans'[r][j] \notin {mine, its}
        BY <1>9, <2>4, <3>1
      <4>2. QED
        BY <1>7, <3>0, <4>1
    <3>3. r \in Unforked /\ pid'[r] = pid[r]
      BY <1>2, <1>3, <3>0, <3>2
    <3>4. QED
      BY <2>2, <2>3, <2>4, <3>2, <3>3 DEF Faithful
  <2>5. QED
    BY <2>1, <2>4 DEF Faithful, m
<1>13. MailMatches'
  <2> SUFFICES ASSUME NEW r \in Procs, NEW x \in 1..Len(inbox[r]),
                      "fork" \notin {made'[r], made'[inbox[r][x].mail.by]}
               PROVE  /\ inbox[r][x].as = inbox[r][x].mail.pid
                      /\ inbox[r][x].mail.to = pid'[r]
    BY <1>2 DEF MailMatches
  <2>1. inbox[r][x].mail.by \in Procs /\ inbox[r][x].mail.by \in Started
    BY MailShape DEF Datagram, Letters, UnbornUnknown
  <2>2. r # q
    BY <1>5
  <2>3. QED
    BY <1>2, <1>4, <2>1, <2>2 DEF Letters, MailMatches
<1>14. QED
  BY <1>10, <1>11, <1>12, <1>13 DEF Letters

\* The channels that abort leaves are as true as they were.
LEMMA AbortLetters ==
  ASSUME IInv, Typed, Letters, NEW p \in Procs, NEW q \in Procs, Abort(p, q)
  PROVE  Letters'
<1>1. /\ st' = [st EXCEPT ![q] = "gone"] /\ st[q] # "unborn" /\ st[p] = "running"
      /\ chans' = [chans EXCEPT ![p] = Without(chans[p], pid[q])]
      /\ UNCHANGED <<pid, made, mail, inbox>>
  BY EndSteps DEF Dies, AbortChannels
<1>2. Started' = Started /\ p \in Started /\ Unforked' = Unforked
  BY <1>1 DEF Started, Unforked, Typed, CallsTyped
<1>3. chans[p] \in Seq(Channel(Len(mail))) /\ DOMAIN chans = Procs
  BY MailShape DEF Typed, MailTyped
<1>4. \A r \in Procs : r # p => chans'[r] = chans[r]
  BY <1>1, <1>3
<1>5. \A r \in Procs : \A i \in 1..Len(chans'[r]) :
        \E j \in 1..Len(chans[r]) : chans'[r][i] = chans[r][j]
  <2>1. chans'[p] = Without(chans[p], pid[q])
    BY <1>1, <1>3
  <2>2. QED
    BY <1>3, <1>4, <2>1, WithoutParts
<1>6. UnbornUnknown'
  BY <1>1, <1>2, <1>4 DEF Letters, UnbornUnknown
<1>7. LabelsTrue'
  <2> SUFFICES ASSUME NEW r \in Unforked, NEW t \in Unforked,
                      NEW i \in 1..Len(chans'[r]), NEW j \in 1..Len(chans'[t]),
                      chans'[r][i].end = Other(chans'[t][j].end)
               PROVE  chans'[r][i].pid = pid[t]
    BY <1>1, <1>2 DEF LabelsTrue, Other
  <2>1. r \in Procs /\ t \in Procs
    BY DEF Unforked
  <2>2. PICK x \in 1..Len(chans[r]) : chans'[r][i] = chans[r][x]
    BY <1>5, <2>1
  <2>3. PICK y \in 1..Len(chans[t]) : chans'[t][j] = chans[t][y]
    BY <1>5, <2>1
  <2>4. QED
    BY <2>2, <2>3 DEF Letters, LabelsTrue
<1>8. MailTrue'
  <2>1. ASSUME NEW m, NEW k, NEW e, Faithful(m, k, e, Unforked, chans, pid)
        PROVE  Faithful(m, k, e, Unforked, chans', pid)
    <3> SUFFICES ASSUME m.by \in Unforked, NEW r \in Unforked,
                        NEW j \in 1..Len(chans'[r]), chans'[r][j].end = <<k, e>>
                 PROVE  chans'[r][j].pid = m.pid /\ m.to = pid[r]
      BY DEF Faithful
    <3>1. r \in Procs
      BY DEF Unforked
    <3>2. PICK x \in 1..Len(chans[r]) : chans'[r][j] = chans[r][x]
      BY <1>5, <3>1
    <3>3. QED
      BY <2>1, <3>2 DEF Faithful
  <2>2. QED
    BY <1>1, <1>2, <2>1 DEF Letters, MailTrue
<1>9. MailMatches'
  BY <1>1 DEF Letters, MailMatches
<1>10. QED
  BY <1>6, <1>7, <1>8, <1>9 DEF Letters

LEMMA LettersInit == Init => Letters
<1> SUFFICES ASSUME Init PROVE Letters
  OBVIOUS
<1>1. /\ mail = <<>> /\ chans = [p \in Procs |-> <<>>] /\ inbox = [p \in Procs |-> <<>>]
  BY DEF Init
<1>2. QED
  BY <1>1 DEF Letters, UnbornUnknown, LabelsTrue, MailTrue, MailMatches, Unforked

LEMMA LettersStep == IInv /\ Typed /\ Letters /\ [Next]_vars => Letters'
<1> SUFFICES ASSUME IInv, Typed, Letters, [Next]_vars PROVE Letters'
  OBVIOUS
<1>1. CASE UNCHANGED vars
  BY <1>1, LettersKept DEF vars, kernelVars, mailVars, Started
<1>2. ASSUME NEW p \in Procs, FileStep(p) \/ CallStep(p), UNCHANGED mailVars
      PROVE  Letters'
  <2>1. st' = st
    BY <1>2, FileCallProcesses
  <2>2. QED
    BY <1>2, <2>1, LettersKept DEF mailVars, Started
<1>3. ASSUME NEW p \in Procs, MailStep(p)
      PROVE  Letters'
  <2>1. CASE \/ NewPage(p) \/ PageWriteEnd(p) \/ PageReadEnd(p)
             \/ \E k \in pages[p] : (\E text \in Texts : BeginPageWrite(p, k, text))
                                    \/ BeginPageRead(p, k)
    <3>1. UNCHANGED <<st, pid, made, chans, mail, inbox>>
      BY <2>1 DEF NewPage, PageWriteEnd, PageReadEnd, BeginPageWrite, BeginPageRead,
                  mailVars, kernelVars
    <3>2. QED
      BY <3>1, LettersKept DEF Started
  <2>2. QED
    BY <1>3, <2>1, SendFaithful, ReceiveFaithful DEF MailStep
<1>4. ASSUME NEW p \in Procs, Exit(p)
      PROVE  Letters'
  <2>1. st' = [st EXCEPT ![p] = "gone"] /\ st[p] = "running"
        /\ UNCHANGED <<pid, made, chans, mail, inbox>>
    BY <1>4 DEF Exit, Dies, Running
  <2>2. Started' = Started
    BY <2>1 DEF Started, Typed, CallsTyped
  <2>3. QED
    BY <2>1, <2>2, LettersKept
<1>5. CASE Next
  BY <1>2, <1>3, <1>4, <1>5, ForkLetters, SpawnLetters, AbortLetters DEF Next
<1>6. QED
  BY <1>1, <1>5

\* Between processes that no plain fork has made, what receive gives under a
\* label was sent by the process of that number to the receiver: never a message
\* to a parent or a sibling, in every program and also when children are aborted
\* and the system gives out process numbers again (process.rs, sf_spawn, b_send,
\* receive_one, b_abort).
THEOREM MessagesArriveAsLabelled == Spec => []MailMatches
<1>1. Letters => MailMatches
  BY DEF Letters
<1>2. QED
  BY <1>1, InitInv, InvStep, InitTyped, TypedStep, LettersInit, LettersStep, PTL DEF Spec

-----------------------------------------------------------------------------
(* Shared pages: a page that no write has spoilt has at most one writer, and *)
(* when it has none it holds the value written last.                         *)

OneWriter ==
  \A k \in 1..Len(page) : ~page[k].mixed =>
    /\ \A p, q \in InWrite(k) : p = q
    /\ \A p \in InWrite(k) : page[k].len = Len(call[p].text)

QuietPage ==
  \A k \in 1..Len(page) : ~page[k].mixed /\ InWrite(k) = {} =>
    /\ page[k].len = Len(page[k].last)
    /\ SubSeq(page[k].bytes, 1, page[k].len) = page[k].last

QuietReader ==
  \A k \in 1..Len(page), p \in Procs :
    call[p].op = "page-read" /\ call[p].k = k /\ call[p].quiet =>
      InWrite(k) = {} /\ call[p].n = page[k].len

Shared == OneWriter /\ QuietPage /\ QuietReader

\* Only a running process writes, so the writers follow from the calls.
LEMMA WritersAre ==
  /\ CallsTyped => \A k : InWrite(k) =
       {q \in Procs : call[q].op = "page-write" /\ call[q].k = k}
  /\ CallsTyped' => \A k : InWrite(k)' =
       {q \in Procs : call'[q].op = "page-write" /\ call'[q].k = k}
<1>1. Idle.op # "page-write"
  BY DEF Idle
<1>2. QED
  BY <1>1 DEF CallsTyped, InWrite, Running

\* Calls that are none of pages.
OffPages(c) == c.op \notin {"page-write", "page-read"}

\* A step that touches no page and no call on one.
LEMMA SharedKept ==
  ASSUME CallsTyped, CallsTyped', Shared, UNCHANGED page,
         \A q \in Procs : call'[q] = call[q] \/ (OffPages(call[q]) /\ OffPages(call'[q]))
  PROVE  Shared'
<1>1. \A k : InWrite(k)' = InWrite(k)
  <2>1. \A k : \A q \in Procs : (call'[q].op = "page-write" /\ call'[q].k = k)
                             <=> (call[q].op = "page-write" /\ call[q].k = k)
    BY DEF OffPages
  <2>2. QED
    BY ZenonT(30), <2>1, WritersAre
<1>2. \A k : \A q \in InWrite(k) : q \in Procs /\ call'[q] = call[q]
  BY WritersAre DEF OffPages
<1>3. OneWriter'
  BY <1>1, <1>2 DEF Shared, OneWriter
<1>4. QuietPage'
  BY <1>1 DEF Shared, QuietPage
<1>5. QuietReader'
  BY <1>1 DEF Shared, QuietReader, OffPages
<1>6. QED
  BY <1>3, <1>4, <1>5 DEF Shared

\* The file operations of a process leave the calls of the others alone.
LEMMA FileCallsOnly ==
  ASSUME IInv, Typed, NEW p \in Procs, FileStep(p) \/ CallStep(p)
  PROVE  \A q \in Procs : \/ call'[q] = call[q]
                          \/ q = p /\ OffPages(call[q]) /\ OffPages(call'[q])
<1>1. DOMAIN call = Procs /\ Idle.op = "idle"
  BY DEF Typed, CallsTyped, Idle
<1>2. ASSUME call' = call \/ \E c : Becomes(p, c) /\ OffPages(c) /\ OffPages(call[p])
      PROVE  \A q \in Procs : \/ call'[q] = call[q]
                              \/ q = p /\ OffPages(call[q]) /\ OffPages(call'[q])
  BY <1>1, <1>2 DEF Becomes
<1>3. CASE FileStep(p)
  <2>1. ASSUME NEW op, Begin(p, op)
        PROVE  OffPages(call[p])
    BY <1>1, <2>1, BeginFacts DEF OffPages
  <2>2. ASSUME NEW path, NEW mode, Open(p, path, mode)
        PROVE  call' = call
    BY <2>2 DEF Open
  <2>3. ASSUME NEW h, \/ CloseHandle(p, h) \/ \E to \in -1..1 : Seek(p, h, to)
        PROVE  call' = call
    BY <2>3 DEF CloseHandle, Seek
  <2>4. ASSUME NEW h, BeginReadLine(p, h)
        PROVE  \E c : Becomes(p, c) /\ OffPages(c) /\ OffPages(call[p])
    BY <2>1, <2>4 DEF BeginReadLine, OffPages
  <2>5. ASSUME NEW h, NEW size, NEW wait, BeginReadBuffer(p, h, size, wait)
        PROVE  \E c : Becomes(p, c) /\ OffPages(c) /\ OffPages(call[p])
    BY <2>1, <2>5 DEF BeginReadBuffer, OffPages
  <2>6. ASSUME NEW h, NEW text, BeginWrite(p, h, text)
        PROVE  \E c : Becomes(p, c) /\ OffPages(c) /\ OffPages(call[p])
    BY <2>1, <2>6 DEF BeginWrite, OffPages
  <2>7. ASSUME NEW h, BeginWriteCurrent(p, h)
        PROVE  \E c : Becomes(p, c) /\ OffPages(c) /\ OffPages(call[p])
    BY <2>1, <2>7 DEF BeginWriteCurrent, OffPages
  <2>8. ASSUME NEW h, BeginAccept(p, h)
        PROVE  \E c : Becomes(p, c) /\ OffPages(c) /\ OffPages(call[p])
    BY <2>1, <2>8 DEF BeginAccept, OffPages
  <2>9. ASSUME NEW path, NEW mode, NEW text, BeginWriteWhole(p, path, mode, text)
        PROVE  \E c : Becomes(p, c) /\ OffPages(c) /\ OffPages(call[p])
    BY <2>1, <2>9 DEF BeginWriteWhole, OffPages
  <2>10. ASSUME NEW a, NEW b, \/ DeleteFile(p, a) \/ RenameFile(p, a, b) \/ Pipe(p)
                              \/ Listen(p, a) \/ Connect(p, a)
         PROVE  call' = call
    BY <2>10 DEF DeleteFile, RenameFile, Pipe, Listen, Connect
  <2>11. ASSUME NEW text, BeginExec(p, text)
         PROVE  \E c : Becomes(p, c) /\ OffPages(c) /\ OffPages(call[p])
    BY <2>1, <2>11 DEF BeginExec, OffPages
  <2>12. call' = call \/ \E c : Becomes(p, c) /\ OffPages(c) /\ OffPages(call[p])
    BY <1>3, <2>2, <2>3, <2>4, <2>5, <2>6, <2>7, <2>8, <2>9, <2>10, <2>11 DEF FileStep
  <2>13. QED
    BY <1>2, <2>12
<1>4. CASE CallStep(p)
  <2> DEFINE c == call[p]
  <2>1. OffPages(c)
    BY <1>4 DEF CallStep, ReadLineByte, ReadLineEnd, ReadBufferStep, ReadBufferEnd, WriteStep,
         Accept, ExecFeed, CommandStep, ExecDrain, OffPages
  <2>2. OffPages(Idle)
    BY <1>1 DEF OffPages
  <2>3. \E d : Becomes(p, d) /\ OffPages(d)
    <3>1. CASE ReadLineByte(p)
      <4> DEFINE text == LineAfter(c.text, Head(Avail(c.d)))
                 on == [c EXCEPT !.text = text, !.got = TRUE]
      <4>1. Becomes(p, Idle) \/ Becomes(p, on)
        BY <3>1 DEF ReadLineByte
      <4>2. c.op = "line" /\ c \in [op : {"line"}, d : 1..Len(desc), text : ByteSeq, got : BOOLEAN]
        BY <3>1, CallParts DEF ReadLineByte
      <4> HIDE DEF text, c
      <4>3. on.op = "line"
        BY <4>2
      <4>4. QED
        BY <2>2, <4>1, <4>3 DEF OffPages
    <3>2. CASE ReadLineEnd(p) \/ ReadBufferEnd(p) \/ Accept(p)
      BY <2>2, <3>2 DEF ReadLineEnd, ReadBufferEnd, EndReadBuffer, Accept
    <3>3. CASE ReadBufferStep(p)
      <4> DEFINE n == IF c.wait = <<>> THEN Min({c.size, Len(Avail(c.d))}) ELSE 1
                 text == c.text \o SubSeq(Avail(c.d), 1, n)
                 on == [c EXCEPT !.text = text]
      <4>1. Becomes(p, Idle) \/ Becomes(p, on)
        BY <3>3 DEF ReadBufferStep, EndReadBuffer
      <4>2. /\ c.op = "buffer"
            /\ c \in [op : {"buffer"}, d : 1..Len(desc), size : 1..3,
                      wait : {<<>>, <<NL>>}, text : ByteSeq]
        BY <3>3, CallParts DEF ReadBufferStep
      <4> HIDE DEF text, c
      <4>3. on.op = "buffer"
        BY <4>2
      <4>4. QED
        BY <2>2, <4>1, <4>3 DEF OffPages
    <3>4. CASE WriteStep(p)
      <4>1. PICK n : Becomes(p, Idle)
                     \/ Becomes(p, [c EXCEPT !.rest = SubSeq(c.rest, n + 1, Len(c.rest))])
        BY <3>4 DEF WriteStep
      <4> DEFINE rest == SubSeq(c.rest, n + 1, Len(c.rest))
                 on == [c EXCEPT !.rest = rest]
      <4>2. Becomes(p, Idle) \/ Becomes(p, on)
        BY <4>1
      <4>3. c.op = "write" /\ c \in [op : {"write"}, d : 1..Len(desc), rest : ByteSeq]
        BY <3>4, CallParts DEF WriteStep
      <4> HIDE DEF rest, c
      <4>4. on.op = "write"
        BY <4>3
      <4>5. QED
        BY <2>2, <4>2, <4>4 DEF OffPages
    <3>5. CASE ExecFeed(p) \/ CommandStep(p) \/ ExecDrain(p)
      <4> DEFINE n == Min({Capacity - Len(c.to), Len(c.rest)})
                 rest == SubSeq(c.rest, n + 1, Len(c.rest))
                 to == c.to \o SubSeq(c.rest, 1, n)
                 less == Tail(c.to)
                 from == Append(c.from, Head(c.to))
                 fed == [c EXCEPT !.rest = rest, !.to = to]
                 moved == [c EXCEPT !.to = less, !.from = from]
                 read == [c EXCEPT !.from = <<>>]
      <4>1. c.op = "exec"
        BY <3>5 DEF ExecFeed, CommandStep, ExecDrain
      <4>2. c \in [op : {"exec"}, rest : ByteSeq, to : ByteSeq, from : ByteSeq, all : ByteSeq]
        BY <4>1, CallParts
      <4>3. ExecFeed(p) => Becomes(p, fed)
        BY DEF ExecFeed
      <4>4. CommandStep(p) => Becomes(p, moved)
        BY DEF CommandStep
      <4>5. ExecDrain(p) => Becomes(p, read) \/ Becomes(p, Idle)
        BY DEF ExecDrain
      <4> HIDE DEF rest, to, less, from, c
      <4>6. fed.op = "exec" /\ moved.op = "exec" /\ read.op = "exec"
        BY <4>1, <4>2
      <4>7. QED
        BY <2>2, <3>5, <4>3, <4>4, <4>5, <4>6 DEF OffPages
    <3>6. QED
      BY <1>4, <3>1, <3>2, <3>3, <3>4, <3>5 DEF CallStep
  <2>4. QED
    BY <1>2, <2>1, <2>3
<1>5. QED
  BY <1>3, <1>4

LEMMA NewPageShared ==
  ASSUME IInv, Typed, Typed', Shared, NEW p \in Procs, NewPage(p)
  PROVE  Shared'
<1> DEFINE new == [len |-> 0, bytes |-> <<>>, last |-> <<>>, mixed |-> FALSE]
           n == Len(page) + 1
<1>1. page' = Append(page, new) /\ call' = call /\ page \in Seq(Page)
  BY DEF NewPage, Typed, PagesTyped
<1>2. /\ n \in Nat /\ 1..Len(page') = 1..n /\ n \notin 1..Len(page) /\ page'[n] = new
      /\ \A k \in 1..Len(page) : page'[k] = page[k]
      /\ \A k \in 1..n : k = n \/ k \in 1..Len(page)
  <2> HIDE DEF new
  <2>1. \A k \in 1..Len(page) + 1 : k = Len(page) + 1 \/ k \in 1..Len(page)
    BY <1>1
  <2>2. QED
    BY <1>1, <2>1
<1>3. \A k : InWrite(k)' = InWrite(k)
  BY <1>1, WritersAre DEF Typed
<1>4. \A q \in Procs : call[q].op \in {"page-write", "page-read"} => call[q].k \in 1..Len(page)
  BY CallParts
<1>5. InWrite(n) = {}
  BY <1>2, <1>4, WritersAre DEF Typed
<1>6. new.len = 0 /\ new.bytes = <<>> /\ new.last = <<>>
  OBVIOUS
<1> HIDE DEF new, n
<1>7. OneWriter'
  BY <1>1, <1>2, <1>3, <1>5 DEF Shared, OneWriter
<1>8. SubSeq(new.bytes, 1, new.len) = new.last /\ new.len = Len(new.last)
  BY <1>6
<1>9. QuietPage'
  BY <1>2, <1>3, <1>8 DEF Shared, QuietPage
<1>10. QuietReader'
  BY <1>1, <1>2, <1>3, <1>4 DEF Shared, QuietReader
<1>11. QED
  BY <1>7, <1>9, <1>10 DEF Shared

\* A write that begins makes every read of a page that is going on a noisy one.
LEMMA BeginWriteShared ==
  ASSUME IInv, Typed, Typed', Shared, NEW p \in Procs, NEW k \in pages[p], NEW text \in Texts,
         BeginPageWrite(p, k, text)
  PROVE  Shared'
<1>1. /\ k \in 1..Len(page) /\ Len(page') = Len(page)
      /\ \A j \in 1..Len(page) : j # k => page'[j] = page[j]
      /\ page'[k].len = Len(text) /\ page'[k].mixed = (InWrite(k) # {})
  BY PageWriteBegins
<1>2. call[p].op = "idle" /\ \A q \in Procs : call'[q] =
        IF q = p THEN [op |-> "page-write", k |-> k, text |-> text]
        ELSE IF call[q].op = "page-read" THEN [call[q] EXCEPT !.quiet = FALSE] ELSE call[q]
  BY BeginFacts DEF BeginPageWrite, Idle
<1>3. /\ call'[p].op = "page-write" /\ call'[p].k = k /\ call'[p].text = text
      /\ \A q \in Procs \ {p} : call[q].op # "page-read" => call'[q] = call[q]
  <2>1. call'[p] = [op |-> "page-write", k |-> k, text |-> text]
    BY <1>2
  <2>2. ASSUME NEW q \in Procs, q # p, call[q].op # "page-read"
        PROVE  call'[q] = call[q]
    BY <1>2, <2>2
  <2>3. QED
    BY <2>1, <2>2
<1>4. ASSUME NEW q \in Procs, call[q].op = "page-read"
      PROVE  call'[q].op = "page-read" /\ call'[q].quiet = FALSE
  <2>1. call[q] \in [op : {"page-read"}, k : 1..Len(page), n : Nat, quiet : BOOLEAN]
    BY <1>4, CallParts
  <2>2. call'[q] = [call[q] EXCEPT !.quiet = FALSE]
    BY <1>2, <1>4
  <2> DEFINE c == call[q]
  <2>3. c \in [op : {"page-read"}, k : 1..Len(page), n : Nat, quiet : BOOLEAN]
    BY <2>1
  <2> HIDE DEF c
  <2>4. [c EXCEPT !.quiet = FALSE].op = "page-read" /\ [c EXCEPT !.quiet = FALSE].quiet = FALSE
    BY <2>3
  <2>5. QED
    BY <2>2, <2>4 DEF c
<1>5. \A j : InWrite(j)' = IF j = k THEN InWrite(j) \cup {p} ELSE InWrite(j)
  <2>1. \A j : \A q \in Procs : (call'[q].op = "page-write" /\ call'[q].k = j)
          <=> (call[q].op = "page-write" /\ call[q].k = j) \/ (q = p /\ j = k)
    BY <1>2, <1>3, <1>4
  <2>2. \A j : \A q : q \in InWrite(j)' <=> q \in InWrite(j) \/ (q = p /\ j = k)
    BY <2>1, WritersAre DEF Typed
  <2>3. QED
    BY <2>2
<1>6. \A j : \A q \in InWrite(j) : q \in Procs /\ call'[q] = call[q]
  BY <1>2, <1>3, WritersAre DEF Typed
<1>7. OneWriter'
  <2>1. ASSUME NEW j \in 1..Len(page), j # k
        PROVE  page'[j] = page[j] /\ InWrite(j)' = InWrite(j)
    BY <1>1, <1>5, <2>1
  <2>2. ~page'[k].mixed => InWrite(k)' = {p}
    BY <1>1, <1>5
  <2>3. QED
    BY <1>1, <1>3, <1>6, <2>1, <2>2 DEF Shared, OneWriter
<1>8. QuietPage'
  BY <1>1, <1>5 DEF Shared, QuietPage
<1>9. QuietReader'
  BY <1>2, <1>3, <1>4 DEF QuietReader
<1>10. QED
  BY <1>7, <1>8, <1>9 DEF Shared

\* A text stored over the bytes of a page is what its first bytes are.
LEMMA TextOnTop ==
  ASSUME NEW S, NEW text \in Seq(S), NEW rest \in Seq(S)
  PROVE  SubSeq(text \o rest, 1, Len(text)) = text
OBVIOUS

LEMMA EndWriteShared ==
  ASSUME IInv, Typed, Typed', Shared, NEW p \in Procs, PageWriteEnd(p)
  PROVE  Shared'
<1> DEFINE k == call[p].k
           text == call[p].text
           rest == SubSeq(page[k].bytes, Len(text) + 1, Len(page[k].bytes))
<1>1. /\ k \in 1..Len(page) /\ Len(page') = Len(page) /\ text \in ByteSeq
      /\ \A j \in 1..Len(page) : j # k => page'[j] = page[j]
      /\ page'[k].len = page[k].len /\ page'[k].mixed = page[k].mixed
      /\ page'[k].last = text /\ page'[k].bytes = text \o rest
  BY PageWriteEnds
<1>2. /\ call[p].op = "page-write" /\ call'[p].op = "idle"
      /\ \A q \in Procs : q # p => call'[q] = call[q]
  BY DEF PageWriteEnd, Becomes, Typed, CallsTyped, Idle
<1>3. SubSeq(text \o rest, 1, Len(text)) = text
  <2>1. page[k].bytes \in ByteSeq
    <3>1. page \in Seq(Page) /\ k \in 1..Len(page)
      BY <1>1 DEF Typed, PagesTyped
    <3> HIDE DEF k
    <3>2. page[k] \in Page
      BY <3>1, ElementOfSeq
    <3>3. QED
      BY <3>2 DEF Page
  <2>2. rest \in ByteSeq
    <3>1. Len(text) \in Nat /\ Len(page[k].bytes) \in Nat
      BY <1>1, <2>1, LenProperties DEF ByteSeq
    <3>2. QED
      BY <2>1, <3>1, PartOfSeq DEF ByteSeq
  <2> HIDE DEF text, rest
  <2>3. QED
    BY <1>1, <2>2, TextOnTop DEF ByteSeq
<1>4. \A j : InWrite(j)' = InWrite(j) \ {p}
  <2>1. \A j : \A q \in Procs : (call'[q].op = "page-write" /\ call'[q].k = j)
          <=> (call[q].op = "page-write" /\ call[q].k = j) /\ q # p
    BY <1>2
  <2>2. QED
    BY <2>1, WritersAre DEF Typed
<1>5. p \in InWrite(k) /\ \A j : j # k => p \notin InWrite(j)
  BY <1>2, WritersAre DEF Typed
<1>6. \A j : \A q \in InWrite(j) \ {p} : q \in Procs /\ call'[q] = call[q]
  BY <1>2, WritersAre DEF Typed
<1> HIDE DEF k, text, rest
<1>7. \A j \in 1..Len(page) : j # k => page'[j] = page[j] /\ InWrite(j)' = InWrite(j)
  BY <1>1, <1>4, <1>5
<1>8. ~page'[k].mixed => (\A j : j = k => InWrite(j)' = {}) /\ page[k].len = Len(text)
  <2>1. ~page[k].mixed => (\A q \in InWrite(k) : q = p) /\ page[k].len = Len(call[p].text)
    BY <1>1, <1>5 DEF Shared, OneWriter
  <2>2. page[k].len = Len(call[p].text) => page[k].len = Len(text)
    BY DEF text
  <2>3. (\A q \in InWrite(k) : q = p) => \A j : j = k => InWrite(j)' = {}
    BY <1>4
  <2>4. QED
    BY <1>1, <2>1, <2>2, <2>3
<1>9. OneWriter'
  <2>1. ASSUME NEW j \in 1..Len(page), j # k, ~page'[j].mixed
        PROVE  /\ \A q, r \in InWrite(j)' : q = r
               /\ \A q \in InWrite(j)' : page'[j].len = Len(call'[q].text)
    <3>1. page'[j] = page[j] /\ InWrite(j)' = InWrite(j) /\ p \notin InWrite(j)
      BY <1>5, <1>7, <2>1
    <3>2. \A q \in InWrite(j) : call'[q] = call[q]
      BY <1>6, <3>1
    <3>3. QED
      BY <2>1, <3>1, <3>2 DEF Shared, OneWriter
  <2>2. ASSUME NEW j, j = k, ~page'[k].mixed
        PROVE  InWrite(j)' = {}
    BY <1>8, <2>2
  <2>3. QED
    BY <1>1, <2>1, <2>2 DEF OneWriter
<1>10. QuietPage'
  BY <1>1, <1>3, <1>7, <1>8 DEF Shared, QuietPage
<1>11. QuietReader'
  <2>1. \A q \in Procs : call'[q].op = "page-read" => call'[q] = call[q]
    BY <1>2
  <2>2. QED
    BY <1>1, <1>5, <1>7, <2>1 DEF Shared, QuietReader
<1>12. QED
  BY <1>9, <1>10, <1>11 DEF Shared

\* A read changes no page.
LEMMA ReadShared ==
  ASSUME IInv, Typed, Typed', Shared, NEW p \in Procs,
         PageReadEnd(p) \/ \E k \in pages[p] : BeginPageRead(p, k)
  PROVE  Shared'
<1>1. /\ page' = page
      /\ \A q \in Procs : q # p => call'[q] = call[q]
      /\ call[p].op # "page-write" /\ call'[p].op # "page-write"
  BY BeginFacts DEF PageReadEnd, BeginPageRead, Becomes, mailVars, Typed, CallsTyped, Idle
<1>2. \A k : InWrite(k)' = InWrite(k)
  <2>1. \A k : \A q \in Procs : (call'[q].op = "page-write" /\ call'[q].k = k)
                             <=> (call[q].op = "page-write" /\ call[q].k = k)
    BY <1>1
  <2>2. QED
    BY <2>1, WritersAre DEF Typed
<1>3. \A k : \A q \in InWrite(k) : q \in Procs /\ call'[q] = call[q]
  BY <1>1, WritersAre DEF Typed
<1>4. OneWriter'
  BY <1>1, <1>2, <1>3 DEF Shared, OneWriter
<1>5. QuietPage'
  BY <1>1, <1>2 DEF Shared, QuietPage
<1>6. ASSUME NEW k, call'[p].op = "page-read", call'[p].k = k, call'[p].quiet
      PROVE  InWrite(k) = {} /\ call'[p].n = page[k].len
  <2>1. DOMAIN call = Procs
    BY DEF Typed, CallsTyped
  <2>2. ~PageReadEnd(p)
    BY <1>6, <2>1 DEF PageReadEnd, Becomes, Idle
  <2>3. PICK j : BeginPageRead(p, j)
    BY <2>2
  <2> DEFINE quiet == InWrite(j) = {}
             n == page[j].len
  <2>4. call'[p] = [op |-> "page-read", k |-> j, n |-> n, quiet |-> quiet]
    BY <2>1, <2>3 DEF BeginPageRead, Becomes
  <2> HIDE DEF quiet, n
  <2>5. call'[p].k = j /\ call'[p].n = n /\ call'[p].quiet = quiet
    BY <2>4
  <2>6. QED
    BY <1>6, <2>5 DEF quiet, n
<1>7. QuietReader'
  BY <1>1, <1>2, <1>6 DEF Shared, QuietReader
<1>8. QED
  BY <1>4, <1>5, <1>7 DEF Shared

\* A writer that dies half-way leaves a page of which nothing is promised.
LEMMA EndShared ==
  ASSUME IInv, Typed, Typed', Shared, NEW p \in Procs, Dies(p)
  PROVE  Shared'
<1>1. /\ call'[p].op = "idle" /\ \A q \in Procs : q # p => call'[q] = call[q]
      /\ page' = IF call[p].op = "page-write"
                   THEN [page EXCEPT ![call[p].k].mixed = TRUE] ELSE page
  BY DEF Dies, Becomes, Typed, CallsTyped, Idle
<1>2. \A j : InWrite(j)' = InWrite(j) \ {p}
  <2>1. \A j : \A q \in Procs : (call'[q].op = "page-write" /\ call'[q].k = j)
          <=> (call[q].op = "page-write" /\ call[q].k = j) /\ q # p
    BY <1>1
  <2>2. QED
    BY <2>1, WritersAre DEF Typed
<1>3. \A j : \A q \in InWrite(j) \ {p} : q \in Procs /\ call'[q] = call[q]
  BY <1>1, WritersAre DEF Typed
<1>4. /\ Len(page') = Len(page)
      /\ \A j \in 1..Len(page) :
           \/ page'[j] = page[j] /\ p \notin InWrite(j)
           \/ page'[j].mixed = TRUE /\ page'[j].len = page[j].len
  <2>1. CASE call[p].op # "page-write"
    BY <1>1, <2>1, WritersAre DEF Typed
  <2>2. CASE call[p].op = "page-write"
    <3> DEFINE k == call[p].k
               new == [page[k] EXCEPT !.mixed = TRUE]
    <3>1. page \in Seq(Page) /\ k \in 1..Len(page)
      BY <2>2, CallParts DEF Typed, PagesTyped
    <3>2. page[k] \in Page
      BY <3>1
    <3>3. new \in Page /\ new.mixed = TRUE /\ new.len = page[k].len
      BY <3>2 DEF Page
    <3>4. page' = [page EXCEPT ![k] = new]
      BY <1>1, <2>2, <3>1
    <3>5. \A j : j # k => p \notin InWrite(j)
      BY WritersAre DEF Typed
    <3> HIDE DEF new, k
    <3>6. QED
      BY <3>1, <3>3, <3>4, <3>5, PageSet
  <2>3. QED
    BY <2>1, <2>2
<1>5. OneWriter'
  BY <1>2, <1>3, <1>4 DEF Shared, OneWriter
<1>6. QuietPage'
  BY <1>2, <1>4 DEF Shared, QuietPage
<1>7. QuietReader'
  <2>1. \A q \in Procs : call'[q].op = "page-read" => call'[q] = call[q]
    BY <1>1
  <2>2. ASSUME NEW k \in 1..Len(page), InWrite(k) = {}
        PROVE  InWrite(k)' = {} /\ page'[k].len = page[k].len
    BY <1>2, <1>4, <2>2
  <2>3. QED
    BY <1>4, <2>1, <2>2 DEF Shared, QuietReader
<1>8. QED
  BY <1>5, <1>6, <1>7 DEF Shared

LEMMA SharedInit == Init => Shared
BY DEF Init, Shared, OneWriter, QuietPage, QuietReader, Idle

LEMMA SharedStep == IInv /\ Typed /\ Typed' /\ Shared /\ [Next]_vars => Shared'
<1> SUFFICES ASSUME IInv, Typed, Typed', Shared, [Next]_vars PROVE Shared'
  OBVIOUS
<1>1. CallsTyped /\ CallsTyped'
  BY DEF Typed
<1>2. ASSUME UNCHANGED <<call, page>>
      PROVE  Shared'
  BY <1>1, <1>2, SharedKept
<1>3. CASE UNCHANGED vars
  BY <1>2, <1>3 DEF vars, ioVars, mailVars
<1>4. ASSUME NEW p \in Procs, FileStep(p) \/ CallStep(p), UNCHANGED mailVars
      PROVE  Shared'
  BY <1>1, <1>4, FileCallsOnly, SharedKept DEF mailVars
<1>5. ASSUME NEW p \in Procs, MailStep(p)
      PROVE  Shared'
  <2>1. ASSUME NEW n, NEW text, Send(p, n, text) \/ Receive(p, n)
        PROVE  Shared'
    BY <1>2, <2>1 DEF Send, Receive
  <2>2. QED
    BY <1>5, <2>1, NewPageShared, EndWriteShared, ReadShared, BeginWriteShared DEF MailStep
<1>6. ASSUME NEW p \in Procs, NEW q \in Procs,
             Fork(p, q) \/ \E flag \in BOOLEAN : Spawn(p, q, flag)
      PROVE  Shared'
  BY <1>2, <1>6 DEF Fork, Spawn, Child
<1>7. CASE Next
  BY <1>4, <1>5, <1>6, <1>7, EndSteps, EndShared DEF Next
<1>8. QED
  BY <1>3, <1>7

\* In every program and for any sizes, a read of a shared page that no write
\* overlapped gives the value written last, if no writes of the page overlapped
\* each other before and no writer was killed half-way (process.rs, b_share).
THEOREM QuietReadsSeeLastWrite == Spec => QuietReadIsLastWrite
<1> DEFINE Safe == \A p \in Procs :
             LET c == call[p] IN
             (/\ c.op = "page-read" /\ call'[p] = Idle
              /\ c.quiet /\ ~page[c.k].mixed)
               => PageText(c) = page[c.k].last
<1>1. IInv /\ Typed /\ Shared => Safe
  <2> SUFFICES ASSUME IInv, Typed, Shared, NEW p \in Procs, call[p].op = "page-read",
                      call[p].quiet, ~page[call[p].k].mixed
               PROVE  PageText(call[p]) = page[call[p].k].last
    OBVIOUS
  <2>1. call[p].k \in 1..Len(page)
    BY CallParts
  <2>2. InWrite(call[p].k) = {} /\ call[p].n = page[call[p].k].len
    BY <2>1 DEF Shared, QuietReader
  <2>3. QED
    BY <2>1, <2>2 DEF Shared, QuietPage, PageText
<1>2. IInv /\ Typed /\ Shared => [Safe]_vars
  BY <1>1
<1>3. QED
  BY <1>2, InitInv, InvStep, InitTyped, TypedStep, SharedInit, SharedStep, PTL
     DEF Spec, QuietReadIsLastWrite

-----------------------------------------------------------------------------
(* Files that are appended to. *)

LEMMA PrefixOfSame ==
  ASSUME NEW S, NEW s \in Seq(S)
  PROVE  IsPrefix(s, s)
BY DEF IsPrefix

\* What is written at the end takes nothing away.
LEMMA OverwriteExtends ==
  ASSUME NEW content \in ByteSeq, NEW bytes \in ByteSeq
  PROVE  IsPrefix(content, Overwrite(content, Len(content), bytes, Zero))
<1> DEFINE from == Len(content)
           last == Max({from, from + Len(bytes)})
           At(k) == CASE k > from /\ k <= from + Len(bytes) -> bytes[k - from]
                      [] k <= from -> content[k]
                      [] OTHER -> Zero
           new == Overwrite(content, from, bytes, Zero)
<1>1. from \in Nat /\ Len(bytes) \in Nat
  BY DEF ByteSeq
<1>2. last \in Nat /\ last >= from
  <2> DEFINE a == from
             b == from + Len(bytes)
  <2>1. a \in Nat /\ b \in Nat /\ a <= b
    BY <1>1
  <2>2. a \in Int /\ b \in Int
    BY <2>1
  <2> HIDE DEF a, b
  <2>3. Max({a, b}) \in {a, b} /\ Max({a, b}) >= a
    BY <2>2, MaxOfTwo
  <2>4. QED
    BY <2>1, <2>3 DEF a, b
<1>3. new \in ByteSeq
  BY <1>1, OverwriteOk
<1>4. new = [k \in 1..last |-> At(k)]
  BY DEF Overwrite
<1>5. \A k \in 1..from : At(k) = content[k]
  BY <1>1
<1> HIDE DEF last, At, new, from
<1>6. Len(new) = last /\ \A k \in 1..from : new[k] = content[k]
  <2>1. DOMAIN new = 1..last /\ \A k \in 1..last : new[k] = At(k)
    BY <1>4
  <2>2. DOMAIN new = 1..Len(new) /\ Len(new) \in Nat
    BY <1>3 DEF ByteSeq
  <2>3. Len(new) = last
    BY <1>2, <2>1, <2>2
  <2>4. QED
    BY <1>1, <1>2, <1>5, <2>1, <2>3
<1>7. SubSeq(content, 1, from) = SubSeq(new, 1, from)
  BY <1>1, <1>2, <1>3, <1>6 DEF ByteSeq, from
<1>8. QED
  BY <1>2, <1>6, <1>7 DEF IsPrefix, new, from

\* A write in progress is carried on by its process alone.
LEMMA OnlyItsWriter ==
  ASSUME IInv, Typed, NEW p \in Procs, call[p].op = "write", call'[p] # call[p], Next
  PROVE  WriteStep(p) \/ inode' = inode
<1>1. call[p] # Idle /\ DOMAIN call = Procs
  BY DEF Idle, Typed, CallsTyped
<1>2. ASSUME NEW q \in Procs, FileStep(q) \/ CallStep(q)
      PROVE  WriteStep(p)
  <2>1. q = p
    BY <1>2, FileCallsOnly
  <2>2. ~\E op : Begin(p, op)
    BY <1>1, BeginFacts
  <2>3. ~FileStep(p)
    BY <2>2 DEF FileStep, Open, CloseHandle, Seek, BeginReadLine, BeginReadBuffer, BeginWrite,
         BeginWriteCurrent, BeginAccept, BeginWriteWhole, DeleteFile, RenameFile, Pipe,
         Listen, Connect, BeginExec
  <2>4. QED
    BY <1>2, <2>1, <2>3 DEF CallStep, ReadLineByte, ReadLineEnd, ReadBufferStep, ReadBufferEnd,
         Accept, ExecFeed, CommandStep, ExecDrain
<1>3. ASSUME NEW q \in Procs, MailStep(q)
      PROVE  inode' = inode
  BY <1>3 DEF MailStep, Send, Receive, NewPage, PageWriteEnd, PageReadEnd, BeginPageWrite,
       BeginPageRead, kernelVars
<1>4. ASSUME NEW q \in Procs, \/ Exit(q)
                               \/ \E r \in Procs : \/ Fork(q, r) \/ Abort(q, r)
                                                   \/ \E flag \in BOOLEAN : Spawn(q, r, flag)
      PROVE  inode' = inode
  BY <1>4 DEF Exit, Abort, Dies, Fork, Spawn, Child
<1>5. QED
  BY <1>2, <1>3, <1>4 DEF Next

\* No step of a write through a handle opened to append, or of append-file,
\* takes away what is in the file, whoever wrote it and however long after the
\* handle was opened (fileio.rs, b_open and b_append_file).
THEOREM AppendsExtend == Spec => AppendOnlyExtends
<1> DEFINE Safe == \A p \in Procs :
             LET c == call[p] IN
             (/\ c.op = "write" /\ call'[p] # c
              /\ desc[c.d].kind = "file" /\ desc[c.d].mode = "append")
               => IsPrefix(inode[desc[c.d].inode], inode'[desc[c.d].inode])
<1>1. IInv /\ Typed /\ [Next]_vars => [Safe]_vars
  <2> SUFFICES ASSUME IInv, Typed, Next, NEW p \in Procs, call[p].op = "write",
                      call'[p] # call[p], desc[call[p].d].kind = "file",
                      desc[call[p].d].mode = "append"
               PROVE  IsPrefix(inode[desc[call[p].d].inode], inode'[desc[call[p].d].inode])
    OBVIOUS
  <2> DEFINE d == call[p].d
             i == desc[d].inode
             rest == call[p].rest
  <2>1. call[p] \in [op : {"write"}, d : 1..Len(desc), rest : ByteSeq]
    BY CallParts
  <2>2. d \in 1..Len(desc) /\ rest \in ByteSeq
    BY <2>1
  <2>3. i \in 1..Len(inode) /\ inode[i] \in ByteSeq /\ inode \in Seq(ByteSeq)
    BY <2>2, FileKinds DEF Typed, FilesTyped
  <2>4. desc[d].app = TRUE
    BY <2>2 DEF Typed, FilesTyped, AppendsExactly
  <2>5. CASE inode' = inode
    BY <2>3, <2>5, PrefixOfSame DEF ByteSeq
  <2>6. CASE WriteStep(p) /\ inode' # inode
    <3>1. PICK n \in 0..Len(rest) : n # 0 /\ Deliver(d, SubSeq(rest, 1, n), Zero)
      BY <2>6 DEF WriteStep
    <3> DEFINE bytes == SubSeq(rest, 1, n)
               new == Overwrite(inode[i], Len(inode[i]), bytes, Zero)
    <3>2. bytes \in ByteSeq
      BY <2>2, PartOfSeq DEF ByteSeq
    <3>3. inode' = [inode EXCEPT ![i] = new]
      BY <2>4, <3>1 DEF Deliver
    <3> HIDE DEF bytes
    <3>4. IsPrefix(inode[i], new)
      BY <2>3, <3>2, OverwriteExtends
    <3> HIDE DEF new
    <3>5. inode'[i] = new
      BY <2>3, <3>3
    <3>6. QED
      BY <3>4, <3>5
  <2>7. QED
    BY <2>5, <2>6, OnlyItsWriter
<1>2. QED
  BY <1>1, InitInv, InvStep, InitTyped, TypedStep, PTL DEF Spec, AppendOnlyExtends

-----------------------------------------------------------------------------
(* Lines and bytes.                                                         *)

\* Two functions with the same start and the same steps.
LEMMA SameSteps ==
  ASSUME NEW n \in Nat, NEW f, NEW g, f[0] = g[0],
         \A k \in 1..n : f[k - 1] = g[k - 1] => f[k] = g[k]
  PROVE  f[n] = g[n]
<1> DEFINE S == {k \in 0..n : f[k] = g[k]}
<1>1. 0 \in S
  OBVIOUS
<1>2. \A k \in 1..n : k - 1 \in S => k \in S
  OBVIOUS
<1> HIDE DEF S
<1>3. n \in S
  <2>1. \A k \in 0..n : k \in S
    BY <1>1, <1>2, CountUp
  <2>2. QED
    BY <2>1
<1>4. QED
  BY <1>3 DEF S

\* Byte sequences grow by bytes and by one another.
LEMMA BytesGrow ==
  /\ \A s, t \in ByteSeq : s \o t \in ByteSeq
  /\ \A s \in ByteSeq, b \in Byte : Append(s, b) \in ByteSeq
BY ConcatProperties, AppendProperties DEF ByteSeq

\* What Joined puts together.
LEMMA JoinedAre ==
  ASSUME NEW ls \in Seq(ByteSeq)
  PROVE  \E f \in [0..Len(ls) -> ByteSeq] :
           /\ f[0] = <<>> /\ \A k \in 1..Len(ls) : f[k] = f[k - 1] \o Append(ls[k], NL)
           /\ Joined(ls) = f[Len(ls)]
<1> DEFINE n == Len(ls)
           add(k) == Append(ls[k], NL)
<1>1. n \in Nat
  OBVIOUS
<1>2. \A k \in 1..n : add(k) \in ByteSeq
  BY BytesAndTexts, BytesGrow
<1> DEFINE none == <<>>
<1>3. none \in ByteSeq
  BY BytesAndTexts
<1>j. Joined(ls) = (CHOOSE g : g = [k \in 0..n |-> IF k = 0 THEN none ELSE g[k - 1] \o add(k)])[n]
  BY DEF Joined
<1> HIDE DEF n, add, none
<1> DEFINE step == [k \in 1..n |-> [s \in ByteSeq |-> s \o add(k)]]
<1>4. step \in [1..n -> [ByteSeq -> ByteSeq]]
  BY <1>2, BytesGrow
<1>5. PICK f : Iterates(f, n, ByteSeq, none, step)
  <2> HIDE DEF step
  <2>1. QED
    BY <1>1, <1>3, <1>4, RecursionExists
<1>6. f \in [0..n -> ByteSeq] /\ f[0] = none /\ \A k \in 1..n : f[k] = step[k][f[k - 1]]
  BY <1>5 DEF Iterates
<1>7. ASSUME NEW k \in 0..n, k # 0
      PROVE  f[k] = f[k - 1] \o add(k)
  <2>1. k \in 1..n /\ k - 1 \in 0..n
    BY <1>1, <1>7
  <2>2. f[k - 1] \in ByteSeq
    BY <1>6, <2>1
  <2>3. QED
    BY <1>6, <2>1, <2>2
<1>8. f = [k \in 0..n |-> IF k = 0 THEN none ELSE f[k - 1] \o add(k)]
  BY <1>1, <1>6, <1>7
<1> DEFINE joined == CHOOSE g : g = [k \in 0..n |-> IF k = 0 THEN none ELSE g[k - 1] \o add(k)]
<1>9. joined = [k \in 0..n |-> IF k = 0 THEN none ELSE joined[k - 1] \o add(k)]
  BY <1>8
<1>10. Joined(ls) = joined[n]
  BY <1>j
<1> HIDE DEF joined
<1>11. /\ DOMAIN joined = 0..n /\ joined[0] = none
       /\ \A k \in 1..n : joined[k] = joined[k - 1] \o add(k)
  BY <1>1, <1>9
<1>12. \A k \in 0..n : joined[k] \in ByteSeq
  <2> DEFINE S == {x \in 0..n : joined[x] \in ByteSeq}
  <2>1. 0 \in S
    BY <1>1, <1>3, <1>11
  <2>2. ASSUME NEW k \in 1..n, k - 1 \in S
        PROVE  k \in S
    <3>1. k \in 0..n /\ joined[k - 1] \in ByteSeq /\ joined[k] = joined[k - 1] \o add(k)
      BY <1>1, <1>11, <2>2
    <3>2. add(k) \in ByteSeq
      BY <1>2
    <3>3. joined[k] \in ByteSeq
      BY <3>1, <3>2, BytesGrow
    <3>4. QED
      BY <3>1, <3>3
  <2> HIDE DEF S
  <2>3. \A k \in 0..n : k \in S
    BY <1>1, <2>1, <2>2, CountUp
  <2>4. QED
    BY <2>3 DEF S
<1>13. joined \in [0..n -> ByteSeq]
  BY <1>9, <1>12
<1>14. QED
  BY <1>10, <1>11, <1>13 DEF n, add, none

LEMMA JoinedOfNone == Joined(<<>>) = <<>>
<1>1. <<>> \in Seq(ByteSeq) /\ Len(<<>>) = 0
  OBVIOUS
<1>2. QED
  BY <1>1, JoinedAre

\* One line more is that line and its \n more.
LEMMA JoinedOfAppend ==
  ASSUME NEW ls \in Seq(ByteSeq), NEW text \in ByteSeq
  PROVE  Joined(ls) \in ByteSeq /\ Joined(Append(ls, text)) = Joined(ls) \o Append(text, NL)
<1> DEFINE n == Len(ls)
           all == Append(ls, text)
<1>1. /\ n \in Nat /\ all \in Seq(ByteSeq) /\ Len(all) = n + 1
      /\ all[n + 1] = text /\ \A k \in 1..n : all[k] = ls[k]
  BY AppendProperties
<1>2. PICK f \in [0..Len(ls) -> ByteSeq] :
        /\ f[0] = <<>> /\ \A k \in 1..Len(ls) : f[k] = f[k - 1] \o Append(ls[k], NL)
        /\ Joined(ls) = f[Len(ls)]
  BY JoinedAre
<1> HIDE DEF all
<1>3. PICK g \in [0..Len(all) -> ByteSeq] :
        /\ g[0] = <<>> /\ \A k \in 1..Len(all) : g[k] = g[k - 1] \o Append(all[k], NL)
        /\ Joined(all) = g[Len(all)]
  BY <1>1, JoinedAre
<1>4. f[n] = g[n]
  <2>1. \A k \in 1..n : f[k - 1] = g[k - 1] => f[k] = g[k]
    BY SMTT(30), <1>1, <1>2, <1>3
  <2>2. n \in Nat /\ f[0] = g[0]
    BY <1>1, <1>2, <1>3
  <2> HIDE DEF n
  <2>3. QED
    BY <2>1, <2>2, SameSteps
<1>5. g[n + 1] = g[n] \o Append(text, NL)
  <2>1. n + 1 \in 1..Len(all) /\ n + 1 - 1 = n
    BY <1>1
  <2>2. QED
    BY <1>1, <1>3, <2>1
<1>6. QED
  BY <1>1, <1>2, <1>3, <1>4, <1>5 DEF all

\* What Bare keeps.
LEMMA BareAre ==
  ASSUME NEW bytes \in ByteSeq
  PROVE  \E f \in [0..Len(bytes) -> ByteSeq] :
           /\ f[0] = <<>>
           /\ \A k \in 1..Len(bytes) :
                f[k] = IF bytes[k] = CR THEN f[k - 1] ELSE Append(f[k - 1], bytes[k])
           /\ Bare(bytes) = f[Len(bytes)]
<1> DEFINE n == Len(bytes)
           none == <<>>
<1>1. n \in Nat /\ \A k \in 1..n : bytes[k] \in Byte
  BY DEF ByteSeq
<1>2. none \in ByteSeq
  BY BytesAndTexts
<1>3. Bare(bytes) = (CHOOSE g : g = [k \in 0..n |-> IF k = 0 THEN none
                                     ELSE IF bytes[k] = CR THEN g[k - 1]
                                     ELSE Append(g[k - 1], bytes[k])])[n]
  BY DEF Bare
<1> HIDE DEF n, none
<1> DEFINE step == [k \in 1..n |-> [s \in ByteSeq |->
                      IF bytes[k] = CR THEN s ELSE Append(s, bytes[k])]]
<1>4. step \in [1..n -> [ByteSeq -> ByteSeq]]
  BY <1>1, BytesGrow
<1>5. PICK f : Iterates(f, n, ByteSeq, none, step)
  <2> HIDE DEF step
  <2>1. QED
    BY <1>1, <1>2, <1>4, RecursionExists
<1>6. f \in [0..n -> ByteSeq] /\ f[0] = none /\ \A k \in 1..n : f[k] = step[k][f[k - 1]]
  BY <1>5 DEF Iterates
<1>7. ASSUME NEW k \in 0..n, k # 0
      PROVE  f[k] = IF bytes[k] = CR THEN f[k - 1] ELSE Append(f[k - 1], bytes[k])
  <2>1. k \in 1..n /\ k - 1 \in 0..n
    BY <1>1, <1>7
  <2>2. f[k - 1] \in ByteSeq
    BY <1>6, <2>1
  <2>3. QED
    BY <1>6, <2>1, <2>2
<1>8. f = [k \in 0..n |-> IF k = 0 THEN none
                          ELSE IF bytes[k] = CR THEN f[k - 1] ELSE Append(f[k - 1], bytes[k])]
  BY <1>1, <1>6, <1>7
<1> DEFINE bare == CHOOSE g : g = [k \in 0..n |-> IF k = 0 THEN none
                                   ELSE IF bytes[k] = CR THEN g[k - 1]
                                   ELSE Append(g[k - 1], bytes[k])]
<1>9. bare = [k \in 0..n |-> IF k = 0 THEN none
                             ELSE IF bytes[k] = CR THEN bare[k - 1]
                             ELSE Append(bare[k - 1], bytes[k])]
  BY <1>8
<1>10. Bare(bytes) = bare[n]
  BY <1>3
<1> HIDE DEF bare
<1>11. /\ DOMAIN bare = 0..n /\ bare[0] = none
       /\ \A k \in 1..n : bare[k] = IF bytes[k] = CR THEN bare[k - 1]
                                    ELSE Append(bare[k - 1], bytes[k])
  <2> DEFINE next(k) == IF k = 0 THEN none
                        ELSE IF bytes[k] = CR THEN bare[k - 1]
                        ELSE Append(bare[k - 1], bytes[k])
  <2>1. DOMAIN bare = 0..n /\ \A k \in 0..n : bare[k] = next(k)
    BY <1>9
  <2>2. 0 \in 0..n /\ \A k \in 1..n : k \in 0..n /\ k # 0
    BY <1>1
  <2>3. QED
    BY <2>1, <2>2
<1>12. \A k \in 0..n : bare[k] \in ByteSeq
  <2> DEFINE S == {x \in 0..n : bare[x] \in ByteSeq}
  <2>1. 0 \in S
    BY <1>1, <1>2, <1>11
  <2>2. \A k \in 1..n : k - 1 \in S => k \in S
    BY <1>1, <1>11, BytesGrow
  <2> HIDE DEF S
  <2>3. \A k \in 0..n : k \in S
    BY <1>1, <2>1, <2>2, CountUp
  <2>4. QED
    BY <2>3 DEF S
<1>13. bare \in [0..n -> ByteSeq]
  BY <1>9, <1>12
<1>14. QED
  BY <1>10, <1>11, <1>13 DEF n, none

LEMMA BareOfNone == Bare(<<>>) = <<>>
<1>1. <<>> \in ByteSeq /\ Len(<<>>) = 0
  BY BytesAndTexts
<1>2. QED
  BY <1>1, BareAre

\* A byte more is kept unless it is a \r.
LEMMA BareOfAppend ==
  ASSUME NEW bytes \in ByteSeq, NEW b \in Byte
  PROVE  /\ Bare(bytes) \in ByteSeq
         /\ Bare(Append(bytes, b)) = IF b = CR THEN Bare(bytes) ELSE Append(Bare(bytes), b)
<1> DEFINE n == Len(bytes)
           all == Append(bytes, b)
<1>1. /\ n \in Nat /\ all \in ByteSeq /\ Len(all) = n + 1
      /\ all[n + 1] = b /\ \A k \in 1..n : all[k] = bytes[k]
  BY AppendProperties DEF ByteSeq
<1>2. PICK f \in [0..Len(bytes) -> ByteSeq] :
        /\ f[0] = <<>>
        /\ \A k \in 1..Len(bytes) :
             f[k] = IF bytes[k] = CR THEN f[k - 1] ELSE Append(f[k - 1], bytes[k])
        /\ Bare(bytes) = f[Len(bytes)]
  BY BareAre
<1> HIDE DEF all
<1>3. PICK g \in [0..Len(all) -> ByteSeq] :
        /\ g[0] = <<>>
        /\ \A k \in 1..Len(all) :
             g[k] = IF all[k] = CR THEN g[k - 1] ELSE Append(g[k - 1], all[k])
        /\ Bare(all) = g[Len(all)]
  BY <1>1, BareAre
<1>4. f[n] = g[n]
  <2>1. \A k \in 1..n : f[k - 1] = g[k - 1] => f[k] = g[k]
    BY SMTT(30), <1>1, <1>2, <1>3
  <2>2. n \in Nat /\ f[0] = g[0]
    BY <1>1, <1>2, <1>3
  <2> HIDE DEF n
  <2>3. QED
    BY <2>1, <2>2, SameSteps
<1>5. g[n + 1] = IF b = CR THEN g[n] ELSE Append(g[n], b)
  <2>1. n + 1 \in 1..Len(all) /\ n + 1 - 1 = n
    BY <1>1
  <2>2. QED
    BY <1>1, <1>3, <2>1
<1>6. QED
  BY <1>1, <1>2, <1>3, <1>4, <1>5 DEF all

-----------------------------------------------------------------------------
(* The lines of a stream.  What the invariant says of listeners and of who  *)
(* holds what: a call on a socket is made by a process that holds it open,  *)
(* and only server ends of connections wait at listeners.                   *)

Listens(d) == d \in 1..Len(desc) /\ desc[d].kind = "listener"

ListenersKnown ==
  /\ \A f \in Paths : name[f].kind = "socket" => Listens(name[f].is)
  /\ DOMAIN port = Ports /\ \A f \in Ports : port[f] # 0 => Listens(port[f])
  /\ \A l \in 1..Len(desc) : \A i \in 1..Len(backlog[l]) :
       desc[l].kind = "listener" /\ desc[backlog[l][i]].kind = "stream"

NeedsFile(c) == c.op = "accept" \/ (c.op = "write" /\ desc[c.d].kind = "stream")

HoldersKnown == \A p \in Procs : NeedsFile(call[p]) => HeldBy(p, call[p].d)

\* What a step does to the open files: it may add some, on streams of their own.
DescsGrow ==
  /\ Len(desc) <= Len(desc') /\ Len(stream) <= Len(stream')
  /\ \A d \in 1..Len(desc) : desc'[d] = desc[d]
  /\ \A d \in 1..Len(desc') : d > Len(desc) /\ desc'[d].kind = "stream" =>
       desc'[d].tx \notin 1..Len(stream)

\* No file that nobody held comes to be held,
HeldShrinks == \A d \in 1..Len(desc) : Held(d)' => Held(d)

\* neither by a handle
NobodyNew == \A d \in 1..Len(desc), q \in Procs : HeldBy(q, d)' => \E r \in Procs : HeldBy(r, d)

\* nor by a connection that waits.
Waited(l, x) == l \in 1..Len(desc) /\ \E j \in 1..Len(backlog[l]) : backlog[l][j] = x

WaitingOld == \A l \in 1..Len(desc') : \A i \in 1..Len(backlog'[l]) :
  backlog'[l][i] \in 1..Len(desc) => Waited(l, backlog'[l][i])

WaitingSame == \A l \in 1..Len(desc') : \A i \in 1..Len(backlog'[l]) : Waited(l, backlog'[l][i])

LEMMA HeldFollows ==
  ASSUME IInv, FilesOk', NobodyNew, WaitingOld
  PROVE  HeldShrinks
<1> SUFFICES ASSUME NEW d \in 1..Len(desc), Held(d)' PROVE Held(d)
  BY DEF HeldShrinks
<1>1. CASE \E q \in Procs : HeldBy(q, d)'
  BY <1>1 DEF NobodyNew, Held
<1>2. CASE \E l \in 1..Len(desc') : d \in ToSet(backlog'[l]) /\ \E q \in Procs : HeldBy(q, l)'
  <2>1. PICK l \in 1..Len(desc') : d \in ToSet(backlog'[l]) /\ \E q \in Procs : HeldBy(q, l)'
    BY <1>2
  <2>2. backlog'[l] \in Seq(1..Len(desc'))
    BY DEF FilesOk
  <2>3. PICK i \in 1..Len(backlog'[l]) : backlog'[l][i] = d
    BY <2>1, <2>2 DEF ToSet
  <2>4. l \in 1..Len(desc) /\ \E j \in 1..Len(backlog[l]) : backlog[l][j] = d
    BY <2>3 DEF WaitingOld, Waited
  <2>5. backlog[l] \in Seq(1..Len(desc))
    BY <2>4 DEF IInv, FilesOk
  <2>6. d \in ToSet(backlog[l])
    BY <2>4, <2>5 DEF ToSet
  <2>7. \E r \in Procs : HeldBy(r, l)
    BY <2>1, <2>4 DEF NobodyNew
  <2>8. QED
    BY <2>4, <2>6, <2>7 DEF Held
<1>3. QED
  BY <1>1, <1>2 DEF Held

\* So a stream that nobody can write to any more stays so.
LEMMA WritersShrink ==
  ASSUME DescsGrow, HeldShrinks, Len(desc) \in Nat, Len(desc') \in Nat,
         NEW s \in 1..Len(stream), Writers(s)'
  PROVE  Writers(s)
<1>1. PICK d \in 1..Len(desc') : desc'[d].kind = "stream" /\ desc'[d].tx = s /\ Held(d)'
  BY DEF Writers
<1>2. d \in 1..Len(desc)
  BY <1>1 DEF DescsGrow
<1>3. QED
  BY <1>1, <1>2 DEF DescsGrow, HeldShrinks, Writers

\* The files a table holds.
Holds(t, d) == \E h \in Handles(t) : FileAt(t, h) = d

LEMMA HoldsInsert ==
  ASSUME NEW files \in SUBSET File, NEW t, IsTable(t, files), TableOk(t),
         NEW f \in files, NEW d, Holds(Insert(t, f), d)
  PROVE  d = f \/ Holds(t, d)
<1>1. PICK h \in Handles(Insert(t, f)) : FileAt(Insert(t, f), h) = d
  BY DEF Holds
<1>2. h \in Handles(t) \cup {NextHandle(t)}
      /\ FileAt(Insert(t, f), h) = IF h = NextHandle(t) THEN f ELSE FileAt(t, h)
  BY <1>1, InsertOk
<1>3. QED
  BY <1>1, <1>2 DEF Holds

LEMMA HoldsClose ==
  ASSUME NEW files, NEW t, IsTable(t, files), NEW h, NEW d, d # NoFile, Holds(Close(t, h), d)
  PROVE  Holds(t, d)
<1> DEFINE u == Close(t, h)
<1>1. CASE FileAt(t, h) = NoFile
  BY <1>1 DEF Close
<1>2. CASE FileAt(t, h) # NoFile
  <2>1. u.size = t.size /\ u.slots = [t.slots EXCEPT ![h] = NoFile]
    BY <1>2 DEF Close
  <2>2. Holds(u, d)
    OBVIOUS
  <2> HIDE DEF u
  <2>3. PICK g \in Handles(u) : FileAt(u, g) = d
    BY <2>2 DEF Holds
  <2>4. g \in Handles(t) /\ g >= 3 /\ u.slots[g] = d
    BY <2>1, <2>3 DEF Handles, FileAt
  <2>5. t.slots[g] = d
    BY <2>1, <2>4 DEF IsTable
  <2>6. FileAt(t, g) = d
    BY <2>4, <2>5 DEF FileAt
  <2>7. QED
    BY <2>4, <2>6 DEF Holds
<1>3. QED
  BY <1>1, <1>2

\* Files are added at the end.
LEMMA JoinedParts ==
  ASSUME NEW s, NEW t, IsSeq(s), IsSeq(t)
  PROVE  /\ IsSeq(s \o t) /\ Len(s \o t) = Len(s) + Len(t) /\ Len(s) \in Nat /\ Len(t) \in Nat
         /\ \A i \in 1..Len(s) : (s \o t)[i] = s[i]
         /\ \A i \in 1..Len(s) + Len(t) : i > Len(s) => (s \o t)[i] = t[i - Len(s)]
<1>1. PICK S : s \in Seq(S)
  BY DEF IsSeq
<1>2. PICK T : t \in Seq(T)
  BY DEF IsSeq
<1>3. s \in Seq(S \cup T) /\ t \in Seq(S \cup T)
  BY <1>1, <1>2, SeqMonotonic
<1>4. /\ s \o t \in Seq(S \cup T) /\ Len(s \o t) = Len(s) + Len(t)
      /\ \A i \in 1..Len(s) + Len(t) :
           (s \o t)[i] = IF i <= Len(s) THEN s[i] ELSE t[i - Len(s)]
  BY <1>3, ConcatProperties
<1>5. Len(s) \in Nat /\ Len(t) \in Nat
  BY LenIsNat
<1> DEFINE u == s \o t
<1> HIDE DEF u
<1>6. \A i \in 1..Len(s) : i \in 1..Len(s) + Len(t) /\ i <= Len(s)
  BY <1>5
<1>7. \A i \in 1..Len(s) + Len(t) : i > Len(s) => ~ (i <= Len(s))
  BY <1>5
<1>8. QED
  BY <1>4, <1>5, <1>6, <1>7 DEF IsSeq

LEMMA OpenedWaits ==
  ASSUME IInv, NEW fs, IsSeq(fs), Opened(fs)
  PROVE  /\ Len(desc') = Len(desc) + Len(fs) /\ Len(desc) \in Nat /\ Len(fs) \in Nat
         /\ \A d \in 1..Len(desc) : desc'[d] = desc[d]
         /\ \A d \in 1..Len(desc') : d > Len(desc) => desc'[d] = fs[d - Len(desc)]
         /\ WaitingSame
<1> DEFINE n == Len(desc)
           more == [k \in 1..Len(fs) |-> <<>>]
<1>1. /\ Len(desc') = n + Len(fs) /\ n \in Nat /\ Len(fs) \in Nat
      /\ \A d \in 1..n : desc'[d] = desc[d]
      /\ \A d \in 1..n + Len(fs) : d > n => desc'[d] = fs[d - n]
  BY JoinedParts DEF Opened, IInv, FilesOk
<1>2. more \in Seq({<<>>}) /\ Len(more) = Len(fs) /\ \A k \in 1..Len(fs) : more[k] = <<>>
  BY <1>1
<1>3. IsSeq(backlog) /\ Len(backlog) = n /\ backlog' = backlog \o more
  BY DEF IInv, FilesOk, IsSeq, Opened
<1> HIDE DEF more
<1>4. /\ \A l \in 1..n : backlog'[l] = backlog[l]
      /\ \A l \in 1..n + Len(fs) : l > n => backlog'[l] = more[l - n]
  BY <1>2, <1>3, JoinedParts DEF IsSeq
<1>5. WaitingSame
  <2> SUFFICES ASSUME NEW l \in 1..n + Len(fs), NEW i \in 1..Len(backlog'[l])
               PROVE  Waited(l, backlog'[l][i])
    BY <1>1 DEF WaitingSame
  <2>1. CASE l > n
    <3>1. l - n \in 1..Len(fs) /\ backlog'[l] = more[l - n]
      BY <1>1, <1>4, <2>1
    <3>2. backlog'[l] = <<>>
      BY <1>2, <3>1
    <3>3. QED
      BY <3>2
  <2>2. CASE ~ (l > n)
    <3>1. l \in 1..n /\ backlog'[l] = backlog[l]
      BY <1>1, <1>4, <2>2
    <3>2. QED
      BY <3>1 DEF Waited
  <2>3. QED
    BY <2>1, <2>2
<1>6. QED
  BY <1>1, <1>5

\* A table that takes on new files only, or gives some up, in one process.
LEMMA OneTable ==
  ASSUME IInv, NEW p \in Procs, NEW t, table' = [table EXCEPT ![p] = t], st' = st,
         \A d \in 1..Len(desc) : Holds(t, d) => Holds(table[p], d)
  PROVE  NobodyNew
<1> SUFFICES ASSUME NEW d \in 1..Len(desc), NEW q \in Procs, HeldBy(q, d)'
             PROVE  HeldBy(q, d)
  BY DEF NobodyNew
<1>1. st[q] = "running" /\ Holds(table'[q], d)
  BY DEF HeldBy, Running, Holds
<1>2. table'[q] = IF q = p THEN t ELSE table[q]
  BY DEF IInv, HandlesOk
<1>3. Holds(table[q], d)
  BY <1>1, <1>2
<1>4. QED
  BY <1>1, <1>3 DEF HeldBy, Running, Holds

LEMMA SameTables ==
  ASSUME table' = table, \A q \in Procs : st'[q] = "running" => st[q] = "running"
  PROVE  NobodyNew
<1> SUFFICES ASSUME NEW d, NEW q \in Procs, HeldBy(q, d)'
             PROVE  HeldBy(q, d)
  BY DEF NobodyNew
<1>1. QED
  BY DEF HeldBy, Running

\* Nothing waits that did not.
LEMMA SameWaiting ==
  ASSUME IInv, UNCHANGED <<desc, backlog>>
  PROVE  WaitingSame
BY DEF WaitingSame, Waited

LEMMA SameIsOld ==
  ASSUME WaitingSame
  PROVE  WaitingOld
BY DEF WaitingSame, WaitingOld

\* New files in the table are no old ones.
LEMMA InsertsNew ==
  ASSUME IInv, NEW p \in Procs, Len(desc) \in Nat, NEW f \in File, f > Len(desc),
         NEW d \in 1..Len(desc)
  PROVE  /\ Holds(Insert(table[p], f), d) => Holds(table[p], d)
         /\ \A g \in File : g > Len(desc) /\ Holds(Insert(Insert(table[p], f), g), d)
              => Holds(table[p], d)
<1> DEFINE all == File
           t == Insert(table[p], f)
<1>1. 1..Len(desc) \subseteq all
  BY DEF File
<1>2. IsTable(table[p], all) /\ TableOk(table[p])
  <2>1. IsTable(table[p], 1..Len(desc)) /\ TableOk(table[p])
    BY DEF IInv, HandlesOk
  <2>2. QED
    BY <1>1, <2>1 DEF IsTable
<1> HIDE DEF all
<1>3. all \in SUBSET File /\ f \in all
  BY DEF all
<1>4. IsTable(t, all) /\ TableOk(t)
  BY <1>2, <1>3, InsertOk
<1>5. Holds(t, d) => Holds(table[p], d)
  <2>1. d # f
    OBVIOUS
  <2>2. QED
    BY <1>2, <1>3, <2>1, HoldsInsert
<1>6. ASSUME NEW g \in File, g > Len(desc), Holds(Insert(t, g), d)
      PROVE  Holds(table[p], d)
  <2>1. d # g /\ g \in all
    BY <1>6 DEF all
  <2> HIDE DEF t
  <2>2. Holds(t, d)
    BY <1>3, <1>4, <1>6, <2>1, HoldsInsert
  <2>3. QED
    BY <1>5, <2>2
<1>7. QED
  BY <1>5, <1>6

\* What a step must show for what is known of listeners to last,
NamesSame == \A f \in Paths : name'[f].kind = "socket" =>
  \E g \in Paths : name[g].kind = "socket" /\ name'[f].is = name[g].is

LEMMA ListenersStay ==
  ASSUME IInv, ListenersKnown, DescsGrow, Len(desc') \in Nat, WaitingSame, NamesSame, port' = port
  PROVE  ListenersKnown'
<1>1. Len(desc) \in Nat /\ Len(desc) <= Len(desc') /\ \A d \in 1..Len(desc) : desc'[d] = desc[d]
  BY LenIsNat DEF IInv, FilesOk, DescsGrow
<1>2. \A d : Listens(d) => d \in 1..Len(desc') /\ desc'[d].kind = "listener"
  BY <1>1 DEF Listens
<1>3. \A f \in Paths : name'[f].kind = "socket" =>
        name'[f].is \in 1..Len(desc') /\ desc'[name'[f].is].kind = "listener"
  BY <1>2 DEF ListenersKnown, NamesSame
<1>4. /\ DOMAIN port' = Ports
      /\ \A f \in Ports : port'[f] # 0 =>
           port'[f] \in 1..Len(desc') /\ desc'[port'[f]].kind = "listener"
  BY <1>2 DEF ListenersKnown
<1>5. ASSUME NEW l \in 1..Len(desc'), NEW i \in 1..Len(backlog'[l])
      PROVE  desc'[l].kind = "listener" /\ desc'[backlog'[l][i]].kind = "stream"
  <2>1. PICK j \in 1..Len(backlog[l]) : backlog[l][j] = backlog'[l][i]
    BY <1>5 DEF WaitingSame, Waited
  <2>2. l \in 1..Len(desc)
    BY <1>5 DEF WaitingSame, Waited
  <2>3. backlog[l] \in Seq(1..Len(desc))
    BY <2>2 DEF IInv, FilesOk
  <2>4. backlog[l][j] \in 1..Len(desc)
    BY <2>1, <2>3, ElementOfSeq
  <2>5. desc[l].kind = "listener" /\ desc[backlog[l][j]].kind = "stream"
    BY <2>1, <2>2 DEF ListenersKnown
  <2>6. QED
    BY <1>1, <2>1, <2>2, <2>4, <2>5
<1>6. QED
  BY <1>3, <1>4, <1>5 DEF ListenersKnown, Listens

\* and for what is known of who holds what.
GoesOn(p) ==
  /\ call'[p].op = call[p].op /\ call'[p].d = call[p].d
  /\ table'[p] = table[p] /\ st'[p] = st[p]

LEMMA HoldersStay ==
  ASSUME IInv, Typed, HoldersKnown, DescsGrow,
         \A p \in Procs : NeedsFile(call[p])' => GoesOn(p) \/ HeldBy(p, call[p].d)'
  PROVE  HoldersKnown'
<1> SUFFICES ASSUME NEW p \in Procs, NeedsFile(call[p])', GoesOn(p)
             PROVE  HeldBy(p, call[p].d)'
  BY DEF HoldersKnown
<1>1. call[p].op \in {"accept", "write"} /\ call'[p].op = call[p].op /\ call'[p].d = call[p].d
  BY DEF NeedsFile, GoesOn
<1>2. call[p].d \in 1..Len(desc)
  BY <1>1, CallParts
<1>3. NeedsFile(call[p])
  BY <1>1, <1>2 DEF NeedsFile, DescsGrow
<1>4. HeldBy(p, call[p].d)
  BY <1>3 DEF HoldersKnown
<1>5. QED
  BY <1>1, <1>4 DEF HeldBy, Running, GoesOn

Wire == DescsGrow /\ HeldShrinks /\ ListenersKnown' /\ HoldersKnown'

\* A step that leaves files, handles and names alone.
LEMMA WireSame ==
  ASSUME IInv, Typed, ListenersKnown, HoldersKnown,
         UNCHANGED <<st, table, desc, backlog, name, port>>, Len(stream') = Len(stream),
         \A p \in Procs : \/ call'[p] = call[p]
                          \/ call'[p].op \notin {"accept", "write"}
                          \/ call'[p].op = call[p].op /\ call'[p].d = call[p].d
                          \/ HeldBy(p, call'[p].d)
  PROVE  Wire
<1>1. Len(desc) \in Nat /\ Len(stream) \in Nat
  BY LensAreNat
<1>2. DescsGrow
  BY <1>1 DEF DescsGrow
<1>3. WaitingSame /\ NobodyNew /\ FilesOk' /\ NamesSame
  <2>1. FilesOk'
    BY DEF IInv, FilesOk
  <2>2. NamesSame
    BY DEF NamesSame
  <2>3. QED
    BY <2>1, <2>2, SameTables, SameWaiting
<1>4. HeldShrinks
  BY <1>3, HeldFollows, SameIsOld
<1>5. ListenersKnown'
  BY <1>1, <1>2, <1>3, ListenersStay
<1>6. ASSUME NEW p \in Procs, NeedsFile(call[p])'
      PROVE  GoesOn(p) \/ HeldBy(p, call[p].d)'
  <2>1. call'[p].op \in {"accept", "write"}
    BY <1>6 DEF NeedsFile
  <2>2. GoesOn(p) \/ HeldBy(p, call'[p].d)
    BY <2>1 DEF GoesOn
  <2>3. QED
    BY <2>2 DEF HeldBy, Running
<1>7. HoldersKnown'
  BY <1>2, <1>6, HoldersStay
<1>8. QED
  BY <1>2, <1>4, <1>5, <1>7 DEF Wire

\* One process makes a step in a call, or begins or ends one.
LEMMA WireCall ==
  ASSUME IInv, Typed, ListenersKnown, HoldersKnown, NEW p \in Procs, NEW c,
         UNCHANGED <<st, table, desc, backlog, name, port>>, Len(stream') = Len(stream),
         Becomes(p, c),
         \/ c.op \notin {"accept", "write"}
         \/ c.op = call[p].op /\ c.d = call[p].d
         \/ HeldBy(p, c.d)
  PROVE  Wire
<1>1. \A q \in Procs : call'[q] = IF q = p THEN c ELSE call[q]
  BY DEF Becomes, Typed, CallsTyped
<1>2. QED
  BY <1>1, WireSame

\* The file of a handle is held.
LEMMA HandleHolds ==
  ASSUME NEW p, NEW h, NEW op, Begin(p, op), FileAt(table[p], h) # NoFile
  PROVE  HeldBy(p, FileAt(table[p], h))
BY DEF Begin, HeldBy, FileAt

\* The steps that open or close files, name them or listen: calls that others
\* are in the middle of go on.
LEMMA WireOpens ==
  ASSUME IInv, Typed, Typed', FilesOk', ListenersKnown, HoldersKnown, DescsGrow, WaitingSame,
         NobodyNew, NamesSame, port' = port, NEW p \in Procs,
         \A q \in Procs : q # p =>
           table'[q] = table[q] /\ call'[q] = call[q] /\ st'[q] = st[q],
         ~NeedsFile(call[p])'
  PROVE  Wire
<1>1. HeldShrinks
  BY HeldFollows, SameIsOld
<1>2. Len(desc') \in Nat
  BY LenIsNat DEF FilesOk
<1>3. ListenersKnown'
  BY <1>2, ListenersStay
<1>4. ASSUME NEW q \in Procs, NeedsFile(call[q])'
      PROVE  GoesOn(q)
  BY <1>4 DEF GoesOn
<1>5. HoldersKnown'
  BY <1>4, HoldersStay
<1>6. QED
  BY <1>1, <1>3, <1>5 DEF Wire

LEMMA IdleNeedsNothing == \A c : c = Idle => c.op = "idle" /\ c.op \notin {"accept", "write"}
BY DEF Idle

\* Opening by a path makes no socket of it.
LEMMA PathNames ==
  ASSUME Typed, NEW path, NEW mode, OpenPath(path, mode)
  PROVE  NamesSame
<1> SUFFICES ASSUME NEW f \in Paths, name'[f].kind = "socket"
             PROVE  name'[f] = name[f]
  BY DEF NamesSame
<1>1. PICK i : name' = [name EXCEPT ![path] = [kind |-> "file", is |-> i]]
  BY DEF OpenPath
<1>2. DOMAIN name = Paths
  BY DEF Typed, FilesTyped
<1>3. f # path
  BY <1>1, <1>2
<1>4. QED
  BY <1>1, <1>2, <1>3

\* A file that is opened is no stream.
LEMMA FileOpened ==
  ASSUME IInv, Typed, NEW path, NEW mode, OpenPath(path, mode),
         Opened(<<Mode(mode, name'[path].is)>>), UNCHANGED stream
  PROVE  /\ DescsGrow /\ WaitingSame /\ NamesSame /\ FilesOk'
         /\ Len(desc') = Len(desc) + 1 /\ Len(desc) \in Nat
         /\ desc'[Len(desc) + 1].kind = "file"
<1> DEFINE o == Mode(mode, name'[path].is)
           fs == <<o>>
<1>1. IsSeq(fs) /\ Len(fs) = 1 /\ fs[1] = o
  BY ShortSeqs
<1>2. o.kind = "file"
  BY DEF Mode, OpenFile
<1> HIDE DEF fs, o
<1>3. Opened(fs)
  BY DEF fs, o
<1>4. /\ Len(desc') = Len(desc) + 1 /\ Len(desc) \in Nat
      /\ \A d \in 1..Len(desc) : desc'[d] = desc[d]
      /\ \A d \in 1..Len(desc') : d > Len(desc) => desc'[d] = fs[d - Len(desc)]
      /\ WaitingSame /\ FilesOk'
  BY <1>1, <1>3, OpenedWaits, OpenedOk
<1>5. \A d \in 1..Len(desc') : d > Len(desc) => desc'[d] = o
  BY <1>1, <1>4
<1>6. DescsGrow
  BY <1>2, <1>4, <1>5, LensAreNat DEF DescsGrow
<1>7. QED
  BY <1>2, <1>4, <1>5, <1>6, PathNames

LEMMA OpenWire ==
  ASSUME IInv, Typed, Typed', ListenersKnown, HoldersKnown, NEW p \in Procs,
         NEW path, NEW mode, Open(p, path, mode)
  PROVE  Wire
<1> DEFINE d == Len(desc) + 1
<1>1. /\ OpenPath(path, mode) /\ Opened(<<Mode(mode, name'[path].is)>>)
      /\ table' = [table EXCEPT ![p] = Insert(@, d)]
      /\ UNCHANGED <<st, port, stream, call>> /\ call[p] = Idle
  BY BeginFacts DEF Open, OpensAs
<1>2. /\ DescsGrow /\ WaitingSame /\ NamesSame /\ FilesOk' /\ Len(desc) \in Nat
      /\ Len(desc') = d
  BY <1>1, FileOpened
<1>3. d \in File /\ d > Len(desc)
  BY <1>2 DEF File
<1>4. NobodyNew
  <2> DEFINE t == Insert(table[p], d)
  <2> HIDE DEF d
  <2>1. \A x \in 1..Len(desc) : Holds(t, x) => Holds(table[p], x)
    BY <1>2, <1>3, InsertsNew
  <2>2. table' = [table EXCEPT ![p] = t]
    BY <1>1
  <2> HIDE DEF t
  <2>3. QED
    BY <1>1, <2>1, <2>2, OneTable
<1>5. \A q \in Procs : q # p => table'[q] = table[q] /\ call'[q] = call[q]
  BY <1>1 DEF IInv, HandlesOk
<1>6. ~NeedsFile(call[p])'
  BY <1>1, IdleNeedsNothing DEF NeedsFile
<1>7. QED
  BY <1>1, <1>2, <1>4, <1>5, <1>6, WireOpens

LEMMA CloseWire ==
  ASSUME IInv, Typed, Typed', ListenersKnown, HoldersKnown, NEW p \in Procs,
         NEW h, CloseHandle(p, h)
  PROVE  Wire
<1>1. /\ table' = [table EXCEPT ![p] = Close(@, h)] /\ call[p] = Idle
      /\ UNCHANGED <<st, desc, backlog, name, port, stream, call>>
  BY BeginFacts DEF CloseHandle
<1>2. Len(desc) \in Nat /\ Len(stream) \in Nat
  BY LensAreNat
<1>3. DescsGrow /\ WaitingSame /\ NamesSame /\ FilesOk'
  BY <1>1, <1>2, SameWaiting DEF DescsGrow, NamesSame, IInv, FilesOk
<1>4. NobodyNew
  <2> DEFINE t == Close(table[p], h)
  <2>1. ASSUME NEW x \in 1..Len(desc), Holds(t, x)
        PROVE  Holds(table[p], x)
    <3>1. x # NoFile
      BY <1>2 DEF NoFile
    <3>2. IsTable(table[p], 1..Len(desc))
      BY DEF IInv, HandlesOk
    <3>3. QED
      BY <2>1, <3>1, <3>2, HoldsClose
  <2>2. table' = [table EXCEPT ![p] = t]
    BY <1>1
  <2> HIDE DEF t
  <2>3. QED
    BY <1>1, <2>1, <2>2, OneTable
<1>5. \A q \in Procs : q # p => table'[q] = table[q] /\ call'[q] = call[q]
  BY <1>1 DEF IInv, HandlesOk
<1>6. ~NeedsFile(call[p])'
  BY <1>1, IdleNeedsNothing DEF NeedsFile
<1>7. QED
  BY <1>1, <1>3, <1>4, <1>5, <1>6, WireOpens

LEMMA WriteWholeWire ==
  ASSUME IInv, Typed, Typed', ListenersKnown, HoldersKnown, NEW p \in Procs,
         NEW path, NEW mode, NEW text, BeginWriteWhole(p, path, mode, text)
  PROVE  Wire
<1> DEFINE c == [op |-> "write", d |-> Len(desc) + 1, rest |-> text]
<1>1. /\ OpenPath(path, mode) /\ Opened(<<Mode(mode, name'[path].is)>>)
      /\ UNCHANGED <<st, table, port, stream>> /\ Becomes(p, c)
  BY DEF BeginWriteWhole
<1>2. /\ DescsGrow /\ WaitingSame /\ NamesSame /\ FilesOk' /\ Len(desc) \in Nat
      /\ desc'[Len(desc) + 1].kind = "file"
  BY <1>1, FileOpened
<1>3. \A q \in Procs : call'[q] = IF q = p THEN c ELSE call[q]
  BY <1>1 DEF Becomes, Typed, CallsTyped
<1>4. ~NeedsFile(call[p])'
  BY <1>2, <1>3 DEF NeedsFile
<1>5. NobodyNew
  BY <1>1, SameTables
<1>6. QED
  BY <1>1, <1>2, <1>3, <1>4, <1>5, WireOpens

LEMMA NamesWire ==
  ASSUME IInv, Typed, Typed', ListenersKnown, HoldersKnown, NEW p \in Procs,
         NEW a, NEW b, DeleteFile(p, a) \/ RenameFile(p, a, b), {a, b} \subseteq Paths
  PROVE  Wire
<1>1. /\ UNCHANGED <<st, table, desc, backlog, port, stream, call>> /\ call[p] = Idle
      /\ \/ name' = [name EXCEPT ![a] = Nothing]
         \/ name' = [name EXCEPT ![b] = name[a], ![a] = Nothing]
  BY BeginFacts DEF DeleteFile, RenameFile
<1>2. Len(desc) \in Nat /\ Len(stream) \in Nat /\ DOMAIN name = Paths
  BY LensAreNat DEF Typed, FilesTyped
<1>3. NamesSame
  <2> SUFFICES ASSUME NEW f \in Paths, name'[f].kind = "socket"
               PROVE  \E g \in Paths : name'[f] = name[g]
    BY DEF NamesSame
  <2>1. Nothing.kind # "socket"
    BY DEF Nothing
  <2>2. f # a
    BY <1>1, <1>2, <2>1
  <2>3. name'[f] = name[f] \/ name'[f] = name[a]
    BY <1>1, <1>2, <2>2
  <2>4. QED
    BY <2>3
<1>4. DescsGrow /\ WaitingSame /\ FilesOk' /\ NobodyNew
  BY <1>1, <1>2, SameWaiting, SameTables DEF DescsGrow, IInv, FilesOk
<1>5. ~NeedsFile(call[p])'
  BY <1>1, IdleNeedsNothing DEF NeedsFile
<1>6. QED
  BY <1>1, <1>3, <1>4, <1>5, WireOpens

\* The two ends of a pipe are on a stream of their own.
LEMMA PipeWire ==
  ASSUME IInv, Typed, Typed', ListenersKnown, HoldersKnown, NEW p \in Procs, Pipe(p)
  PROVE  Wire
<1> DEFINE s == Len(stream) + 1
           d == Len(desc) + 1
           fs == <<End(s, 0), End(0, s)>>
<1>1. /\ Opened(fs) /\ NewStreams(1) /\ call[p] = Idle
      /\ table' = [table EXCEPT ![p] = Insert(Insert(@, d), d + 1)]
      /\ UNCHANGED <<st, name, port, call>>
  BY BeginFacts DEF Pipe
<1>2. Len(stream') = Len(stream) + 1 /\ Len(stream) \in Nat /\ s \notin 1..Len(stream)
  BY <1>1, NewStreamsOk, LensAreNat
<1>3. IsSeq(fs) /\ Len(fs) = 2 /\ \A k \in 1..2 : fs[k].tx \notin 1..Len(stream)
  BY <1>2, ShortSeqs DEF End
<1> HIDE DEF fs
<1>4. /\ Len(desc') = Len(desc) + 2 /\ Len(desc) \in Nat
      /\ \A x \in 1..Len(desc) : desc'[x] = desc[x]
      /\ \A x \in 1..Len(desc') : x > Len(desc) => desc'[x] = fs[x - Len(desc)]
      /\ WaitingSame /\ FilesOk'
  BY <1>1, <1>3, OpenedWaits, OpenedOk
<1>5. DescsGrow
  <2>1. \A x \in 1..Len(desc') : x > Len(desc) => x - Len(desc) \in 1..2
    BY <1>4
  <2>2. \A x \in 1..Len(desc') : x > Len(desc) => desc'[x].tx \notin 1..Len(stream)
    BY <1>3, <1>4, <2>1
  <2>3. QED
    BY <1>2, <1>4, <2>2 DEF DescsGrow
<1>6. d \in File /\ d > Len(desc) /\ d + 1 \in File /\ d + 1 > Len(desc)
  BY <1>4 DEF File
<1>7. NobodyNew
  <2> DEFINE e == d + 1
             t == Insert(Insert(table[p], d), e)
  <2>1. e \in File /\ e > Len(desc) /\ table' = [table EXCEPT ![p] = t]
    BY <1>1, <1>6
  <2> HIDE DEF d, e
  <2>2. \A x \in 1..Len(desc) : Holds(t, x) => Holds(table[p], x)
    BY <1>4, <1>6, <2>1, InsertsNew
  <2> HIDE DEF t
  <2>3. QED
    BY <1>1, <2>1, <2>2, OneTable
<1>8. \A q \in Procs : q # p => table'[q] = table[q] /\ call'[q] = call[q]
  BY <1>1 DEF IInv, HandlesOk
<1>9. ~NeedsFile(call[p])'
  BY <1>1, IdleNeedsNothing DEF NeedsFile
<1>10. NamesSame
  BY <1>1 DEF NamesSame
<1>11. QED
  BY <1>1, <1>4, <1>5, <1>7, <1>8, <1>9, <1>10, WireOpens

LEMMA ListenWire ==
  ASSUME IInv, Typed, Typed', ListenersKnown, HoldersKnown, NEW p \in Procs,
         NEW addr \in Paths \cup Ports, Listen(p, addr)
  PROVE  Wire
<1> DEFINE d == Len(desc) + 1
           fs == <<Listener>>
           socket == [kind |-> "socket", is |-> d]
<1>1. /\ Opened(fs) /\ call[p] = Idle
      /\ table' = [table EXCEPT ![p] = Insert(@, d)] /\ UNCHANGED <<st, stream, call>>
      /\ IF addr \in Ports THEN port' = [port EXCEPT ![addr] = d] /\ name' = name
         ELSE name' = [name EXCEPT ![addr] = socket] /\ port' = port
  BY BeginFacts DEF Listen, OpensAs
<1>2. IsSeq(fs) /\ Len(fs) = 1 /\ fs[1] = Listener
  BY ShortSeqs
<1> HIDE DEF fs
<1>3. /\ Len(desc') = d /\ Len(desc) \in Nat
      /\ \A x \in 1..Len(desc) : desc'[x] = desc[x]
      /\ \A x \in 1..Len(desc') : x > Len(desc) => desc'[x] = fs[x - Len(desc)]
      /\ WaitingSame /\ FilesOk'
  BY <1>1, <1>2, OpenedWaits, OpenedOk
<1>4. Len(stream) \in Nat /\ \A x \in 1..Len(desc') : x > Len(desc) => desc'[x].kind = "listener"
  <2>1. \A x \in 1..Len(desc') : x > Len(desc) => desc'[x] = Listener
    BY <1>2, <1>3
  <2>2. Listener.kind = "listener"
    BY DEF Listener
  <2>3. QED
    BY <2>1, <2>2, LensAreNat
<1>5. DescsGrow
  BY <1>1, <1>3, <1>4 DEF DescsGrow
<1>6. d \in File /\ d > Len(desc) /\ d \in 1..Len(desc') /\ desc'[d].kind = "listener"
  BY <1>3, <1>4 DEF File
<1>7. HeldShrinks
  <2> DEFINE t == Insert(table[p], d)
  <2> HIDE DEF d
  <2>1. \A x \in 1..Len(desc) : Holds(t, x) => Holds(table[p], x)
    BY <1>3, <1>6, InsertsNew
  <2>2. table' = [table EXCEPT ![p] = t]
    BY <1>1
  <2> HIDE DEF t
  <2>3. NobodyNew
    BY <1>1, <2>1, <2>2, OneTable
  <2>4. QED
    BY <1>3, <2>3, HeldFollows, SameIsOld
<1>8. HoldersKnown'
  <2>1. \A q \in Procs : q # p => table'[q] = table[q]
    BY <1>1 DEF IInv, HandlesOk
  <2>2. ASSUME NEW q \in Procs, NeedsFile(call[q])'
        PROVE  GoesOn(q)
    <3>1. q # p
      BY <1>1, <2>2, IdleNeedsNothing DEF NeedsFile
    <3>2. QED
      BY <1>1, <2>1, <3>1 DEF GoesOn
  <2>3. QED
    BY <1>5, <2>2, HoldersStay
<1>9. ListenersKnown'
  <2> DEFINE N == [name EXCEPT ![addr] = name[addr]]
  <2>1. \A x : Listens(x) => x \in 1..Len(desc') /\ desc'[x].kind = "listener"
    BY <1>3 DEF Listens
  <2>2. DOMAIN name = Paths /\ DOMAIN port = Ports
    BY DEF Typed, FilesTyped, ListenersKnown
  <2>3. ASSUME NEW f \in Paths, name'[f].kind = "socket"
        PROVE  name'[f].is \in 1..Len(desc') /\ desc'[name'[f].is].kind = "listener"
    <3>1. CASE name'[f] = name[f]
      BY <2>1, <2>3, <3>1 DEF ListenersKnown
    <3>2. CASE name'[f] = socket
      BY <1>6, <3>2
    <3>3. name'[f] = name[f] \/ name'[f] = socket
      BY <1>1, <2>2
    <3>4. QED
      BY <3>1, <3>2, <3>3
  <2>4. ASSUME NEW f \in Ports, port'[f] # 0
        PROVE  port'[f] \in 1..Len(desc') /\ desc'[port'[f]].kind = "listener"
    <3>1. port'[f] = port[f] \/ port'[f] = d
      BY <1>1, <2>2
    <3>2. QED
      BY <1>6, <2>1, <2>4, <3>1 DEF ListenersKnown
  <2>5. DOMAIN port' = Ports
    BY <1>1, <2>2
  <2>6. ASSUME NEW l \in 1..Len(desc'), NEW i \in 1..Len(backlog'[l])
        PROVE  desc'[l].kind = "listener" /\ desc'[backlog'[l][i]].kind = "stream"
    <3>1. l \in 1..Len(desc)
      BY <1>3, <2>6 DEF WaitingSame, Waited
    <3>2. PICK j \in 1..Len(backlog[l]) : backlog[l][j] = backlog'[l][i]
      BY <1>3, <2>6 DEF WaitingSame, Waited
    <3>3. backlog[l] \in Seq(1..Len(desc))
      BY <3>1 DEF IInv, FilesOk
    <3>4. backlog[l][j] \in 1..Len(desc)
      BY <3>2, <3>3, ElementOfSeq
    <3>5. desc[l].kind = "listener" /\ desc[backlog[l][j]].kind = "stream"
      BY <3>1, <3>2 DEF ListenersKnown
    <3>6. QED
      BY <1>3, <3>1, <3>2, <3>4, <3>5
  <2>7. QED
    BY <2>3, <2>4, <2>5, <2>6 DEF ListenersKnown, Listens
<1>10. QED
  BY <1>5, <1>7, <1>8, <1>9 DEF Wire

\* A connection waits at a listener; both its ends are on streams of their own.
LEMMA ConnectWire ==
  ASSUME IInv, Typed, Typed', ListenersKnown, HoldersKnown, NEW p \in Procs,
         NEW addr \in Paths \cup Ports, Connect(p, addr), FilesOk'
  PROVE  Wire
<1> DEFINE l == ListenerAt(addr)
           s == Len(stream) + 1
           n == Len(desc)
           d == n + 1
           fs == <<End(s, s + 1), End(s + 1, s)>>
           none == <<<<>>, <<>>>>
           old == [backlog EXCEPT ![l] = Append(@, d + 1)]
<1>1. /\ NewStreams(2) /\ call[p] = Idle /\ l # 0 /\ desc' = desc \o fs
      /\ backlog' = old \o none
      /\ table' = [table EXCEPT ![p] = Insert(@, d)] /\ UNCHANGED <<st, name, port, call>>
  BY BeginFacts DEF Connect
<1>2. Listens(l)
  BY <1>1 DEF ListenerAt, ListenersKnown
<1>3. /\ Len(stream') = Len(stream) + 2 /\ Len(stream) \in Nat /\ n \in Nat
      /\ s \notin 1..Len(stream) /\ s + 1 \notin 1..Len(stream)
  BY <1>1, NewStreamsOk, LensAreNat
<1>4. /\ IsSeq(fs) /\ Len(fs) = 2
      /\ \A k \in 1..2 : fs[k].kind = "stream" /\ fs[k].tx \notin 1..Len(stream)
  BY <1>3, ShortSeqs DEF End
<1> HIDE DEF fs, l
<1>5. /\ Len(desc') = n + 2 /\ \A x \in 1..n : desc'[x] = desc[x]
      /\ \A x \in 1..n + 2 : x > n => desc'[x] = fs[x - n]
  BY <1>1, <1>4, JoinedParts DEF IInv, FilesOk
<1>6. /\ IsSeq(old) /\ Len(old) = n
      /\ \A x \in 1..n : old[x] = IF x = l THEN Append(backlog[x], d + 1) ELSE backlog[x]
  <2>1. backlog \in Seq(Seq(1..n)) /\ Len(backlog) = n /\ l \in 1..n
    BY <1>2 DEF IInv, FilesOk, Listens
  <2> DEFINE S == Seq(1..n + 2)
             e == Append(backlog[l], d + 1)
  <2>2. backlog[l] \in S /\ \A x \in 1..n : backlog[x] \in S
    <3>1. 1..n \subseteq 1..n + 2
      BY <1>3
    <3>2. Seq(1..n) \subseteq S
      BY <3>1, SeqMonotonic
    <3>3. Seq(1..n) \subseteq S /\ \A x \in 1..n : backlog[x] \in Seq(1..n)
      BY <2>1, <3>2
    <3> HIDE DEF S
    <3>4. QED
      BY <2>1, <3>3
  <2>3. e \in S
    <3>1. d + 1 \in 1..n + 2
      BY <1>3
    <3>2. QED
      BY <2>2, <3>1, AppendProperties
  <2>4. old = [backlog EXCEPT ![l] = e]
    OBVIOUS
  <2> HIDE DEF S, e, old
  <2>5. backlog \in Seq(S)
    <3>1. backlog = [x \in 1..n |-> backlog[x]] /\ n \in Nat
      BY <1>3, <2>1
    <3>2. QED
      BY <2>2, <3>1
  <2>6. old \in Seq(S) /\ Len(old) = n /\ \A x \in 1..n : old[x] = IF x = l THEN e ELSE backlog[x]
    BY <2>1, <2>3, <2>4, <2>5, ExceptSeq
  <2>7. QED
    BY <2>6 DEF IsSeq, e
<1>7. IsSeq(none) /\ Len(none) = 2 /\ none[1] = <<>> /\ none[2] = <<>>
  BY ShortSeqs
<1> HIDE DEF old, none
<1>8. /\ \A x \in 1..n : backlog'[x] = old[x]
      /\ \A x \in 1..n + 2 : x > n => backlog'[x] = none[x - n]
  <2>1. backlog' = old \o none
    BY <1>1
  <2>2. IsSeq(old) /\ IsSeq(none) /\ Len(old) = n /\ Len(none) = 2
    BY <1>6, <1>7
  <2>3. /\ \A x \in 1..Len(old) : (old \o none)[x] = old[x]
        /\ \A x \in 1..Len(old) + Len(none) : x > Len(old) => (old \o none)[x] = none[x - Len(old)]
    BY <2>2, JoinedParts
  <2>4. QED
    BY <2>1, <2>2, <2>3
<1>9. ASSUME NEW x \in 1..n + 2, NEW i \in 1..Len(backlog'[x])
      PROVE  Waited(x, backlog'[x][i]) \/ (x = l /\ backlog'[x][i] = d + 1)
  <2>1. CASE x > n
    <3>1. x - n \in 1..2 /\ backlog'[x] = none[x - n]
      BY <1>3, <1>8, <2>1
    <3>2. backlog'[x] = <<>>
      BY <1>7, <3>1
    <3>3. QED
      BY <1>9, <3>2
  <2>2. CASE ~ (x > n)
    <3>1. x \in 1..n
      BY <1>3, <2>2
    <3>2. backlog'[x] = IF x = l THEN Append(backlog[x], d + 1) ELSE backlog[x]
      BY <1>6, <1>8, <3>1
    <3>3. CASE x # l
      BY <1>9, <3>1, <3>2, <3>3 DEF Waited
    <3>4. CASE x = l
      <4>1. backlog[x] \in Seq(1..n)
        BY <3>1 DEF IInv, FilesOk
      <4> DEFINE e == d + 1
                 m == Len(backlog[x])
      <4>2. backlog'[x] = Append(backlog[x], e)
        BY <3>2, <3>4
      <4> HIDE DEF e
      <4>3. /\ m \in Nat /\ Len(backlog'[x]) = m + 1 /\ backlog'[x][m + 1] = e
            /\ \A j \in 1..m : backlog'[x][j] = backlog[x][j]
        <5>1. backlog[x] \in Seq((1..n) \cup {e}) /\ e \in (1..n) \cup {e}
          BY <4>1, SeqMonotonic
        <5>2. QED
          BY <4>2, <5>1, AppendProperties
      <4>4. i \in 1..m \/ i = m + 1
        BY <1>9, <4>3
      <4>5. QED
        BY <3>1, <3>4, <4>3, <4>4 DEF Waited, e
    <3>5. QED
      BY <3>3, <3>4
  <2>3. QED
    BY <2>1, <2>2
<1>10. DescsGrow
  <2>1. \A x \in 1..n + 2 : x > n => x - n \in 1..2
    BY <1>3
  <2>2. \A x \in 1..n + 2 : x > n => desc'[x].tx \notin 1..Len(stream)
    BY <1>4, <1>5, <2>1
  <2>3. QED
    BY <1>3, <1>5, <2>2 DEF DescsGrow
<1>11. HeldShrinks
  <2> DEFINE t == Insert(table[p], d)
  <2>1. d \in File /\ d > Len(desc) /\ d + 1 \notin 1..n
    BY <1>3 DEF File
  <2>2. \A x \in 1..Len(desc) : Holds(t, x) => Holds(table[p], x)
    <3> HIDE DEF d
    <3>1. QED
      BY <1>3, <2>1, InsertsNew
  <2>3. table' = [table EXCEPT ![p] = t]
    BY <1>1
  <2> HIDE DEF t
  <2>4. NobodyNew
    BY <1>1, <2>2, <2>3, OneTable
  <2>5. WaitingOld
    BY <1>5, <1>9, <2>1 DEF WaitingOld
  <2>6. QED
    BY <2>4, <2>5, HeldFollows
<1>12. HoldersKnown'
  <2>1. \A q \in Procs : q # p => table'[q] = table[q]
    BY <1>1 DEF IInv, HandlesOk
  <2>2. ASSUME NEW q \in Procs, NeedsFile(call[q])'
        PROVE  GoesOn(q)
    <3>1. q # p
      BY <1>1, <2>2, IdleNeedsNothing DEF NeedsFile
    <3>2. QED
      BY <1>1, <2>1, <3>1 DEF GoesOn
  <2>3. QED
    BY <1>10, <2>2, HoldersStay
<1>13. ListenersKnown'
  <2>1. \A x : Listens(x) => x \in 1..n + 2 /\ desc'[x].kind = "listener"
    BY <1>3, <1>5 DEF Listens
  <2>2. /\ \A f \in Paths : name'[f].kind = "socket" =>
             name'[f].is \in 1..n + 2 /\ desc'[name'[f].is].kind = "listener"
        /\ DOMAIN port' = Ports
        /\ \A f \in Ports : port'[f] # 0 =>
             port'[f] \in 1..n + 2 /\ desc'[port'[f]].kind = "listener"
    BY <1>1, <2>1 DEF ListenersKnown
  <2>3. d + 1 \in 1..n + 2 /\ desc'[d + 1].kind = "stream"
    <3>1. d + 1 \in 1..n + 2 /\ d + 1 > n /\ d + 1 - n = 2 /\ 2 \in 1..2
      BY <1>3
    <3>2. desc'[d + 1] = fs[2]
      BY <1>5, <3>1
    <3>3. QED
      BY <1>4, <3>1, <3>2
  <2>4. ASSUME NEW x \in 1..n + 2, NEW i \in 1..Len(backlog'[x])
        PROVE  desc'[x].kind = "listener" /\ desc'[backlog'[x][i]].kind = "stream"
    <3>1. CASE Waited(x, backlog'[x][i])
      <4>1. PICK j \in 1..Len(backlog[x]) : backlog[x][j] = backlog'[x][i]
        BY <3>1 DEF Waited
      <4>2. x \in 1..n /\ backlog[x] \in Seq(1..n)
        BY <3>1 DEF Waited, IInv, FilesOk
      <4>3. backlog[x][j] \in 1..n
        BY <4>1, <4>2, ElementOfSeq
      <4>4. desc[x].kind = "listener" /\ desc[backlog[x][j]].kind = "stream"
        BY <1>1, <4>1, <4>2 DEF ListenersKnown
      <4>5. QED
        BY <1>5, <4>1, <4>2, <4>3, <4>4
    <3>2. CASE x = l /\ backlog'[x][i] = d + 1
      BY <1>2, <2>1, <2>3, <3>2
    <3>3. QED
      BY <1>9, <2>4, <3>1, <3>2
  <2>5. QED
    BY <1>5, <2>2, <2>4 DEF ListenersKnown, Listens
<1>14. QED
  BY <1>10, <1>11, <1>12, <1>13 DEF Wire

\* An accepted connection was held by the one who accepts it: it waited at a
\* listener of his.
LEMMA AcceptWire ==
  ASSUME IInv, Typed, ListenersKnown, HoldersKnown, FilesOk', NEW p \in Procs, Accept(p)
  PROVE  Wire
<1> DEFINE d == call[p].d
           x == Head(backlog[d])
           t == Insert(table[p], x)
<1>1. /\ call[p].op = "accept" /\ backlog[d] # <<>> /\ table' = [table EXCEPT ![p] = t]
      /\ backlog' = [backlog EXCEPT ![d] = Tail(@)] /\ Becomes(p, Idle)
      /\ UNCHANGED <<st, desc, name, port, stream>>
  BY DEF Accept
<1>2. Len(desc) \in Nat /\ Len(stream) \in Nat /\ d \in 1..Len(desc)
  BY <1>1, LensAreNat, CallParts
<1>3. DescsGrow
  BY <1>1, <1>2 DEF DescsGrow
<1>4. HeldBy(p, d)
  BY <1>1 DEF HoldersKnown, NeedsFile
<1>5. /\ backlog \in Seq(Seq(1..Len(desc))) /\ Len(backlog) = Len(desc)
      /\ backlog[d] \in Seq(1..Len(desc)) /\ Len(backlog[d]) \in Nat /\ Len(backlog[d]) >= 1
      /\ 1 \in 1..Len(backlog[d]) /\ backlog[d][1] = x /\ x \in 1..Len(desc)
  <2>1. backlog \in Seq(Seq(1..Len(desc))) /\ Len(backlog) = Len(desc)
    BY DEF IInv, FilesOk
  <2>2. backlog[d] \in Seq(1..Len(desc))
    BY <1>2, <2>1
  <2> DEFINE b == backlog[d]
  <2>3. Len(b) \in Nat /\ Len(b) >= 1 /\ b[1] = Head(b) /\ Head(b) \in 1..Len(desc)
    <3> HIDE DEF d
    <3>1. b # <<>> /\ b \in Seq(1..Len(desc))
      BY <1>1, <2>2
    <3> HIDE DEF b
    <3>2. QED
      BY <3>1
  <2>4. QED
    BY <2>1, <2>2, <2>3
<1>6. x \in ToSet(backlog[d]) /\ desc[x].kind = "stream"
  BY <1>2, <1>5 DEF ToSet, ListenersKnown
<1>7. ASSUME NEW l \in 1..Len(desc), NEW i \in 1..Len(backlog'[l])
      PROVE  Waited(l, backlog'[l][i])
  <2>1. CASE l # d
    <3>1. backlog'[l] = backlog[l]
      BY <1>1, <1>5, <2>1
    <3>2. QED
      BY <1>7, <3>1 DEF Waited
  <2>2. CASE l = d
    <3> DEFINE b == backlog[l]
    <3>1. backlog'[l] = Tail(b)
      BY <1>1, <1>2, <1>5, <2>2
    <3>2. Len(Tail(b)) = Len(b) - 1 /\ \A j \in 1..Len(b) - 1 : Tail(b)[j] = b[j + 1]
      <4>1. b \in Seq(1..Len(desc)) /\ b # <<>>
        BY <1>1, <1>5, <2>2
      <4> HIDE DEF b
      <4>2. QED
        BY <4>1
    <3>3. i + 1 \in 1..Len(b) /\ backlog'[l][i] = b[i + 1]
      BY <1>5, <1>7, <2>2, <3>1, <3>2
    <3>4. QED
      BY <3>3 DEF Waited
  <2>3. QED
    BY <2>1, <2>2
<1>8. WaitingSame
  BY <1>1, <1>7 DEF WaitingSame
<1> HIDE DEF x, t
<1>9. ASSUME NEW e \in 1..Len(desc), NEW q \in Procs, HeldBy(q, e)', e # x
      PROVE  HeldBy(q, e)
  <2>1. st[q] = "running" /\ Holds(table'[q], e)
    BY <1>1, <1>9 DEF HeldBy, Running, Holds
  <2>2. table'[q] = IF q = p THEN t ELSE table[q]
    BY <1>1 DEF IInv, HandlesOk
  <2>3. Holds(table[q], e)
    <3>1. CASE q = p
      <4> DEFINE files == 1..Len(desc)
      <4>1. files \in SUBSET File /\ IsTable(table[p], files) /\ TableOk(table[p]) /\ x \in files
        BY <1>2, <1>5 DEF IInv, HandlesOk, File
      <4>2. Holds(Insert(table[p], x), e)
        BY <2>1, <2>2, <3>1 DEF t
      <4> HIDE DEF files
      <4>3. QED
        BY <1>9, <3>1, <4>1, <4>2, HoldsInsert
    <3>2. CASE q # p
      BY <2>1, <2>2, <3>2
    <3>3. QED
      BY <3>1, <3>2
  <2>4. QED
    BY <2>1, <2>3 DEF HeldBy, Running, Holds
<1>10. HeldShrinks
  <2> SUFFICES ASSUME NEW e \in 1..Len(desc), Held(e)' PROVE Held(e)
    BY DEF HeldShrinks
  <2>1. CASE e = x
    BY <1>2, <1>4, <1>6, <2>1 DEF Held
  <2>2. CASE e # x /\ \E q \in Procs : HeldBy(q, e)'
    BY <1>9, <2>2 DEF Held
  <2>3. CASE \E l \in 1..Len(desc') : e \in ToSet(backlog'[l]) /\ \E q \in Procs : HeldBy(q, l)'
    <3>1. PICK l \in 1..Len(desc) : e \in ToSet(backlog'[l]) /\ \E q \in Procs : HeldBy(q, l)'
      BY <1>1, <2>3
    <3>2. backlog'[l] \in Seq(1..Len(desc)) /\ backlog[l] \in Seq(1..Len(desc))
      BY <1>1, <3>1 DEF IInv, FilesOk
    <3>3. PICK i \in 1..Len(backlog'[l]) : backlog'[l][i] = e
      BY <3>1, <3>2 DEF ToSet
    <3>4. PICK j \in 1..Len(backlog[l]) : backlog[l][j] = e
      BY <1>7, <3>3 DEF Waited
    <3>5. e \in ToSet(backlog[l]) /\ l # x
      BY <1>6, <3>2, <3>4 DEF ToSet, ListenersKnown
    <3>6. QED
      BY <1>9, <3>1, <3>5 DEF Held
  <2>4. QED
    BY <2>1, <2>2, <2>3 DEF Held
<1>11. ListenersKnown'
  <2>1. NamesSame /\ Len(desc') \in Nat /\ port' = port
    BY <1>1, <1>2 DEF NamesSame
  <2>2. QED
    BY <1>3, <1>8, <2>1, ListenersStay
<1>12. HoldersKnown'
  <2>1. /\ \A q \in Procs : q # p => table'[q] = table[q] /\ call'[q] = call[q]
        /\ call'[p] = Idle
    BY <1>1 DEF IInv, HandlesOk, Typed, CallsTyped, Becomes
  <2>2. ASSUME NEW q \in Procs, NeedsFile(call[q])'
        PROVE  GoesOn(q)
    <3>1. q # p
      BY <2>1, <2>2, IdleNeedsNothing DEF NeedsFile
    <3>2. QED
      BY <1>1, <2>1, <3>1 DEF GoesOn
  <2>3. QED
    BY <1>3, <2>2, HoldersStay
<1>13. QED
  BY <1>3, <1>10, <1>11, <1>12 DEF Wire

\* A process begins or ends.
LEMMA ProcessWire ==
  ASSUME IInv, Typed, ListenersKnown, HoldersKnown,
         UNCHANGED <<desc, backlog, name, port, stream>>, NobodyNew,
         \A q \in Procs :
           \/ call'[q] = Idle
           \/ call'[q] = call[q] /\ (st[q] = "running" => table'[q] = table[q] /\ st'[q] = st[q])
  PROVE  Wire
<1>1. Len(desc) \in Nat /\ Len(stream) \in Nat
  BY LensAreNat
<1>2. DescsGrow /\ FilesOk' /\ NamesSame
  BY <1>1 DEF DescsGrow, IInv, FilesOk, NamesSame
<1>3. WaitingSame
  BY SameWaiting
<1>4. HeldShrinks
  BY <1>2, <1>3, HeldFollows, SameIsOld
<1>5. ListenersKnown'
  BY <1>1, <1>2, <1>3, ListenersStay
<1>6. ASSUME NEW q \in Procs, NeedsFile(call[q])'
      PROVE  GoesOn(q)
  <2>1. call'[q] = call[q] /\ call[q].op \in {"accept", "write"}
    BY <1>6, IdleNeedsNothing DEF NeedsFile
  <2>2. st[q] = "running"
    BY <2>1, CallParts
  <2>3. call'[q] # Idle
    BY <2>1, IdleNeedsNothing
  <2>4. QED
    BY <2>1, <2>2, <2>3 DEF GoesOn
<1>7. HoldersKnown'
  BY <1>2, <1>6, HoldersStay
<1>8. QED
  BY <1>2, <1>4, <1>5, <1>7 DEF Wire

LEMMA ChildWire ==
  ASSUME IInv, Typed, ListenersKnown, HoldersKnown, NEW p \in Procs, st[p] = "running",
         NEW q \in Procs, NEW how, Child(p, q, how)
  PROVE  Wire
<1>1. /\ st[q] = "unborn" /\ st' = [st EXCEPT ![q] = "running"]
      /\ table' = [table EXCEPT ![q] = table[p]]
      /\ UNCHANGED <<desc, backlog, name, port, stream, call>>
  BY DEF Child
<1>2. /\ \A r \in Procs : r # q => st'[r] = st[r] /\ table'[r] = table[r]
      /\ table'[q] = table[p]
  BY <1>1 DEF IInv, HandlesOk, CallsOk
<1>3. NobodyNew
  <2> SUFFICES ASSUME NEW d, NEW r \in Procs, HeldBy(r, d)'
               PROVE  HeldBy(IF r = q THEN p ELSE r, d)
    BY DEF NobodyNew
  <2>1. QED
    BY <1>2 DEF HeldBy, Running
<1>4. QED
  BY <1>1, <1>2, <1>3, ProcessWire

LEMMA EndWire ==
  ASSUME IInv, Typed, ListenersKnown, HoldersKnown, NEW p \in Procs, Dies(p)
  PROVE  Wire
<1>1. /\ st' = [st EXCEPT ![p] = "gone"] /\ Becomes(p, Idle)
      /\ UNCHANGED <<table, desc, backlog, name, port, stream>>
  BY DEF Dies
<1>2. /\ \A q \in Procs : q # p => st'[q] = st[q] /\ call'[q] = call[q]
      /\ st'[p] = "gone" /\ call'[p] = Idle
  BY <1>1 DEF IInv, CallsOk, Becomes
<1>3. NobodyNew
  BY <1>1, <1>2, SameTables
<1>4. QED
  BY <1>1, <1>2, <1>3, ProcessWire

\* Reading and writing change what streams hold, not how many there are.
LEMMA StreamsStay ==
  ASSUME Typed, stream' = stream \/ \E s, e : stream' = [stream EXCEPT ![s] = e]
  PROVE  Len(stream') = Len(stream)
<1>1. stream \in Seq(ByteSeq)
  BY DEF Typed, FilesTyped
<1>2. ASSUME NEW s, NEW e, stream' = [stream EXCEPT ![s] = e]
      PROVE  Len(stream') = Len(stream)
  <2>1. stream \in Seq(ByteSeq \cup {e})
    BY <1>1, SeqMonotonic
  <2>2. QED
    BY <1>2, <2>1, ExceptAnywhere
<1>3. QED
  BY <1>2

LEMMA ReadsStay ==
  ASSUME Typed, NEW p, NEW d, NEW n, NEW whole, Reads(p, d, n, whole)
  PROVE  Len(stream') = Len(stream)
<1> DEFINE rest == SubSeq(stream[desc[d].rx], n + 1, Len(stream[desc[d].rx]))
<1>1. stream' = stream \/ stream' = [stream EXCEPT ![desc[d].rx] = rest]
  BY DEF Reads, Consume
<1> HIDE DEF rest
<1>2. QED
  BY <1>1, StreamsStay

LEMMA BeginWire ==
  ASSUME IInv, Typed, Typed', ListenersKnown, HoldersKnown, NEW p \in Procs,
         \/ \E h : \/ \E to \in -1..1 : Seek(p, h, to)
                   \/ BeginReadLine(p, h)
                   \/ \E size, wait : BeginReadBuffer(p, h, size, wait)
                   \/ \E text : BeginWrite(p, h, text)
                   \/ BeginWriteCurrent(p, h)
                   \/ BeginAccept(p, h)
         \/ \E text : BeginExec(p, text)
  PROVE  Wire
<1>1. ASSUME NEW h, NEW to, Seek(p, h, to)
      PROVE  Wire
  <2>1. UNCHANGED <<st, table, desc, backlog, name, port, stream, call>>
    BY <1>1 DEF Seek
  <2>2. QED
    BY <2>1, WireSame
<1>2. ASSUME NEW c, Becomes(p, c), UNCHANGED kernelVars,
             c.op \notin {"accept", "write"} \/ HeldBy(p, c.d)
      PROVE  Wire
  BY <1>2, WireCall DEF kernelVars
<1>3. ASSUME NEW h, BeginReadLine(p, h)
      PROVE  Wire
  BY <1>2, <1>3 DEF BeginReadLine
<1>4. ASSUME NEW h, NEW size, NEW wait, BeginReadBuffer(p, h, size, wait)
      PROVE  Wire
  BY <1>2, <1>4 DEF BeginReadBuffer
<1>5. ASSUME NEW h, NEW text, BeginWrite(p, h, text)
      PROVE  Wire
  <2> DEFINE d == FileAt(table[p], h)
  <2>1. HeldBy(p, d) /\ Becomes(p, [op |-> "write", d |-> d, rest |-> text]) /\ UNCHANGED kernelVars
    BY <1>5, HandleHolds DEF BeginWrite
  <2> HIDE DEF d
  <2>2. QED
    BY <1>2, <2>1
<1>6. ASSUME NEW h, BeginWriteCurrent(p, h)
      PROVE  Wire
  <2> DEFINE d == FileAt(table[p], h)
             rest == Append(line[p], NL)
  <2>1. HeldBy(p, d) /\ Becomes(p, [op |-> "write", d |-> d, rest |-> rest]) /\ UNCHANGED kernelVars
    BY <1>6, HandleHolds DEF BeginWriteCurrent
  <2> HIDE DEF d, rest
  <2>2. QED
    BY <1>2, <2>1
<1>7. ASSUME NEW h, BeginAccept(p, h)
      PROVE  Wire
  <2> DEFINE d == FileAt(table[p], h)
  <2>1. HeldBy(p, d) /\ Becomes(p, [op |-> "accept", d |-> d]) /\ UNCHANGED kernelVars
    BY <1>7, HandleHolds DEF BeginAccept
  <2> HIDE DEF d
  <2>2. QED
    BY <1>2, <2>1
<1>8. ASSUME NEW text, BeginExec(p, text)
      PROVE  Wire
  BY <1>2, <1>8 DEF BeginExec
<1>9. QED
  BY <1>1, <1>3, <1>4, <1>5, <1>6, <1>7, <1>8

\* A step inside a call: the call goes on with the same file, or ends.
LEMMA InsideWire ==
  ASSUME IInv, Typed, ListenersKnown, HoldersKnown, NEW p \in Procs,
         CallStep(p), ~Accept(p)
  PROVE  Wire
<1> DEFINE c == call[p]
<1>1. ASSUME NEW c2, Becomes(p, c2), UNCHANGED <<st, table, desc, backlog, name, port>>,
             Len(stream') = Len(stream),
             c2.op \notin {"accept", "write"} \/ (c2.op = c.op /\ c2.d = c.d)
      PROVE  Wire
  BY <1>1, WireCall
<1>2. Idle.op \notin {"accept", "write"}
  BY DEF Idle
<1>3. CASE ReadLineByte(p)
  <2> DEFINE text == LineAfter(c.text, Head(Avail(c.d)))
             on == [c EXCEPT !.text = text, !.got = TRUE]
  <2>1. \/ Becomes(p, Idle) /\ Reads(p, c.d, 1, <<c.text>>)
        \/ Becomes(p, on) /\ Reads(p, c.d, 1, <<>>)
    BY <1>3 DEF ReadLineByte
  <2>2. UNCHANGED <<st, table, desc, backlog, name, port>>
    BY <1>3 DEF ReadLineByte
  <2>3. Len(stream') = Len(stream)
    BY <2>1, ReadsStay
  <2>4. c.op = "line" /\ c \in [op : {"line"}, d : 1..Len(desc), text : ByteSeq, got : BOOLEAN]
    BY <1>3, CallParts DEF ReadLineByte
  <2> HIDE DEF text, c
  <2>5. on.op = "line"
    BY <2>4
  <2> HIDE DEF on
  <2>6. PICK c2 \in {Idle, on} : Becomes(p, c2)
    BY <2>1
  <2>7. QED
    BY <1>1, <1>2, <2>2, <2>3, <2>5, <2>6
<1>4. CASE ReadLineEnd(p) \/ ReadBufferEnd(p)
  <2>1. Becomes(p, Idle) /\ UNCHANGED kernelVars
    BY <1>4 DEF ReadLineEnd, ReadBufferEnd, EndReadBuffer
  <2>2. QED
    BY <1>1, <1>2, <2>1 DEF kernelVars
<1>5. CASE ReadBufferStep(p)
  <2> DEFINE n == IF c.wait = <<>> THEN Min({c.size, Len(Avail(c.d))}) ELSE 1
             text == c.text \o SubSeq(Avail(c.d), 1, n)
             on == [c EXCEPT !.text = text]
  <2>1. (Becomes(p, Idle) \/ Becomes(p, on)) /\ Reads(p, c.d, n, <<>>)
    BY <1>5 DEF ReadBufferStep, EndReadBuffer
  <2>2. UNCHANGED <<st, table, desc, backlog, name, port>>
    BY <1>5 DEF ReadBufferStep
  <2>3. Len(stream') = Len(stream)
    BY <2>1, ReadsStay
  <2>4. /\ c.op = "buffer"
        /\ c \in [op : {"buffer"}, d : 1..Len(desc), size : 1..3,
                  wait : {<<>>, <<NL>>}, text : ByteSeq]
    BY <1>5, CallParts DEF ReadBufferStep
  <2> HIDE DEF text, c
  <2>5. on.op = "buffer"
    BY <2>4
  <2> HIDE DEF on
  <2>6. PICK c2 \in {Idle, on} : Becomes(p, c2)
    BY <2>1
  <2>7. QED
    BY <1>1, <1>2, <2>2, <2>3, <2>5, <2>6
<1>6. CASE WriteStep(p)
  <2>1. PICK n \in 0..Len(c.rest) :
          /\ Accepts(c.d, c.rest, n)
          /\ IF n = 0 THEN UNCHANGED <<pos, inode, stream>>
                      ELSE Deliver(c.d, SubSeq(c.rest, 1, n), Zero)
          /\ Becomes(p, IF n = 0 \/ n = Len(c.rest) THEN Idle
                        ELSE [c EXCEPT !.rest = SubSeq(@, n + 1, Len(@))])
    BY <1>6 DEF WriteStep
  <2> DEFINE rest == SubSeq(c.rest, n + 1, Len(c.rest))
             on == [c EXCEPT !.rest = rest]
  <2>2. UNCHANGED <<st, table, desc, backlog, name, port>>
    BY <1>6 DEF WriteStep
  <2>3. c.op = "write" /\ c \in [op : {"write"}, d : 1..Len(desc), rest : ByteSeq]
    BY <1>6, CallParts DEF WriteStep
  <2>4. Len(stream') = Len(stream)
    BY <2>1, <2>2, <2>3, DeliverOk
  <2>5. Becomes(p, Idle) \/ Becomes(p, on)
    BY <2>1
  <2> HIDE DEF rest, c
  <2>6. on.op = "write" /\ on.d = c.d
    BY <2>3
  <2> HIDE DEF on
  <2>7. PICK c2 \in {Idle, on} : Becomes(p, c2)
    BY <2>5
  <2>8. QED
    BY <1>1, <1>2, <2>2, <2>3, <2>4, <2>6, <2>7
<1>7. CASE ExecFeed(p) \/ CommandStep(p) \/ ExecDrain(p)
  <2>1. UNCHANGED kernelVars /\ c.op = "exec"
    BY <1>7 DEF ExecFeed, CommandStep, ExecDrain
  <2>2. \A q \in Procs : call'[q] = call[q] \/ call'[q].op \notin {"accept", "write"}
    <3> DEFINE n == Min({Capacity - Len(c.to), Len(c.rest)})
               rest == SubSeq(c.rest, n + 1, Len(c.rest))
               to == c.to \o SubSeq(c.rest, 1, n)
               less == Tail(c.to)
               from == Append(c.from, Head(c.to))
               fed == [c EXCEPT !.rest = rest, !.to = to]
               moved == [c EXCEPT !.to = less, !.from = from]
               read == [c EXCEPT !.from = <<>>]
    <3>1. c \in [op : {"exec"}, rest : ByteSeq, to : ByteSeq, from : ByteSeq, all : ByteSeq]
      BY <2>1, CallParts
    <3>2. ExecFeed(p) => Becomes(p, fed)
      BY DEF ExecFeed
    <3>3. CommandStep(p) => Becomes(p, moved)
      BY DEF CommandStep
    <3>4. ExecDrain(p) => Becomes(p, read) \/ Becomes(p, Idle)
      BY DEF ExecDrain
    <3>5. DOMAIN call = Procs
      BY DEF Typed, CallsTyped
    <3> HIDE DEF rest, to, less, from, c
    <3>6. fed.op = "exec" /\ moved.op = "exec" /\ read.op = "exec"
      BY <2>1, <3>1
    <3> HIDE DEF fed, moved, read
    <3>7. PICK c2 \in {Idle, fed, moved, read} : Becomes(p, c2)
      BY <1>7, <3>2, <3>3, <3>4
    <3>8. c2.op \notin {"accept", "write"}
      BY <1>2, <3>6, <3>7
    <3>9. QED
      BY <3>5, <3>7, <3>8 DEF Becomes
  <2>3. QED
    BY <2>1, <2>2, WireSame DEF kernelVars
<1>8. QED
  BY <1>3, <1>4, <1>5, <1>6, <1>7 DEF CallStep

\* Messages and pages are none of all this.
LEMMA MailWire ==
  ASSUME IInv, Typed, ListenersKnown, HoldersKnown, NEW p \in Procs, MailStep(p)
  PROVE  UNCHANGED <<kernelVars, hist>> /\ Wire
         /\ \A q \in Procs : call'[q] = call[q] \/ (call[q].op # "line" /\
              call'[q].op \in {"idle", "page-write", "page-read"})
<1>1. UNCHANGED <<kernelVars, hist>>
  BY DEF MailStep, Send, Receive, NewPage, BeginPageWrite, PageWriteEnd, BeginPageRead,
         PageReadEnd, mailVars
<1>2. DOMAIN call = Procs /\ Idle.op = "idle"
  BY DEF Typed, CallsTyped, Idle
<1>3. \A q \in Procs : call'[q] = call[q] \/ (call[q].op # "line" /\
        call'[q].op \in {"idle", "page-write", "page-read"})
  <2>1. CASE (\E n, text : Send(p, n, text)) \/ (\E n : Receive(p, n)) \/ NewPage(p)
    BY <2>1 DEF Send, Receive, NewPage
  <2>2. CASE PageWriteEnd(p) \/ PageReadEnd(p)
    <3>1. Becomes(p, Idle) /\ call[p].op # "line"
      BY <2>2 DEF PageWriteEnd, PageReadEnd
    <3>2. QED
      BY <1>2, <3>1 DEF Becomes
  <2>3. ASSUME NEW k, BeginPageRead(p, k)
        PROVE  \A q \in Procs : call'[q] = call[q] \/ (call[q].op # "line" /\
                 call'[q].op \in {"idle", "page-write", "page-read"})
    <3>1. call[p] = Idle /\ \E c : c.op = "page-read" /\ Becomes(p, c)
      BY <2>3, BeginFacts DEF BeginPageRead
    <3>2. QED
      BY <1>2, <3>1 DEF Becomes
  <2>4. ASSUME NEW k, NEW text, BeginPageWrite(p, k, text)
        PROVE  \A q \in Procs : call'[q] = call[q] \/ (call[q].op # "line" /\
                 call'[q].op \in {"idle", "page-write", "page-read"})
    <3> SUFFICES ASSUME NEW q \in Procs, call'[q] # call[q]
                 PROVE  call[q].op # "line" /\ call'[q].op \in {"idle", "page-write", "page-read"}
      OBVIOUS
    <3>1. call[p] = Idle
      BY <2>4, BeginFacts DEF BeginPageWrite
    <3>2. CASE q = p
      <4>1. call'[q] = [op |-> "page-write", k |-> k, text |-> text]
        BY <2>4, <3>2 DEF BeginPageWrite
      <4>2. QED
        BY <1>2, <3>1, <3>2, <4>1
    <3>3. CASE q # p
      <4>1. call[q].op = "page-read" /\ call'[q] = [call[q] EXCEPT !.quiet = FALSE]
        BY <2>4, <3>3 DEF BeginPageWrite
      <4>2. call[q] \in [op : {"page-read"}, k : 1..Len(page), n : Nat, quiet : BOOLEAN]
        BY <4>1, CallParts
      <4>3. QED
        BY <4>1, <4>2
    <3>4. QED
      BY <3>2, <3>3
  <2>5. QED
    BY <2>1, <2>2, <2>3, <2>4 DEF MailStep
<1>4. Wire
  BY <1>1, <1>3, WireSame DEF kernelVars
<1>5. QED
  BY <1>1, <1>3, <1>4

\* Every step of the system.
LEMMA WireStep ==
  ASSUME IInv, IInv', Typed, Typed', ListenersKnown, HoldersKnown, Next
  PROVE  Wire
<1>1. FilesOk'
  BY DEF IInv
<1>2. ASSUME NEW p \in Procs, FileStep(p)
      PROVE  Wire
  BY <1>1, <1>2, OpenWire, CloseWire, WriteWholeWire, NamesWire, PipeWire, ListenWire,
     ConnectWire, BeginWire DEF FileStep
<1>3. ASSUME NEW p \in Procs, CallStep(p)
      PROVE  Wire
  BY <1>1, <1>3, AcceptWire, InsideWire
<1>4. ASSUME NEW p \in Procs, NEW q \in Procs, Fork(p, q) \/ \E flag : Spawn(p, q, flag)
      PROVE  Wire
  <2>1. st[p] = "running" /\ \E how : Child(p, q, how)
    BY <1>4, BeginFacts DEF Fork, Spawn
  <2>2. QED
    BY <2>1, ChildWire
<1>5. QED
  BY <1>2, <1>3, <1>4, MailWire, EndSteps, EndWire DEF Next

LEMMA ListenersInit == Init => ListenersKnown /\ HoldersKnown
<1> SUFFICES ASSUME Init PROVE ListenersKnown /\ HoldersKnown
  OBVIOUS
<1>1. name = [f \in Paths |-> Nothing] /\ port = [f \in Ports |-> 0] /\ desc = <<>>
      /\ call = [p \in Procs |-> Idle]
  BY DEF Init
<1>2. QED
  BY <1>1 DEF ListenersKnown, HoldersKnown, NeedsFile, Idle, Nothing

-----------------------------------------------------------------------------
(* What is known of the lines: those returned and those in the making hold  *)
(* no \n, and a reader in the middle of a line has read from its stream.    *)

ReaderSets == {R \in SUBSET Procs : IsFiniteSet(R)}

History == [took : ByteSeq, by : ReaderSets, lines : Seq(ByteSeq), mixed : BOOLEAN]

ReadsStream(c, s) == desc[c.d].kind = "stream" /\ desc[c.d].rx = s

OneLine(text) == NL \notin ToSet(text)

ReaderKnown(p) ==
  /\ call[p].op = "line" =>
       /\ OneLine(call[p].text) /\ (~call[p].got => call[p].text = <<>>)
       /\ \A s \in 1..Len(stream) :
            ReadsStream(call[p], s) /\ call[p].got => p \in hist[s].by
  /\ call[p].op = "buffer" =>
       \A s \in 1..Len(stream) : ReadsStream(call[p], s) => hist[s].mixed

LinesKnown == \A s \in 1..Len(stream) : \A i \in 1..Len(hist[s].lines) : OneLine(hist[s].lines[i])

\* All that was written to s has been read, and the last line had no \n.
Ended(s) ==
  /\ ~Writers(s) /\ stream[s] = <<>> /\ hist[s].lines # <<>>
  /\ Append(Bare(hist[s].took), NL) = Joined(hist[s].lines)

InLine(p, s) == call[p].op = "line" /\ ReadsStream(call[p], s) /\ call[p].got

\* The lines p has read from s, and the part of one that it holds.
LinesHold(p, s) ==
  IF InLine(p, s)
    THEN Bare(hist[s].took) = Joined(hist[s].lines) \o call[p].text
    ELSE Bare(hist[s].took) = Joined(hist[s].lines) \/ Ended(s)

OnlyReader(p, s) == st[p] # "gone" /\ ~hist[s].mixed /\ hist[s].by \subseteq {p}

LinesKept == \A s \in 1..Len(stream), p \in Procs : OnlyReader(p, s) => LinesHold(p, s)

Lines ==
  hist \in Seq(History) /\ LinesKnown /\ (\A p \in Procs : ReaderKnown(p)) /\ LinesKept

\* A step that reads no line from s: it leaves it alone, writes to it, or reads
\* from it otherwise.
StreamStays(s) ==
  /\ hist[s].by \subseteq hist'[s].by /\ hist'[s].lines = hist[s].lines
  /\ hist[s].mixed => hist'[s].mixed
  /\ \/ hist'[s].mixed
     \/ hist'[s] = hist[s] /\ (stream'[s] = stream[s] \/ Writers(s))

\* Nor is p in the middle of a line, before or after.
ReaderStays(p) ==
  \/ call'[p] = call[p]
  \/ /\ ReaderKnown(p)'
     /\ st'[p] = "gone" \/ \A s \in 1..Len(stream') : ~InLine(p, s) /\ ~InLine(p, s)'

NoHistory == [took |-> <<>>, by |-> {}, lines |-> <<>>, mixed |-> FALSE]

LEMMA ReaderAdded ==
  ASSUME NEW R \in ReaderSets, NEW p \in Procs
  PROVE  R \cup {p} \in ReaderSets
BY FS_AddElement DEF ReaderSets

\* A process is in the call it was in, on the same stream.
LEMMA SameReader ==
  ASSUME IInv, Typed, DescsGrow, NEW p \in Procs, call[p].op \in {"line", "buffer"},
         call'[p] = call[p], NEW s, ReadsStream(call[p], s)'
  PROVE  ReadsStream(call[p], s) /\ s \in 0..Len(stream)
<1>1. call[p].d \in 1..Len(desc)
  BY CallParts
<1>2. desc'[call[p].d] = desc[call[p].d]
  BY <1>1 DEF DescsGrow
<1>3. ReadsStream(call[p], s)
  BY <1>2 DEF ReadsStream
<1>4. QED
  BY <1>1, <1>3, FileKinds DEF ReadsStream

LEMMA SameInLine ==
  ASSUME IInv, Typed, DescsGrow, NEW p \in Procs, call'[p] = call[p], NEW s \in 1..Len(stream')
  PROVE  /\ InLine(p, s)' => InLine(p, s) /\ s \in 1..Len(stream)
         /\ s \in 1..Len(stream) /\ InLine(p, s) => InLine(p, s)'
<1>1. ASSUME InLine(p, s)'
      PROVE  InLine(p, s) /\ s \in 1..Len(stream)
  <2>1. call[p].op = "line" /\ call[p].got /\ ReadsStream(call[p], s)'
    BY <1>1 DEF InLine
  <2>2. ReadsStream(call[p], s) /\ s \in 0..Len(stream)
    BY <2>1, SameReader
  <2>3. QED
    BY <2>1, <2>2, LensAreNat DEF InLine
<1>2. ASSUME s \in 1..Len(stream), InLine(p, s)
      PROVE  InLine(p, s)'
  <2>1. call[p].d \in 1..Len(desc)
    BY <1>2, CallParts DEF InLine
  <2>2. desc'[call[p].d] = desc[call[p].d]
    BY <2>1 DEF DescsGrow
  <2>3. QED
    BY <1>2, <2>2 DEF InLine, ReadsStream
<1>3. QED
  BY <1>1, <1>2

LEMMA ReaderGoesOn ==
  ASSUME IInv, Typed, DescsGrow, NEW p \in Procs, call'[p] = call[p], ReaderKnown(p),
         \A s \in 1..Len(stream) :
           hist[s].by \subseteq hist'[s].by /\ (hist[s].mixed => hist'[s].mixed)
  PROVE  ReaderKnown(p)'
<1>1. ASSUME NEW s \in 1..Len(stream'), call[p].op \in {"line", "buffer"}, ReadsStream(call[p], s)'
      PROVE  s \in 1..Len(stream) /\ ReadsStream(call[p], s)
  BY <1>1, SameReader, LensAreNat
<1>2. QED
  BY <1>1 DEF ReaderKnown

LEMMA QuietLines ==
  ASSUME IInv, Typed, Typed', Wire, Lines, hist' \in Seq(History),
         \A s \in 1..Len(stream) : StreamStays(s),
         \A s \in 1..Len(stream') : s \notin 1..Len(stream) => hist'[s] = NoHistory,
         \A p \in Procs : ReaderStays(p) /\ (st[p] = "gone" => st'[p] = "gone"),
         Len(desc') \in Nat
  PROVE  Lines'
<1>0. DescsGrow /\ HeldShrinks /\ Len(desc) \in Nat /\ Len(stream) \in Nat
  BY LensAreNat DEF Wire
<1>1. LinesKnown'
  <2> SUFFICES ASSUME NEW s \in 1..Len(stream'), NEW i \in 1..Len(hist'[s].lines)
               PROVE  OneLine(hist'[s].lines[i])
    BY DEF LinesKnown, OneLine
  <2>1. CASE s \in 1..Len(stream)
    BY <2>1 DEF StreamStays, Lines, LinesKnown
  <2>2. CASE s \notin 1..Len(stream)
    BY <2>2 DEF NoHistory
  <2>3. QED
    BY <2>1, <2>2
<1>2. ASSUME NEW p \in Procs
      PROVE  ReaderKnown(p)'
  <2>1. CASE call'[p] = call[p]
    BY <1>0, <2>1, ReaderGoesOn DEF StreamStays, Lines
  <2>2. CASE call'[p] # call[p]
    BY <2>2 DEF ReaderStays
  <2>3. QED
    BY <2>1, <2>2
<1>3. ASSUME NEW s \in 1..Len(stream'), NEW p \in Procs, OnlyReader(p, s)'
      PROVE  LinesHold(p, s)'
  <2>1. CASE s \in 1..Len(stream)
    <3>1. hist'[s] = hist[s] /\ (stream'[s] = stream[s] \/ Writers(s)) /\ OnlyReader(p, s)
      BY <1>3, <2>1 DEF StreamStays, OnlyReader
    <3>2. LinesHold(p, s)
      BY <2>1, <3>1 DEF Lines, LinesKept
    <3>3. Ended(s) => Ended(s)'
      BY <1>0, <2>1, <3>1, WritersShrink DEF Ended
    <3>4. CASE call'[p] = call[p]
      <4>1. InLine(p, s)' <=> InLine(p, s)
        BY <1>0, <2>1, <3>4, SameInLine
      <4>2. QED
        BY <3>1, <3>2, <3>3, <3>4, <4>1 DEF LinesHold
    <3>5. CASE call'[p] # call[p]
      <4>1. ~InLine(p, s) /\ ~InLine(p, s)'
        BY <1>3, <3>5 DEF ReaderStays, OnlyReader
      <4>2. QED
        BY <3>1, <3>2, <3>3, <4>1 DEF LinesHold
    <3>6. QED
      BY <3>4, <3>5
  <2>2. CASE s \notin 1..Len(stream)
    <3>1. hist'[s] = NoHistory
      BY <2>2
    <3>2. Bare(hist'[s].took) = Joined(hist'[s].lines)
      BY <3>1, BareOfNone, JoinedOfNone DEF NoHistory
    <3>3. ~InLine(p, s)'
      <4>1. CASE call'[p] = call[p]
        BY <1>0, <2>2, <4>1, SameInLine
      <4>2. CASE call'[p] # call[p]
        BY <1>3, <4>2 DEF ReaderStays, OnlyReader
      <4>3. QED
        BY <4>1, <4>2
    <3>4. QED
      BY <3>2, <3>3 DEF LinesHold
  <2>3. QED
    BY <2>1, <2>2
<1>4. LinesKept'
  BY <1>3 DEF LinesKept
<1>5. QED
  BY <1>1, <1>2, <1>4 DEF Lines

\* The history of one stream is set.
LEMMA HistoryAt ==
  ASSUME hist \in Seq(History), NEW s \in 1..Len(hist), NEW e \in History,
         hist' = [hist EXCEPT ![s] = e]
  PROVE  /\ hist' \in Seq(History) /\ Len(hist') = Len(hist) /\ hist'[s] = e
         /\ \A x \in 1..Len(hist) : x # s => hist'[x] = hist[x]
<1> DEFINE H == History
<1>1. hist \in Seq(H) /\ e \in H
  OBVIOUS
<1> HIDE DEF H
<1>2. /\ hist' \in Seq(H) /\ Len(hist') = Len(hist)
      /\ \A x \in 1..Len(hist) : hist'[x] = IF x = s THEN e ELSE hist[x]
  BY <1>1, ExceptSeq
<1>3. QED
  BY <1>2 DEF H

\* What is known of the end of a stream that somebody reads.
LEMMA ReadingEnd ==
  ASSUME IInv, Typed, Lines, NEW d \in 1..Len(desc), desc[d].kind = "stream", desc[d].rx # 0
  PROVE  /\ desc[d].rx \in 1..Len(stream) /\ Len(hist) = Len(stream)
         /\ hist[desc[d].rx] \in History /\ Avail(d) = stream[desc[d].rx]
         /\ stream[desc[d].rx] \in ByteSeq
<1>1. desc[d].rx \in 1..Len(stream)
  BY FileKinds, LensAreNat
<1>2. Avail(d) = stream[desc[d].rx]
  BY DEF Avail
<1>3. Len(hist) = Len(stream) /\ hist \in Seq(History) /\ stream \in Seq(ByteSeq)
  BY DEF Typed, HistTyped, FilesTyped, Lines
<1>4. QED
  BY <1>1, <1>2, <1>3

\* A line without \n stays one: a byte that is none is added, or nothing.
LEMMA LineGrows ==
  ASSUME NEW text \in ByteSeq, OneLine(text), NEW b \in Byte, b # NL
  PROVE  OneLine(LineAfter(text, b)) /\ LineAfter(text, b) \in ByteSeq
<1>1. CASE b = CR
  BY <1>1 DEF LineAfter
<1>2. CASE b # CR
  <2> DEFINE new == Append(text, b)
  <2>1. /\ new \in Seq(Byte) /\ Len(new) = Len(text) + 1 /\ new[Len(text) + 1] = b
        /\ \A i \in 1..Len(text) : new[i] = text[i]
    BY AppendProperties DEF ByteSeq
  <2>2. Len(text) \in Nat /\ \A i \in 1..Len(text) : text[i] # NL
    BY DEF OneLine, ToSet, ByteSeq
  <2> HIDE DEF new
  <2>3. \A i \in 1..Len(new) : i \in 1..Len(text) \/ i = Len(text) + 1
    BY <2>1, <2>2
  <2>4. \A i \in 1..Len(new) : new[i] # NL
    BY <2>1, <2>2, <2>3
  <2>5. NL \notin ToSet(new)
    BY <2>1, <2>4 DEF ToSet
  <2>6. LineAfter(text, b) = new
    BY <1>2 DEF LineAfter, new
  <2>7. QED
    BY <2>1, <2>5, <2>6 DEF OneLine, ByteSeq
<1>3. QED
  BY <1>1, <1>2

\* To add an element at the end of two sequences is to add it to the second.
AddsToSecond(s, t, e) == Append(s \o t, e) = s \o Append(t, e)

LEMMA JoinAppend ==
  ASSUME NEW S, NEW s \in Seq(S), NEW t \in Seq(S), NEW e \in S
  PROVE  AddsToSecond(s, t, e)
<1> DEFINE one == <<e>>
<1>1. one \in Seq(S)
  OBVIOUS
<1>2. s \o t \in Seq(S)
  BY ConcatProperties
<1>3. Append(s \o t, e) = (s \o t) \o one /\ Append(t, e) = t \o one
  BY <1>2, AppendIsConcat
<1> HIDE DEF one
<1>4. (s \o t) \o one = s \o (t \o one)
  BY <1>1, ConcatAssociative
<1>5. QED
  BY <1>3, <1>4 DEF AddsToSecond

\* One byte more is taken: the line grows by it, or ends with it.
LEMMA BareGrows ==
  ASSUME NEW took \in ByteSeq, NEW ls \in Seq(ByteSeq), NEW text \in ByteSeq, NEW b \in Byte,
         Bare(took) = Joined(ls) \o text
  PROVE  /\ b = NL => Bare(Append(took, b)) = Joined(Append(ls, text))
         /\ b # NL => Bare(Append(took, b)) = Joined(ls) \o LineAfter(text, b)
<1>1. Joined(ls) \in ByteSeq /\ Joined(Append(ls, text)) = Joined(ls) \o Append(text, NL)
  BY JoinedOfAppend
<1>2. Bare(Append(took, b)) = IF b = CR THEN Bare(took) ELSE Append(Bare(took), b)
  BY BareOfAppend
<1> DEFINE j == Joined(ls)
<1>3. Append(j \o text, b) = j \o Append(text, b)
  <2>1. j \in Seq(Byte) /\ text \in Seq(Byte) /\ b \in Byte
    BY <1>1 DEF ByteSeq
  <2> HIDE DEF j
  <2>2. AddsToSecond(j, text, b)
    BY <2>1, JoinAppend
  <2>3. QED
    BY <2>2 DEF AddsToSecond
<1>4. CASE b = NL
  BY <1>1, <1>2, <1>3, <1>4, BytesAssumption
<1>5. CASE b # NL
  BY <1>1, <1>2, <1>3, <1>5 DEF LineAfter
<1>6. QED
  BY <1>4, <1>5

\* The last line ends with the stream.
LEMMA BareEnds ==
  ASSUME NEW took \in ByteSeq, NEW ls \in Seq(ByteSeq), NEW text \in ByteSeq,
         Bare(took) = Joined(ls) \o text
  PROVE  Append(Bare(took), NL) = Joined(Append(ls, text)) /\ Append(ls, text) # <<>>
<1>1. Joined(ls) \in ByteSeq /\ Joined(Append(ls, text)) = Joined(ls) \o Append(text, NL)
  BY JoinedOfAppend
<1> DEFINE j == Joined(ls)
<1>2. Append(j \o text, NL) = j \o Append(text, NL)
  <2>1. j \in Seq(Byte) /\ text \in Seq(Byte) /\ NL \in Byte
    BY <1>1, BytesAndTexts DEF ByteSeq
  <2> HIDE DEF j
  <2>2. AddsToSecond(j, text, NL)
    BY <2>1, JoinAppend
  <2>3. QED
    BY <2>2 DEF AddsToSecond
<1>3. Len(Append(ls, text)) = Len(ls) + 1 /\ Len(ls) \in Nat
  BY AppendProperties
<1>4. Append(ls, text) # <<>>
  BY <1>3
<1>5. QED
  BY <1>1, <1>2, <1>4

\* What a read line adds to the lines of a stream holds no \n.
LEMMA LinesAppend ==
  ASSUME NEW ls \in Seq(ByteSeq), \A i \in 1..Len(ls) : OneLine(ls[i]),
         NEW text \in ByteSeq, OneLine(text)
  PROVE  Append(ls, text) \in Seq(ByteSeq)
         /\ \A i \in 1..Len(Append(ls, text)) : OneLine(Append(ls, text)[i])
<1> DEFINE new == Append(ls, text)
<1>1. /\ new \in Seq(ByteSeq) /\ Len(new) = Len(ls) + 1 /\ new[Len(ls) + 1] = text
      /\ \A i \in 1..Len(ls) : new[i] = ls[i]
  BY AppendProperties
<1>2. Len(ls) \in Nat
  OBVIOUS
<1> HIDE DEF new
<1>3. \A i \in 1..Len(new) : i \in 1..Len(ls) \/ i = Len(ls) + 1
  BY <1>1, <1>2
<1>4. \A i \in 1..Len(new) : OneLine(new[i])
  BY <1>1, <1>3
<1>5. QED
  BY <1>1, <1>4 DEF new

\* One process reads some of a line from one stream.
LEMMA LineRead ==
  ASSUME IInv, Typed, Wire, Lines, UNCHANGED <<desc, st>>, Len(stream') = Len(stream),
         NEW p \in Procs, call[p].op = "line", NEW s \in 1..Len(stream), ReadsStream(call[p], s),
         NEW e \in History, hist' = [hist EXCEPT ![s] = e],
         e.by = hist[s].by \cup {p}, e.mixed = hist[s].mixed,
         e.lines \in {hist[s].lines, Append(hist[s].lines, call[p].text)},
         \A x \in 1..Len(stream) : x # s => stream'[x] = stream[x],
         \A q \in Procs : q # p => call'[q] = call[q],
         ReaderKnown(p)', \A x \in 1..Len(stream) : x # s => ~InLine(p, x)',
         OnlyReader(p, s) => LinesHold(p, s)'
  PROVE  Lines'
<1>0. DescsGrow /\ HeldShrinks /\ Len(desc) \in Nat /\ Len(desc') \in Nat /\ Len(stream) \in Nat
  BY LensAreNat DEF Wire
<1>1. /\ Len(hist) = Len(stream) /\ hist' \in Seq(History) /\ hist'[s] = e
      /\ \A x \in 1..Len(stream) : x # s => hist'[x] = hist[x]
      /\ hist[s] \in History
  <2>1. Len(hist) = Len(stream) /\ hist \in Seq(History)
    BY DEF Typed, HistTyped, Lines
  <2>2. s \in 1..Len(hist)
    BY <2>1
  <2>3. QED
    BY <2>1, <2>2, HistoryAt
<1>2. call[p].text \in ByteSeq /\ OneLine(call[p].text)
  BY CallParts DEF Lines, ReaderKnown
<1>3. LinesKnown'
  <2> SUFFICES ASSUME NEW x \in 1..Len(stream), NEW i \in 1..Len(hist'[x].lines)
               PROVE  OneLine(hist'[x].lines[i])
    BY DEF LinesKnown, OneLine
  <2>1. \A j \in 1..Len(hist[x].lines) : OneLine(hist[x].lines[j])
    BY DEF Lines, LinesKnown
  <2>2. CASE x # s
    BY <1>1, <2>1, <2>2
  <2>3. CASE x = s /\ e.lines = hist[s].lines
    BY <1>1, <2>1, <2>3
  <2>4. CASE x = s /\ e.lines = Append(hist[s].lines, call[p].text)
    <3>1. hist[s].lines \in Seq(ByteSeq)
      BY <1>1 DEF History
    <3>2. \A j \in 1..Len(e.lines) : OneLine(e.lines[j])
      BY <1>2, <2>1, <2>4, <3>1, LinesAppend
    <3>3. hist'[x].lines = e.lines
      BY <1>1, <2>4
    <3>4. QED
      BY <3>2, <3>3
  <2>5. QED
    BY <2>2, <2>3, <2>4
<1>4. ASSUME NEW q \in Procs
      PROVE  ReaderKnown(q)'
  <2>1. CASE q = p
    BY <2>1
  <2>2. CASE q # p
    <3>1. \A x \in 1..Len(stream) :
            hist[x].by \subseteq hist'[x].by /\ (hist[x].mixed => hist'[x].mixed)
      BY <1>1
    <3>2. ReaderKnown(q) /\ call'[q] = call[q]
      BY <2>2 DEF Lines
    <3>3. QED
      BY <1>0, <3>1, <3>2, ReaderGoesOn
  <2>3. QED
    BY <2>1, <2>2
<1>5. ASSUME NEW x \in 1..Len(stream), NEW q \in Procs, OnlyReader(q, x)'
      PROVE  LinesHold(q, x)'
  <2>1. CASE x = s
    <3>1. p \in hist'[s].by /\ hist'[s].by \subseteq {q}
      BY <1>1, <1>5, <2>1 DEF OnlyReader
    <3>2. q = p
      BY <3>1
    <3>3. OnlyReader(p, s)
      BY <1>1, <1>5, <2>1, <3>2 DEF OnlyReader
    <3>4. QED
      BY <2>1, <3>2, <3>3
  <2>2. CASE x # s
    <3>1. hist'[x] = hist[x] /\ stream'[x] = stream[x] /\ OnlyReader(q, x)
      BY <1>1, <1>5, <2>2 DEF OnlyReader
    <3>2. LinesHold(q, x)
      BY <3>1 DEF Lines, LinesKept
    <3>3. Ended(x) => Ended(x)'
      BY <1>0, <3>1, WritersShrink DEF Ended
    <3>4. CASE q # p
      <4>1. InLine(q, x)' <=> InLine(q, x)
        BY <1>0, <3>4, SameInLine
      <4>2. QED
        BY <3>1, <3>2, <3>3, <3>4, <4>1 DEF LinesHold
    <3>5. CASE q = p
      <4>1. ~InLine(q, x) /\ ~InLine(q, x)'
        BY <2>2, <3>5 DEF InLine, ReadsStream
      <4>2. QED
        BY <3>1, <3>2, <3>3, <4>1 DEF LinesHold
    <3>6. QED
      BY <3>4, <3>5
  <2>3. QED
    BY <2>1, <2>2
<1>6. LinesKept'
  BY <1>5 DEF LinesKept
<1>7. QED
  BY <1>1, <1>3, <1>4, <1>6 DEF Lines

\* A reader that has read nothing yet holds nothing.
LEMMA InTheMaking ==
  ASSUME Lines, NEW p \in Procs, call[p].op = "line", NEW s \in 1..Len(stream),
         hist[s] \in History,
         ReadsStream(call[p], s), OnlyReader(p, s), ~Ended(s)
  PROVE  Bare(hist[s].took) = Joined(hist[s].lines) \o call[p].text
<1>1. LinesHold(p, s)
  BY DEF Lines, LinesKept
<1>2. CASE call[p].got
  BY <1>1, <1>2 DEF LinesHold, InLine
<1>3. CASE ~call[p].got
  <2>1. call[p].text = <<>> /\ Bare(hist[s].took) = Joined(hist[s].lines)
    BY <1>1, <1>3 DEF LinesHold, InLine, Lines, ReaderKnown
  <2>2. Joined(hist[s].lines) \in ByteSeq
    BY BytesAndTexts, JoinedOfAppend DEF History
  <2> DEFINE j == Joined(hist[s].lines)
  <2>3. j \o <<>> = j
    <3> HIDE DEF j
    <3>1. j \in Seq(Byte)
      BY <2>2 DEF ByteSeq, j
    <3>2. QED
      BY <3>1, ConcatEmptySeq
  <2>4. QED
    BY <2>1, <2>3
<1>4. QED
  BY <1>2, <1>3

\* The first byte of what a stream holds.
LEMMA FirstByte ==
  ASSUME NEW bytes \in ByteSeq, bytes # <<>>, NEW took \in ByteSeq
  PROVE  /\ Head(bytes) \in Byte /\ Append(took, Head(bytes)) \in ByteSeq
         /\ took \o SubSeq(bytes, 1, 1) = Append(took, Head(bytes))
<1> DEFINE b == Head(bytes)
           one == SubSeq(bytes, 1, 1)
<1>1. b \in Byte /\ Len(bytes) \in Nat /\ 1 <= Len(bytes) /\ b = bytes[1]
  BY SomeRead DEF ByteSeq
<1>2. one = <<b>>
  <2>1. one \in Seq(Byte) /\ Len(one) = 1 /\ one[1] = bytes[1]
    BY <1>1, PartOfSeq DEF ByteSeq
  <2>2. <<b>> \in Seq(Byte) /\ Len(<<b>>) = 1 /\ <<b>>[1] = b
    BY <1>1
  <2> HIDE DEF one, b
  <2>3. QED
    BY <1>1, <2>1, <2>2, SeqEqual
<1> HIDE DEF b, one
<1>3. Append(took, b) = took \o <<b>> /\ Append(took, b) \in ByteSeq
  BY <1>1, AppendIsConcat, AppendProperties DEF ByteSeq
<1>4. QED
  BY <1>1, <1>2, <1>3 DEF b, one

LEMMA ByteLines ==
  ASSUME IInv, Typed, Typed', Wire, Lines, NEW p \in Procs, ReadLineByte(p),
         NEW s, ReadsStream(call[p], s)
  PROVE  Lines'
<1> DEFINE c == call[p]
           d == c.d
           b == Head(Avail(d))
           ended == b = NL
           on == [c EXCEPT !.text = LineAfter(c.text, b), !.got = TRUE]
           took == Append(hist[s].took, b)
           lines == IF ended THEN Append(hist[s].lines, c.text) ELSE hist[s].lines
           e == [took |-> took, by |-> hist[s].by \cup {p}, lines |-> lines,
                 mixed |-> hist[s].mixed]
<1>1. /\ c.op = "line" /\ Avail(d) # <<>>
      /\ IF ended THEN Reads(p, d, 1, <<c.text>>) /\ Becomes(p, Idle)
                  ELSE Reads(p, d, 1, <<>>) /\ Becomes(p, on)
      /\ UNCHANGED <<st, desc>>
  BY DEF ReadLineByte
<1>2. /\ c \in [op : {"line"}, d : 1..Len(desc), text : ByteSeq, got : BOOLEAN]
      /\ OneLine(c.text)
  BY <1>1, CallParts DEF Lines, ReaderKnown
<1>3. desc[d].kind = "stream" /\ desc[d].rx = s /\ s # 0
  BY <1>1 DEF Avail, ReadsStream
<1>4. /\ s \in 1..Len(stream) /\ Len(hist) = Len(stream) /\ hist[s] \in History
      /\ Avail(d) = stream[s] /\ stream[s] \in ByteSeq
  BY <1>2, <1>3, ReadingEnd
<1>5. hist[s].took \in ByteSeq /\ hist[s].lines \in Seq(ByteSeq)
  BY <1>4 DEF History
<1>6. /\ b \in Byte /\ took \in ByteSeq
      /\ hist[s].took \o SubSeq(Avail(d), 1, 1) = took
  BY <1>1, <1>4, <1>5, FirstByte
<1>7. Len(stream') = Len(stream)
  BY <1>1, ReadsStay
<1>8. hist' = [hist EXCEPT ![s] = e]
  <2> DEFINE took2 == hist[s].took \o SubSeq(Avail(d), 1, 1)
             e2(whole) == [took |-> took2, by |-> hist[s].by \cup {p},
                           lines |-> IF whole = <<>> THEN hist[s].lines
                                     ELSE Append(hist[s].lines, whole[1]),
                           mixed |-> hist[s].mixed]
  <2>1. CASE ended
    <3>1. hist' = [hist EXCEPT ![s] = e2(<<c.text>>)]
      BY <1>1, <1>3, <2>1 DEF Reads
    <3>2. <<c.text>> # <<>> /\ <<c.text>>[1] = c.text
      OBVIOUS
    <3>3. took2 = took
      BY <1>6
    <3> HIDE DEF took, took2, ended
    <3>4. QED
      BY <2>1, <3>1, <3>2, <3>3
  <2>2. CASE ~ended
    <3>1. hist' = [hist EXCEPT ![s] = e2(<<>>)]
      BY <1>1, <1>3, <2>2 DEF Reads
    <3>2. took2 = took
      BY <1>6
    <3> HIDE DEF took, took2, ended
    <3>3. QED
      BY <2>2, <3>1, <3>2
  <2>3. QED
    BY <2>1, <2>2
<1>9. \A x \in 1..Len(stream) : x # s => stream'[x] = stream[x]
  <2> DEFINE rest == SubSeq(stream[s], 2, Len(stream[s]))
  <2>1. stream' = [stream EXCEPT ![s] = SubSeq(@, 1 + 1, Len(@))]
    BY <1>1, <1>3 DEF Reads, Consume
  <2>2. stream' = [stream EXCEPT ![s] = rest]
    BY <2>1
  <2> HIDE DEF rest
  <2>3. stream \in Seq(ByteSeq)
    BY DEF Typed, FilesTyped
  <2>4. QED
    BY <2>2, <2>3
<1> HIDE DEF took, b
<1>10. lines \in Seq(ByteSeq) /\ lines \in {hist[s].lines, Append(hist[s].lines, c.text)}
  BY <1>2, <1>5, AppendProperties
<1>11. e \in History
  <2>1. hist[s].by \cup {p} \in ReaderSets /\ hist[s].mixed \in BOOLEAN
    BY <1>4, ReaderAdded DEF History
  <2> HIDE DEF lines
  <2>2. QED
    BY <1>6, <1>10, <2>1 DEF History
<1>12. e.took = took /\ e.by = hist[s].by \cup {p} /\ e.lines = lines /\ e.mixed = hist[s].mixed
  OBVIOUS
<1> HIDE DEF e
<1>13. hist'[s] = e
  <2>1. hist \in Seq(History) /\ s \in 1..Len(hist)
    BY <1>4 DEF Lines
  <2>2. QED
    BY <1>8, <1>11, <2>1, HistoryAt
<1>14. /\ \A q \in Procs : q # p => call'[q] = call[q]
       /\ call'[p] = IF ended THEN Idle ELSE on
  BY <1>1 DEF Becomes, Typed, CallsTyped
<1>15. /\ on.op = "line" /\ on.d = d /\ on.text = LineAfter(c.text, b) /\ on.got = TRUE
  <2> DEFINE text == LineAfter(c.text, b)
  <2> HIDE DEF text
  <2>1. QED
    BY <1>1, <1>2 DEF text
<1>16. ~ended => OneLine(LineAfter(c.text, b))
  BY <1>2, <1>6, LineGrows
<1> HIDE DEF on
<1>17. ReaderKnown(p)'
  <2>1. CASE ended
    BY <1>14, <2>1, IdleNeedsNothing DEF ReaderKnown
  <2>2. CASE ~ended
    <3>1. /\ call'[p].op = "line" /\ call'[p].d = d /\ call'[p].got
          /\ call'[p].text = LineAfter(c.text, b) /\ OneLine(call'[p].text)
      BY <1>14, <1>15, <1>16, <2>2
    <3>2. \A x \in 1..Len(stream') : desc'[d].rx = x => p \in hist'[x].by
      BY <1>1, <1>3, <1>12, <1>13
    <3>3. QED
      BY <3>1, <3>2 DEF ReaderKnown, ReadsStream, OneLine
  <2>3. QED
    BY <2>1, <2>2
<1>18. \A x \in 1..Len(stream) : x # s => ~InLine(p, x)'
  <2>1. CASE ended
    BY <1>14, <2>1, IdleNeedsNothing DEF InLine
  <2>2. CASE ~ended
    BY <1>1, <1>14, <1>15, <2>2 DEF InLine, ReadsStream
  <2>3. QED
    BY <2>1, <2>2
<1>19. ReadsStream(c, s)
  BY <1>3 DEF ReadsStream
<1>20. ASSUME OnlyReader(p, s)
       PROVE  LinesHold(p, s)'
  <2>1. ~Ended(s)
    BY <1>1, <1>4 DEF Ended
  <2>2. Bare(hist[s].took) = Joined(hist[s].lines) \o c.text
    BY <1>1, <1>4, <1>19, <1>20, <2>1, InTheMaking
  <2>3. /\ ended => Bare(took) = Joined(Append(hist[s].lines, c.text))
        /\ ~ended => Bare(took) = Joined(hist[s].lines) \o LineAfter(c.text, b)
    <3> DEFINE k == hist[s].took
               ls == hist[s].lines
               text == c.text
    <3>1. /\ k \in ByteSeq /\ ls \in Seq(ByteSeq) /\ text \in ByteSeq /\ b \in Byte
          /\ Bare(k) = Joined(ls) \o text /\ took = Append(k, b)
      BY <1>2, <1>5, <1>6, <2>2 DEF took
    <3> HIDE DEF k, ls, text
    <3>2. /\ b = NL => Bare(Append(k, b)) = Joined(Append(ls, text))
          /\ b # NL => Bare(Append(k, b)) = Joined(ls) \o LineAfter(text, b)
      BY <3>1, BareGrows
    <3>3. QED
      BY <3>1, <3>2 DEF k, ls, text
  <2>4. CASE ended
    <3>1. ~InLine(p, s)'
      BY <1>14, <2>4, IdleNeedsNothing DEF InLine
    <3>2. Bare(hist'[s].took) = Joined(hist'[s].lines)
      BY <1>12, <1>13, <2>3, <2>4
    <3>3. QED
      BY <3>1, <3>2 DEF LinesHold
  <2>5. CASE ~ended
    <3>1. InLine(p, s)'
      BY <1>1, <1>3, <1>14, <1>15, <2>5 DEF InLine, ReadsStream
    <3>2. Bare(hist'[s].took) = Joined(hist'[s].lines) \o call'[p].text
      BY <1>12, <1>13, <1>14, <1>15, <2>3, <2>5
    <3>3. QED
      BY <3>1, <3>2 DEF LinesHold
  <2>6. QED
    BY <2>4, <2>5
<1> HIDE DEF lines, ended, c
<1>21. QED
  BY <1>1, <1>4, <1>7, <1>8, <1>9, <1>10, <1>11, <1>12, <1>14, <1>17, <1>18, <1>19, <1>20,
     LineRead DEF c

LEMMA EndLines ==
  ASSUME IInv, Typed, Typed', Wire, Lines, NEW p \in Procs, ReadLineEnd(p), call[p].got,
         NEW s, s # 0, ReadsStream(call[p], s)
  PROVE  Lines'
<1> DEFINE c == call[p]
           d == c.d
           lines == Append(hist[s].lines, c.text)
           e == [hist[s] EXCEPT !.lines = lines]
<1>0. desc[d].kind = "stream" /\ desc[d].rx = s
  BY DEF ReadsStream
<1>1. /\ c.op = "line" /\ AtEnd(d) /\ Becomes(p, Idle) /\ UNCHANGED kernelVars
      /\ hist' = [hist EXCEPT ![s].lines = Append(@, c.text)]
  BY <1>0 DEF ReadLineEnd
<1>2. /\ c \in [op : {"line"}, d : 1..Len(desc), text : ByteSeq, got : BOOLEAN]
      /\ OneLine(c.text)
  BY <1>1, CallParts DEF Lines, ReaderKnown
<1>4. /\ s \in 1..Len(stream) /\ Len(hist) = Len(stream) /\ hist[s] \in History
      /\ Avail(d) = stream[s] /\ stream[s] \in ByteSeq
  BY <1>0, <1>2, ReadingEnd
<1>5. hist[s].took \in ByteSeq /\ hist[s].lines \in Seq(ByteSeq)
  BY <1>4 DEF History
<1>6. stream[s] = <<>> /\ ~Writers(s)
  BY <1>0, <1>1, <1>4 DEF AtEnd
<1>7. ReadsStream(c, s)
  BY DEF ReadsStream
<1>8. p \in hist[s].by
  BY <1>1, <1>4, <1>7 DEF Lines, ReaderKnown
<1>9. lines \in Seq(ByteSeq)
  BY <1>2, <1>5, AppendProperties
<1>10. hist' = [hist EXCEPT ![s] = e]
  <2>1. hist' = [hist EXCEPT ![s].lines = lines]
    BY <1>1
  <2> HIDE DEF lines
  <2>2. QED
    BY <2>1
<1> HIDE DEF lines
<1>11. /\ e \in History /\ e.took = hist[s].took /\ e.lines = lines
       /\ e.by = hist[s].by /\ e.mixed = hist[s].mixed
  BY <1>4, <1>9 DEF History
<1>12. e.by = hist[s].by \cup {p}
  BY <1>8, <1>11
<1> HIDE DEF e
<1>13. hist'[s] = e
  <2>1. hist \in Seq(History) /\ s \in 1..Len(hist)
    BY <1>4 DEF Lines
  <2>2. QED
    BY <1>10, <1>11, <2>1, HistoryAt
<1>14. /\ \A q \in Procs : q # p => call'[q] = call[q]
       /\ call'[p] = Idle
  BY <1>1 DEF Becomes, Typed, CallsTyped
<1>15. ReaderKnown(p)' /\ \A x : ~InLine(p, x)'
  BY <1>14, IdleNeedsNothing DEF ReaderKnown, InLine
<1>16. ASSUME OnlyReader(p, s)
       PROVE  LinesHold(p, s)'
  <2>1. InLine(p, s)
    BY <1>1, <1>7 DEF InLine
  <2>2. Bare(hist[s].took) = Joined(hist[s].lines) \o c.text
    BY <1>4, <1>16, <2>1 DEF Lines, LinesKept, LinesHold
  <2>3. Append(Bare(hist[s].took), NL) = Joined(lines) /\ lines # <<>>
    BY <1>2, <1>5, <2>2, BareEnds DEF lines
  <2>4. ~Writers(s)'
    BY <1>1, <1>6 DEF Writers, Held, HeldBy, Running, kernelVars
  <2>5. stream'[s] = <<>>
    BY <1>1, <1>6 DEF kernelVars
  <2>6. Ended(s)'
    BY <1>11, <1>13, <2>3, <2>4, <2>5 DEF Ended
  <2>7. QED
    BY <1>15, <2>6 DEF LinesHold
<1>17. /\ UNCHANGED <<desc, st, stream>> /\ Len(stream') = Len(stream)
       /\ \A x \in 1..Len(stream) : x # s => stream'[x] = stream[x]
       /\ e.lines \in {hist[s].lines, Append(hist[s].lines, c.text)}
  BY <1>1, <1>11 DEF kernelVars, lines
<1>18. QED
  BY <1>1, <1>4, <1>7, <1>10, <1>11, <1>12, <1>14, <1>15, <1>16, <1>17, LineRead

\* Steps that leave streams and what was read of them alone.
LEMMA LinesSame ==
  ASSUME IInv, Typed, Typed', Wire, Lines, UNCHANGED <<stream, hist>>,
         \A q \in Procs : ReaderStays(q) /\ (st[q] = "gone" => st'[q] = "gone"),
         Len(desc') \in Nat
  PROVE  Lines'
<1>1. hist' \in Seq(History) /\ \A s \in 1..Len(stream) : StreamStays(s)
  BY DEF Lines, StreamStays
<1>2. QED
  BY <1>1, QuietLines

\* One process goes from one call to another, neither about lines.
LEMMA ReadersSame ==
  ASSUME Typed, NEW p \in Procs, \A q \in Procs : q # p => call'[q] = call[q],
         call'[p] = call[p] \/ ReaderStays(p), UNCHANGED st
  PROVE  \A q \in Procs : ReaderStays(q) /\ (st[q] = "gone" => st'[q] = "gone")
BY DEF ReaderStays

LEMMA NoReader ==
  ASSUME NEW p, call[p].op # "line", call'[p].op \notin {"line", "buffer"}
  PROVE  ReaderStays(p)
BY DEF ReaderStays, ReaderKnown, InLine

\* The file operations that are no reads of streams, by what they change.
LEMMA FileLines ==
  ASSUME IInv, Typed, Typed', Wire, Lines, NEW p \in Procs, FileStep(p), Len(desc') \in Nat,
         UNCHANGED <<stream, hist>>, ~\E h, size, wait : BeginReadBuffer(p, h, size, wait)
  PROVE  Lines'
<1>1. UNCHANGED st /\ \A q \in Procs : q # p => call'[q] = call[q]
  BY FileCallProcesses, FileCallsOnly
<1>2. call' = call \/ (call[p] = Idle /\ (call'[p].op \notin {"line", "buffer"}
        \/ \E h : BeginReadLine(p, h)))
  <2>1. DOMAIN call = Procs
    BY DEF Typed, CallsTyped
  <2>2. ASSUME NEW c, Becomes(p, c), c.op \notin {"line", "buffer"}
        PROVE  call'[p].op \notin {"line", "buffer"}
    BY <2>1, <2>2 DEF Becomes
  <2>3. ASSUME NEW path, NEW mode, Open(p, path, mode)
        PROVE  call' = call
    BY <2>3 DEF Open
  <2>4. ASSUME NEW h, \/ CloseHandle(p, h) \/ \E to \in -1..1 : Seek(p, h, to)
        PROVE  call' = call
    BY <2>4 DEF CloseHandle, Seek
  <2>5. ASSUME NEW h, BeginReadLine(p, h)
        PROVE  call[p] = Idle
    BY <2>5, BeginFacts DEF BeginReadLine
  <2>6. ASSUME NEW h, NEW text, BeginWrite(p, h, text)
        PROVE  call[p] = Idle /\ call'[p].op \notin {"line", "buffer"}
    BY <2>2, <2>6, BeginFacts DEF BeginWrite
  <2>7. ASSUME NEW h, BeginWriteCurrent(p, h)
        PROVE  call[p] = Idle /\ call'[p].op \notin {"line", "buffer"}
    BY <2>2, <2>7, BeginFacts DEF BeginWriteCurrent
  <2>8. ASSUME NEW h, BeginAccept(p, h)
        PROVE  call[p] = Idle /\ call'[p].op \notin {"line", "buffer"}
    BY <2>2, <2>8, BeginFacts DEF BeginAccept
  <2>9. ASSUME NEW path, NEW mode, NEW text, BeginWriteWhole(p, path, mode, text)
        PROVE  call[p] = Idle /\ call'[p].op \notin {"line", "buffer"}
    BY <2>2, <2>9, BeginFacts DEF BeginWriteWhole
  <2>10. ASSUME NEW x, NEW y, \/ DeleteFile(p, x) \/ RenameFile(p, x, y) \/ Pipe(p)
                              \/ Listen(p, x) \/ Connect(p, x)
         PROVE  call' = call
    BY <2>10 DEF DeleteFile, RenameFile, Pipe, Listen, Connect
  <2>11. ASSUME NEW text, BeginExec(p, text)
         PROVE  call[p] = Idle /\ call'[p].op \notin {"line", "buffer"}
    BY <2>2, <2>11, BeginFacts DEF BeginExec
  <2>12. QED
    BY <2>3, <2>4, <2>5, <2>6, <2>7, <2>8, <2>9, <2>10, <2>11 DEF FileStep
<1>3. CASE call' = call
  BY <1>1, <1>3, LinesSame, ReadersSame
<1>4. CASE call[p] = Idle /\ call'[p].op \notin {"line", "buffer"}
  <2>1. ReaderStays(p)
    BY <1>4, NoReader, IdleNeedsNothing
  <2>2. QED
    BY <1>1, <2>1, LinesSame, ReadersSame
<1>5. ASSUME NEW h, BeginReadLine(p, h), call[p] = Idle
      PROVE  Lines'
  <2>1. DOMAIN call = Procs
    BY DEF Typed, CallsTyped
  <2>2. call'[p].op = "line" /\ call'[p].text = <<>> /\ ~call'[p].got
    BY <1>5, <2>1 DEF BeginReadLine, Becomes
  <2>3. OneLine(<<>>)
    BY DEF OneLine, ToSet
  <2>4. ReaderStays(p)
    BY <1>5, <2>2, <2>3, IdleNeedsNothing DEF ReaderStays, ReaderKnown, InLine, OneLine
  <2>5. QED
    BY <1>1, <2>4, LinesSame, ReadersSame
<1>6. QED
  BY <1>2, <1>3, <1>4, <1>5

\* New streams have nothing read.
LEMMA OpeningLines ==
  ASSUME IInv, Typed, Typed', Wire, Lines, NEW n \in Nat, NewStreams(n), UNCHANGED <<call, st>>,
         Len(desc') \in Nat
  PROVE  Lines'
<1> DEFINE more == [i \in 1..n |-> NoHistory]
           none == [i \in 1..n |-> <<>>]
           m == Len(stream)
           H == History
<1>1. /\ stream' = stream \o none /\ hist' = hist \o more
      /\ stream \in Seq(ByteSeq) /\ hist \in Seq(H) /\ Len(hist) = m /\ m \in Nat
  BY LensAreNat DEF NewStreams, NoHistory, Typed, FilesTyped, HistTyped, Lines
<1>2. none \in Seq(ByteSeq) /\ Len(none) = n
  BY BytesAndTexts
<1>3. more \in Seq(H) /\ Len(more) = n /\ \A i \in 1..n : more[i] = NoHistory
  <2>1. NoHistory \in H
    BY BytesAndTexts, FS_EmptySet DEF NoHistory, History, ReaderSets
  <2> HIDE DEF H
  <2>2. QED
    BY <2>1
<1> HIDE DEF more, none, H
<1>4. /\ Len(stream') = m + n /\ Len(hist') = m + n /\ hist' \in Seq(H)
      /\ \A s \in 1..m + n : stream'[s] = IF s <= m THEN stream[s] ELSE none[s - m]
      /\ \A s \in 1..m + n : hist'[s] = IF s <= m THEN hist[s] ELSE more[s - m]
  <2>1. /\ Len(stream \o none) = m + n
        /\ \A s \in 1..m + n : (stream \o none)[s] = IF s <= m THEN stream[s] ELSE none[s - m]
    BY <1>1, <1>2, ConcatProperties
  <2> DEFINE k == Len(hist)
  <2>2. /\ Len(hist \o more) = k + n /\ hist \o more \in Seq(H)
        /\ \A s \in 1..k + n : (hist \o more)[s] = IF s <= k THEN hist[s] ELSE more[s - k]
    BY <1>1, <1>3, ConcatProperties
  <2>3. k = m
    BY <1>1
  <2> HIDE DEF k, m
  <2>4. QED
    BY <1>1, <2>1, <2>2, <2>3
<1>5. ASSUME NEW s \in 1..m
      PROVE  StreamStays(s)
  <2>1. s \in 1..m + n /\ s <= m
    BY <1>1
  <2>2. hist'[s] = hist[s] /\ stream'[s] = stream[s]
    BY <1>4, <2>1
  <2>3. QED
    BY <2>2 DEF StreamStays
<1>6. ASSUME NEW s \in 1..Len(stream'), s \notin 1..m
      PROVE  hist'[s] = NoHistory
  <2>1. s \in 1..m + n /\ ~ (s <= m) /\ s - m \in 1..n
    BY <1>1, <1>4, <1>6
  <2>2. QED
    BY <1>3, <1>4, <2>1
<1>7. \A q \in Procs : ReaderStays(q) /\ (st[q] = "gone" => st'[q] = "gone")
  BY DEF ReaderStays
<1>8. hist' \in Seq(History)
  BY <1>4 DEF H
<1>9. QED
  BY <1>5, <1>6, <1>7, <1>8, QuietLines

\* A reader of whole buffers mixes up the lines.
LEMMA BeginBufferLines ==
  ASSUME IInv, Typed, Typed', Wire, Lines, NEW p \in Procs, NEW h, NEW size, NEW wait,
         BeginReadBuffer(p, h, size, wait)
  PROVE  Lines'
<1> DEFINE d == FileAt(table[p], h)
           c == [op |-> "buffer", d |-> d, size |-> size, wait |-> wait, text |-> <<>>]
           s == desc[d].rx
           e == [hist[s] EXCEPT !.mixed = TRUE]
<1>1. /\ call[p] = Idle /\ d # NoFile /\ Becomes(p, c) /\ UNCHANGED <<st, desc, stream>>
      /\ hist' = IF desc[d].kind = "stream" /\ desc[d].rx # 0
                   THEN [hist EXCEPT ![s].mixed = TRUE] ELSE hist
  BY BeginFacts DEF BeginReadBuffer, kernelVars
<1>2. d \in 1..Len(desc) /\ Len(desc) \in Nat /\ Len(desc') \in Nat
  BY <1>1, FileAtIsFile, LensAreNat
<1>3. /\ \A q \in Procs : q # p => call'[q] = call[q]
      /\ call'[p].op = "buffer" /\ call'[p].d = d
  BY <1>1 DEF Becomes, Typed, CallsTyped
<1>4. hist \in Seq(History) /\ Len(hist) = Len(stream) /\ Len(stream) \in Nat
  BY LensAreNat DEF Lines, Typed, HistTyped
<1> HIDE DEF c, d
<1>5. CASE ~ (desc[d].kind = "stream" /\ desc[d].rx # 0)
  <2>1. hist' = hist
    BY <1>1, <1>5
  <2>2. ReaderKnown(p)'
    BY <1>1, <1>3, <1>5 DEF ReaderKnown, ReadsStream
  <2>3. ReaderStays(p)
    BY <1>1, <1>3, <2>2, IdleNeedsNothing DEF ReaderStays, InLine
  <2>4. QED
    BY <1>1, <1>2, <1>3, <2>1, <2>3, LinesSame, ReadersSame
<1>6. CASE desc[d].kind = "stream" /\ desc[d].rx # 0
  <2>1. s \in 1..Len(hist) /\ hist[s] \in History
    BY <1>2, <1>4, <1>6, ReadingEnd
  <2>2. hist' = [hist EXCEPT ![s] = e]
    <3>1. hist' = [hist EXCEPT ![s].mixed = TRUE]
      BY <1>1, <1>6
    <3> HIDE DEF s
    <3>2. QED
      BY <3>1
  <2>3. /\ e \in History /\ e.by = hist[s].by /\ e.lines = hist[s].lines /\ e.mixed
    BY <2>1 DEF History
  <2> HIDE DEF e
  <2>4. /\ hist' \in Seq(History) /\ hist'[s] = e
        /\ \A x \in 1..Len(hist) : x # s => hist'[x] = hist[x]
    <3> HIDE DEF s
    <3>1. QED
      BY <1>4, <2>1, <2>2, <2>3, HistoryAt
  <2>5. \A x \in 1..Len(stream) : StreamStays(x)
    BY <1>1, <1>4, <2>3, <2>4 DEF StreamStays
  <2>6. ReaderKnown(p)'
    BY <1>1, <1>3, <2>3, <2>4 DEF ReaderKnown, ReadsStream
  <2>7. ReaderStays(p)
    BY <1>1, <1>3, <2>6, IdleNeedsNothing DEF ReaderStays, InLine
  <2>8. \A q \in Procs : ReaderStays(q) /\ (st[q] = "gone" => st'[q] = "gone")
    BY <1>1, <1>3, <2>7, ReadersSame
  <2>9. \A x \in 1..Len(stream') : x \notin 1..Len(stream) => hist'[x] = NoHistory
    BY <1>1
  <2>10. QED
    BY <1>2, <2>4, <2>5, <2>8, <2>9, QuietLines
<1>7. QED
  BY <1>5, <1>6

LEMMA BufferLines ==
  ASSUME IInv, Typed, Typed', Wire, Lines, NEW p \in Procs, ReadBufferStep(p)
  PROVE  Lines'
<1> DEFINE c == call[p]
           d == c.d
           s == desc[d].rx
           n == IF c.wait = <<>> THEN Min({c.size, Len(Avail(c.d))}) ELSE 1
           text == c.text \o SubSeq(Avail(c.d), 1, n)
           on == [c EXCEPT !.text = text]
           took == hist[s].took \o SubSeq(Avail(d), 1, n)
           e == [took |-> took, by |-> hist[s].by \cup {p}, lines |-> hist[s].lines,
                 mixed |-> hist[s].mixed]
<1>1. /\ c.op = "buffer" /\ Avail(d) # <<>> /\ Reads(p, d, n, <<>>) /\ UNCHANGED <<st, desc>>
      /\ Becomes(p, Idle) \/ Becomes(p, on)
  BY DEF ReadBufferStep, EndReadBuffer
<1>2. /\ c \in [op : {"buffer"}, d : 1..Len(desc), size : 1..3, wait : {<<>>, <<NL>>},
                text : ByteSeq]
      /\ Len(desc) \in Nat
  BY <1>1, CallParts, LensAreNat
<1>3. Avail(d) \in ByteSeq
  BY <1>2, AvailIsBytes
<1>4. n \in Nat /\ n <= Len(Avail(d))
  <2> DEFINE a == c.size
             b == Len(Avail(d))
  <2>1. a \in Nat /\ b \in Nat /\ 1 <= b
    BY <1>1, <1>2, <1>3, SomeRead
  <2>2. n = IF c.wait = <<>> THEN Min({a, b}) ELSE 1
    OBVIOUS
  <2> HIDE DEF a, b, n
  <2>3. Min({a, b}) \in {a, b} /\ Min({a, b}) <= b
    BY <2>1, MinOfTwo
  <2>4. QED
    BY <2>1, <2>2, <2>3 DEF b
<1> HIDE DEF n
<1>5. Len(stream') = Len(stream)
  BY <1>1, ReadsStay
<1>6. on.op = "buffer" /\ on.d = d
  <2> HIDE DEF text
  <2>1. QED
    BY <1>1, <1>2
<1> HIDE DEF on
<1>7. /\ \A q \in Procs : q # p => call'[q] = call[q]
      /\ call'[p] = Idle \/ call'[p] = on
  BY <1>1 DEF Becomes, Typed, CallsTyped
<1>8. call'[p].op # "line" /\ (call'[p].op = "buffer" => call'[p].d = d)
  BY <1>6, <1>7, IdleNeedsNothing
<1>9. CASE desc[d].kind = "file"
  <2>1. UNCHANGED <<stream, hist>>
    BY <1>1, <1>9 DEF Reads, Consume
  <2>2. ReaderKnown(p)'
    BY <1>1, <1>8, <1>9 DEF ReaderKnown, ReadsStream
  <2>3. ReaderStays(p)
    BY <1>1, <1>8, <2>2 DEF ReaderStays, InLine
  <2>4. QED
    BY <1>1, <1>2, <1>7, <2>1, <2>3, LinesSame, ReadersSame
<1>10. CASE desc[d].kind # "file"
  <2>1. desc[d].kind = "stream" /\ s # 0
    BY <1>1, <1>10 DEF Avail
  <2>2. /\ s \in 1..Len(hist) /\ s \in 1..Len(stream) /\ Len(hist) = Len(stream)
        /\ hist \in Seq(History) /\ hist[s] \in History
    BY <1>2, <2>1, ReadingEnd DEF Lines
  <2>3. hist[s].mixed
    BY <1>1, <2>1, <2>2 DEF Lines, ReaderKnown, ReadsStream
  <2>4. took \in ByteSeq
    <3> DEFINE more == SubSeq(Avail(d), 1, n)
               old == hist[s].took
    <3>1. more \in ByteSeq /\ old \in ByteSeq
      BY <1>3, <1>4, <2>2, TakenIsBytes DEF History
    <3> HIDE DEF more, old
    <3>2. old \o more \in ByteSeq
      BY <3>1, ConcatProperties DEF ByteSeq
    <3>3. QED
      BY <3>2 DEF more, old
  <2>5. hist' = [hist EXCEPT ![s] = e]
    <3> HIDE DEF took
    <3>1. QED
      BY <1>1, <1>10 DEF Reads, took
  <2> HIDE DEF took
  <2>6. e \in History /\ hist[s].by \subseteq e.by /\ e.lines = hist[s].lines /\ e.mixed
    <3>1. hist[s].by \cup {p} \in ReaderSets /\ hist[s].mixed \in BOOLEAN
      BY <2>2, ReaderAdded DEF History
    <3>2. QED
      BY <2>2, <2>3, <2>4, <3>1 DEF History
  <2> HIDE DEF e
  <2>7. /\ hist' \in Seq(History) /\ hist'[s] = e
        /\ \A x \in 1..Len(hist) : x # s => hist'[x] = hist[x]
    <3> HIDE DEF s
    <3>1. QED
      BY <2>2, <2>5, <2>6, HistoryAt
  <2>8. \A x \in 1..Len(stream) : x # s => stream'[x] = stream[x]
    <3> DEFINE rest == SubSeq(stream[s], n + 1, Len(stream[s]))
    <3>1. stream' = [stream EXCEPT ![s] = rest]
      BY <1>1, <1>10 DEF Reads, Consume
    <3> HIDE DEF rest, s
    <3>2. stream \in Seq(ByteSeq)
      BY DEF Typed, FilesTyped
    <3>3. QED
      BY <3>1, <3>2
  <2>9. \A x \in 1..Len(stream) : StreamStays(x)
    BY <2>2, <2>6, <2>7, <2>8 DEF StreamStays
  <2>10. ReaderKnown(p)'
    BY <1>1, <1>8, <2>6, <2>7 DEF ReaderKnown, ReadsStream
  <2>11. ReaderStays(p)
    BY <1>1, <1>8, <2>10 DEF ReaderStays, InLine
  <2>12. \A q \in Procs : ReaderStays(q) /\ (st[q] = "gone" => st'[q] = "gone")
    BY <1>1, <1>7, <2>11, ReadersSame
  <2>13. \A x \in 1..Len(stream') : x \notin 1..Len(stream) => hist'[x] = NoHistory
    BY <1>5
  <2>14. Len(desc') \in Nat
    BY <1>1, <1>2
  <2>15. QED
    BY <2>7, <2>9, <2>12, <2>13, <2>14, QuietLines
<1>11. QED
  BY <1>9, <1>10

\* Who writes to a stream holds an end to write to.
LEMMA WriteLines ==
  ASSUME IInv, Typed, Typed', HoldersKnown, Wire, Lines, NEW p \in Procs, WriteStep(p)
  PROVE  Lines'
<1> DEFINE c == call[p]
           d == c.d
           on(n) == [c EXCEPT !.rest = SubSeq(@, n + 1, Len(@))]
<1>1. /\ c \in [op : {"write"}, d : 1..Len(desc), rest : ByteSeq] /\ c.op = "write"
      /\ Len(desc) \in Nat
  BY CallParts, LensAreNat DEF WriteStep
<1>2. PICK n \in 0..Len(c.rest) :
        /\ Accepts(d, c.rest, n)
        /\ IF n = 0 THEN UNCHANGED <<pos, inode, stream>>
                    ELSE Deliver(d, SubSeq(c.rest, 1, n), Zero)
        /\ Becomes(p, IF n = 0 \/ n = Len(c.rest) THEN Idle ELSE on(n))
  BY DEF WriteStep
<1>3. UNCHANGED <<st, table, desc, backlog, name, port, line, buf, hist, left>>
  BY DEF WriteStep
<1>4. /\ \A q \in Procs : q # p => call'[q] = call[q]
      /\ call'[p].op \notin {"line", "buffer"}
  <2> DEFINE rest == SubSeq(c.rest, n + 1, Len(c.rest))
             go == [c EXCEPT !.rest = rest]
  <2>1. Becomes(p, Idle) \/ Becomes(p, go)
    BY <1>2
  <2> HIDE DEF rest
  <2>2. go.op = "write"
    BY <1>1
  <2> HIDE DEF go
  <2>3. QED
    BY <2>1, <2>2, IdleNeedsNothing DEF Becomes, Typed, CallsTyped
<1>5. \A s \in 1..Len(stream) : stream'[s] = stream[s] \/ Writers(s)
  <2>1. CASE n = 0 \/ desc[d].kind = "file"
    BY <1>2, <2>1 DEF Deliver
  <2>2. CASE n # 0 /\ desc[d].kind # "file"
    <3> DEFINE tx == desc[d].tx
               more == stream[tx] \o SubSeq(c.rest, 1, n)
    <3>1. desc[d].kind = "stream" /\ tx \in 1..Len(stream)
      BY <1>1, <1>2, <2>2, AcceptedFits
    <3>2. HeldBy(p, d)
      BY <1>1, <3>1 DEF HoldersKnown, NeedsFile
    <3>3. Writers(tx)
      BY <1>1, <3>1, <3>2 DEF Writers, Held
    <3>4. stream' = [stream EXCEPT ![tx] = more]
      BY <1>2, <2>2 DEF Deliver
    <3>5. stream \in Seq(ByteSeq)
      BY DEF Typed, FilesTyped
    <3> HIDE DEF tx, more
    <3>6. \A s \in 1..Len(stream) : s # tx => stream'[s] = stream[s]
      BY <3>4, <3>5
    <3>7. QED
      BY <3>3, <3>6
  <2>3. QED
    BY <2>1, <2>2
<1>6. \A s \in 1..Len(stream) : StreamStays(s)
  BY <1>3, <1>5 DEF StreamStays
<1>7. ReaderStays(p)
  BY <1>1, <1>4, NoReader
<1>8. \A q \in Procs : ReaderStays(q) /\ (st[q] = "gone" => st'[q] = "gone")
  BY <1>3, <1>4, <1>7, ReadersSame
<1>9. Len(stream') = Len(stream) /\ hist' \in Seq(History) /\ Len(desc') \in Nat
  BY <1>1, <1>3 DEF Lines, Typed, HistTyped
<1>10. \A x \in 1..Len(stream') : x \notin 1..Len(stream) => hist'[x] = NoHistory
  BY <1>9
<1>11. QED
  BY <1>6, <1>8, <1>9, <1>10, QuietLines

LEMMA FileStepLines ==
  ASSUME IInv, Typed, Typed', Wire, Lines, NEW p \in Procs, FileStep(p), Len(desc') \in Nat
  PROVE  Lines'
<1>1. CASE \E h, size, wait : BeginReadBuffer(p, h, size, wait)
  BY <1>1, BeginBufferLines
<1>2. CASE Pipe(p) \/ \E addr : Connect(p, addr)
  <2>1. \E n \in Nat : NewStreams(n)
    BY <1>2 DEF Pipe, Connect
  <2>2. UNCHANGED <<call, st>>
    BY <1>2 DEF Pipe, Connect
  <2>3. QED
    BY <2>1, <2>2, OpeningLines
<1>3. CASE /\ ~\E h, size, wait : BeginReadBuffer(p, h, size, wait)
           /\ ~Pipe(p) /\ ~\E addr : Connect(p, addr)
  <2>1. UNCHANGED <<stream, hist>>
    BY <1>3 DEF FileStep, Open, CloseHandle, Seek, BeginReadLine, BeginWrite,
         BeginWriteCurrent, BeginAccept, BeginWriteWhole, DeleteFile, RenameFile,
         Listen, BeginExec, kernelVars
  <2>2. QED
    BY <1>3, <2>1, FileLines
<1>4. QED
  BY <1>1, <1>2, <1>3

LEMMA CallStepLines ==
  ASSUME IInv, Typed, Typed', HoldersKnown, Wire, Lines, NEW p \in Procs, CallStep(p),
         Len(desc') \in Nat
  PROVE  Lines'
<1> DEFINE c == call[p]
<1>1. UNCHANGED st /\ \A q \in Procs : q # p => call'[q] = call[q]
  BY FileCallProcesses, FileCallsOnly
<1>2. DOMAIN call = Procs
  BY DEF Typed, CallsTyped
<1>3. ASSUME UNCHANGED <<stream, hist>>, ReaderStays(p)
      PROVE  Lines'
  BY <1>1, <1>3, LinesSame, ReadersSame
<1>4. CASE ReadLineByte(p)
  <2> DEFINE d == c.d
             b == Head(Avail(d))
             text == LineAfter(c.text, b)
             on == [c EXCEPT !.text = text, !.got = TRUE]
  <2>1. /\ c.op = "line" /\ Avail(d) # <<>> /\ UNCHANGED <<st, desc>>
        /\ IF b = NL THEN Reads(p, d, 1, <<c.text>>) /\ Becomes(p, Idle)
                     ELSE Reads(p, d, 1, <<>>) /\ Becomes(p, on)
    BY <1>4 DEF ReadLineByte
  <2>2. /\ c \in [op : {"line"}, d : 1..Len(desc), text : ByteSeq, got : BOOLEAN]
        /\ OneLine(c.text)
    BY <2>1, CallParts DEF Lines, ReaderKnown
  <2>3. CASE desc[d].kind # "file"
    <3>1. desc[d].kind = "stream"
      BY <2>1, <2>3 DEF Avail
    <3>2. \E s : ReadsStream(c, s)
      BY <3>1 DEF ReadsStream
    <3>3. QED
      BY <1>4, <3>2, ByteLines
  <2>4. CASE desc[d].kind = "file"
    <3>1. UNCHANGED <<stream, hist>>
      BY <2>1, <2>4 DEF Reads, Consume
    <3>2. b \in Byte
      BY <2>1, <2>2, AvailIsBytes, SomeRead
    <3>3. b # NL => OneLine(text)
      BY <2>2, <3>2, LineGrows
    <3> HIDE DEF text, b
    <3>4. on.op = "line" /\ on.d = d /\ on.text = text /\ on.got
      BY <2>1, <2>2
    <3> HIDE DEF on
    <3>5. call'[p] = Idle \/ (call'[p] = on /\ OneLine(text))
      BY <1>2, <2>1, <3>3 DEF Becomes
    <3>6. CASE call'[p] = Idle
      BY <2>4, <3>6, IdleNeedsNothing, <1>3, <3>1
         DEF ReaderStays, ReaderKnown, InLine, ReadsStream
    <3>7. CASE call'[p] = on /\ OneLine(text)
      <4>1. /\ call'[p].op = "line" /\ call'[p].d = d /\ call'[p].got
            /\ OneLine(call'[p].text) /\ desc'[d].kind = "file"
        BY <2>1, <2>4, <3>4, <3>7
      <4>2. ReaderKnown(p)'
        BY <4>1 DEF ReaderKnown, ReadsStream, OneLine
      <4>3. \A s : ~InLine(p, s) /\ ~InLine(p, s)'
        BY <2>4, <4>1 DEF InLine, ReadsStream
      <4>4. QED
        BY <1>3, <3>1, <4>2, <4>3 DEF ReaderStays
    <3>8. QED
      BY <3>5, <3>6, <3>7
  <2>5. QED
    BY <2>3, <2>4
<1>5. CASE ReadLineEnd(p)
  <2>1. Becomes(p, Idle) /\ UNCHANGED kernelVars
    BY <1>5 DEF ReadLineEnd
  <2>2. call'[p] = Idle
    BY <1>2, <2>1 DEF Becomes
  <2>3. CASE c.got /\ desc[c.d].kind = "stream" /\ desc[c.d].rx # 0
    <3>1. \E s : s # 0 /\ ReadsStream(c, s)
      BY <2>3 DEF ReadsStream
    <3>2. QED
      BY <1>5, <2>3, <3>1, EndLines
  <2>4. CASE ~ (c.got /\ desc[c.d].kind = "stream" /\ desc[c.d].rx # 0)
    <3>1. UNCHANGED <<stream, hist>>
      BY <1>5, <2>4 DEF ReadLineEnd, kernelVars
    <3>2. ReaderKnown(p)' /\ \A s : ~InLine(p, s)'
      BY <2>2, IdleNeedsNothing DEF ReaderKnown, InLine
    <3>3. \A s \in 1..Len(stream') : ~InLine(p, s)
      <4>1. \A s \in 1..Len(stream') : s # 0
        OBVIOUS
      <4>2. QED
        BY <2>4, <4>1 DEF InLine, ReadsStream
    <3>4. QED
      BY <1>3, <3>1, <3>2, <3>3 DEF ReaderStays
  <2>5. QED
    BY <2>3, <2>4
<1>6. CASE ReadBufferEnd(p) \/ Accept(p)
  <2>1. Becomes(p, Idle) /\ UNCHANGED <<stream, hist>> /\ c.op # "line"
    BY <1>6 DEF ReadBufferEnd, EndReadBuffer, Accept, kernelVars
  <2>2. call'[p].op \notin {"line", "buffer"}
    BY <1>2, <2>1, IdleNeedsNothing DEF Becomes
  <2>3. QED
    BY <1>3, <2>1, <2>2, NoReader
<1>7. CASE ExecFeed(p) \/ CommandStep(p) \/ ExecDrain(p)
  <2>1. UNCHANGED <<stream, hist>> /\ c.op = "exec"
    BY <1>7 DEF ExecFeed, CommandStep, ExecDrain, kernelVars
  <2>2. call'[p].op \notin {"line", "buffer"}
    <3> DEFINE n == Min({Capacity - Len(c.to), Len(c.rest)})
               rest == SubSeq(c.rest, n + 1, Len(c.rest))
               to == c.to \o SubSeq(c.rest, 1, n)
               less == Tail(c.to)
               from == Append(c.from, Head(c.to))
               fed == [c EXCEPT !.rest = rest, !.to = to]
               moved == [c EXCEPT !.to = less, !.from = from]
               read == [c EXCEPT !.from = <<>>]
    <3>1. c \in [op : {"exec"}, rest : ByteSeq, to : ByteSeq, from : ByteSeq, all : ByteSeq]
      BY <2>1, CallParts
    <3>2. ExecFeed(p) => Becomes(p, fed)
      BY DEF ExecFeed
    <3>3. CommandStep(p) => Becomes(p, moved)
      BY DEF CommandStep
    <3>4. ExecDrain(p) => Becomes(p, read) \/ Becomes(p, Idle)
      BY DEF ExecDrain
    <3> HIDE DEF rest, to, less, from, c
    <3>5. fed.op = "exec" /\ moved.op = "exec" /\ read.op = "exec"
      BY <2>1, <3>1
    <3> HIDE DEF fed, moved, read
    <3>6. PICK c2 \in {Idle, fed, moved, read} : Becomes(p, c2)
      BY <1>7, <3>2, <3>3, <3>4
    <3>7. c2.op \notin {"line", "buffer"}
      BY <3>5, <3>6, IdleNeedsNothing
    <3>8. QED
      BY <1>2, <3>6, <3>7 DEF Becomes
  <2>3. QED
    BY <1>3, <2>1, <2>2, NoReader
<1>8. QED
  BY <1>4, <1>5, <1>6, <1>7, BufferLines, WriteLines DEF CallStep

\* Messages, pages, and processes that begin or end.
LEMMA OtherLines ==
  ASSUME IInv, Typed, Typed', ListenersKnown, HoldersKnown, Wire, Lines, Len(desc') \in Nat,
         NEW p \in Procs,
         \/ MailStep(p) \/ Dies(p)
         \/ \E q \in Procs : Fork(p, q) \/ \E flag : Spawn(p, q, flag)
  PROVE  Lines'
<1>1. CASE MailStep(p)
  <2>1. /\ UNCHANGED <<kernelVars, hist>>
        /\ \A q \in Procs : call'[q] = call[q] \/ (call[q].op # "line" /\
             call'[q].op \in {"idle", "page-write", "page-read"})
    BY <1>1, MailWire
  <2>2. \A q \in Procs : ReaderStays(q)
    <3> SUFFICES ASSUME NEW q \in Procs PROVE ReaderStays(q)
      OBVIOUS
    <3>1. CASE call'[q] = call[q]
      BY <3>1 DEF ReaderStays
    <3>2. CASE call'[q] # call[q]
      BY <2>1, <3>2, NoReader
    <3>3. QED
      BY <3>1, <3>2
  <2>3. UNCHANGED <<st, stream, hist>>
    BY <2>1 DEF kernelVars
  <2>4. QED
    BY <2>2, <2>3, LinesSame
<1>2. CASE Dies(p)
  <2>1. /\ st' = [st EXCEPT ![p] = "gone"] /\ Becomes(p, Idle) /\ UNCHANGED <<stream, hist>>
    BY <1>2 DEF Dies
  <2>2. /\ \A q \in Procs : q # p => st'[q] = st[q] /\ call'[q] = call[q]
        /\ st'[p] = "gone" /\ call'[p] = Idle
    BY <2>1 DEF IInv, CallsOk, Becomes
  <2>3. ReaderStays(p)
    BY <2>2, IdleNeedsNothing DEF ReaderStays, ReaderKnown
  <2>4. \A q \in Procs : ReaderStays(q) /\ (st[q] = "gone" => st'[q] = "gone")
    BY <2>2, <2>3 DEF ReaderStays
  <2>5. QED
    BY <2>1, <2>4, LinesSame
<1>3. CASE \E q \in Procs : Fork(p, q) \/ \E flag : Spawn(p, q, flag)
  <2>1. PICK q \in Procs : \E how : Child(p, q, how)
    BY <1>3 DEF Fork, Spawn
  <2>2. /\ st[q] = "unborn" /\ st' = [st EXCEPT ![q] = "running"]
        /\ UNCHANGED <<stream, call, hist>>
    BY <2>1 DEF Child
  <2>3. \A r \in Procs : ReaderStays(r) /\ (st[r] = "gone" => st'[r] = "gone")
    BY <2>2 DEF ReaderStays, IInv, CallsOk
  <2>4. QED
    BY <2>2, <2>3, LinesSame
<1>4. QED
  BY <1>1, <1>2, <1>3

Wired == ListenersKnown /\ HoldersKnown /\ Lines

LEMMA WiredInit == Init => Wired
<1> SUFFICES ASSUME Init PROVE Wired
  OBVIOUS
<1>1. hist = <<>> /\ stream = <<>> /\ call = [p \in Procs |-> Idle]
  BY DEF Init
<1>2. hist \in Seq(History) /\ Len(stream) = 0
  BY <1>1
<1>3. LinesKnown /\ LinesKept
  BY <1>2 DEF LinesKnown, LinesKept
<1>4. \A p \in Procs : ReaderKnown(p)
  BY <1>1, IdleNeedsNothing DEF ReaderKnown
<1>5. QED
  BY <1>2, <1>3, <1>4, ListenersInit DEF Wired, Lines

LEMMA WiredStep ==
  IInv /\ IInv' /\ Typed /\ Typed' /\ Wired /\ [Next]_vars => Wired'
<1> SUFFICES ASSUME IInv, IInv', Typed, Typed', Wired, [Next]_vars PROVE Wired'
  OBVIOUS
<1>1. CASE Next
  <2>1. Wire
    BY <1>1, WireStep DEF Wired
  <2>2. Len(desc') \in Nat
    BY LenIsNat DEF IInv, FilesOk
  <2>3. Lines'
    BY <1>1, <2>1, <2>2, EndSteps, FileStepLines, CallStepLines, OtherLines DEF Next, Wired
  <2>4. QED
    BY <2>1, <2>3 DEF Wired, Wire
<1>2. CASE UNCHANGED vars
  <2>1. UNCHANGED <<st, table, desc, backlog, name, port, stream, hist, call>>
    BY <1>2 DEF vars, kernelVars, ioVars
  <2>2. Wire
    BY <2>1, WireSame DEF Wired
  <2>3. Len(desc') \in Nat
    BY LenIsNat DEF IInv, FilesOk
  <2>4. Lines'
    BY <2>1, <2>2, <2>3, LinesSame DEF Wired, ReaderStays
  <2>5. QED
    BY <2>2, <2>4 DEF Wired, Wire
<1>3. QED
  BY <1>1, <1>2

\* What one process reads from a pipe or a socket line by line is what was
\* written to it, in whatever pieces and at whatever moments: nothing is lost,
\* doubled or moved but the \r, all of which are dropped, a lone one too, and
\* only the last line may lack its \n (fileio.rs, read_line).
THEOREM LinesReadAreWritten == Spec => []LinesAreTheStream
<1>1. IInv /\ Typed /\ Wired => LinesAreTheStream
  <2> SUFFICES ASSUME IInv, Typed, Wired, NEW s \in 1..Len(stream),
                      ~hist[s].mixed, Cardinality(hist[s].by) = 1, hist[s].by \subseteq Running
               PROVE  LET h == hist[s]
                          held == {call[p].text : p \in {q \in Procs :
                                    /\ call[q].op = "line" /\ desc[call[q].d].kind = "stream"
                                    /\ desc[call[q].d].rx = s /\ call[q].got}}
                      IN  /\ \A i \in 1..Len(h.lines) : NL \notin ToSet(h.lines[i])
                          /\ \/ \E text \in held \cup {<<>>} :
                                  Bare(h.took) = Joined(h.lines) \o text
                             \/ /\ ~Writers(s) /\ h.lines # <<>>
                                /\ Append(Bare(h.took), NL) = Joined(h.lines)
    BY DEF LinesAreTheStream
  <2>1. \A i \in 1..Len(hist[s].lines) : NL \notin ToSet(hist[s].lines[i])
    BY DEF Wired, Lines, LinesKnown, OneLine
  <2>2. hist[s] \in History
    BY DEF Wired, Lines, Typed, HistTyped
  <2>3. PICK p \in Running : hist[s].by = {p}
    <3>1. \E x : hist[s].by = {x}
      BY FS_Singleton, <2>2 DEF History, ReaderSets
    <3>2. QED
      BY <3>1
  <2>4. OnlyReader(p, s)
    BY <2>3 DEF OnlyReader, Running
  <2>5. LinesHold(p, s)
    BY <2>3, <2>4 DEF Wired, Lines, LinesKept, Running
  <2>6. CASE InLine(p, s)
    BY <2>1, <2>3, <2>5, <2>6 DEF LinesHold, InLine, ReadsStream, Running
  <2>7. CASE ~InLine(p, s) /\ Ended(s)
    BY <2>1, <2>7 DEF Ended
  <2>8. CASE ~InLine(p, s) /\ Bare(hist[s].took) = Joined(hist[s].lines)
    <3> DEFINE j == Joined(hist[s].lines)
    <3>1. j \in Seq(Byte)
      BY <2>2, BytesAndTexts, JoinedOfAppend DEF History, ByteSeq
    <3>2. j \o <<>> = j
      <4> HIDE DEF j
      <4>1. QED
        BY <3>1, ConcatEmptySeq
    <3>3. QED
      BY <2>1, <2>8, <3>2
  <2>9. QED
    BY <2>5, <2>6, <2>7, <2>8 DEF LinesHold
<1>2. QED
  BY <1>1, InitInv, InvStep, InitTyped, TypedStep, WiredInit, WiredStep, PTL DEF Spec
=============================================================================
