------------------------------ MODULE FileTable ------------------------------
(***************************************************************************)
(* The registry of open files of one interpreter (src/src/fileio.rs, type  *)
(* FileTable).  A handle is an index into a vector of slots; the first     *)
(* three stand for the standard streams and are never given out.  A slot   *)
(* emptied by close goes on a free list and is used again, last closed     *)
(* first.  The definitions are pure: Ipc keeps one table per process.      *)
(***************************************************************************)
EXTENDS Integers, Sequences

\* Open files are numbered from 1; NoFile is an empty slot.
File == Nat \ {0}
NoFile == 0

\* The handles of table t, the three standard ones included.
Handles(t) == 0..(t.size - 1)

NewTable == [size |-> 3, slots |-> [h \in 0..2 |-> NoFile], free |-> <<>>]

\* The file a handle names; a number below 3 or past the end names none.
FileAt(t, h) == IF h >= 3 /\ h \in Handles(t) THEN t.slots[h] ELSE NoFile

\* The handle the next insert gives out.
NextHandle(t) == IF t.free = <<>> THEN t.size ELSE t.free[Len(t.free)]

Insert(t, f) ==
  IF t.free = <<>>
    THEN [size |-> t.size + 1, free |-> <<>>,
          slots |-> [h \in 0..t.size |-> IF h = t.size THEN f ELSE t.slots[h]]]
    ELSE [size |-> t.size, free |-> SubSeq(t.free, 1, Len(t.free) - 1),
          slots |-> [t.slots EXCEPT ![NextHandle(t)] = f]]

\* close without the test that the slot is open: the handle goes on the free
\* list once more.
CloseTwice(t, h) ==
  IF h >= 3 /\ h \in Handles(t)
    THEN [size |-> t.size, free |-> Append(t.free, h),
          slots |-> [t.slots EXCEPT ![h] = NoFile]]
    ELSE t

\* Closing a number that names no open file changes nothing.
Close(t, h) ==
  IF FileAt(t, h) = NoFile
    THEN t
    ELSE [size |-> t.size, free |-> Append(t.free, h),
          slots |-> [t.slots EXCEPT ![h] = NoFile]]

\* A table whose slots hold some of the files.
IsTable(t, files) ==
  /\ t = [size |-> t.size, slots |-> t.slots, free |-> t.free]
  /\ t.size \in Nat /\ t.free \in Seq(Nat)
  /\ t.slots \in [Handles(t) -> files \cup {NoFile}]

StandardClosed(t) == t.size >= 3 /\ \A h \in 0..2 : t.slots[h] = NoFile

FreeIsEmpty(t) ==
  \A i \in 1..Len(t.free) :
    t.free[i] \in 3..(t.size - 1) /\ t.slots[t.free[i]] = NoFile

FreeOnce(t) == \A i, j \in 1..Len(t.free) : t.free[i] = t.free[j] => i = j

EmptyIsFree(t) ==
  \A h \in 3..(t.size - 1) :
    t.slots[h] = NoFile => \E i \in 1..Len(t.free) : t.free[i] = h

\* The free list holds every empty slot from 3 on, each once, and nothing
\* else; the standard slots stay empty.
TableOk(t) == StandardClosed(t) /\ FreeIsEmpty(t) /\ FreeOnce(t) /\ EmptyIsFree(t)
=============================================================================
