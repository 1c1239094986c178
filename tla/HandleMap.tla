------------------------------ MODULE HandleMap ------------------------------
(***************************************************************************)
(* What a program may rely on about file handles (fileio.rs and ADR-0029): *)
(* in each process a handle is a number from 3 on that names one open file *)
(* from the call that returned it to the call that closes it, whatever is  *)
(* opened and closed in between, here or in another process.  A forked     *)
(* process starts with the handles of its parent.                          *)
(***************************************************************************)
EXTENDS Integers

CONSTANTS Procs, Root, File

VARIABLES
  map,    \* per process, a function from its open handles to their files
  born    \* the processes that have started

Empty == [h \in {} |-> 0]

Init == map = [p \in Procs |-> Empty] /\ born = {Root}

\* New files get handles that name none; the handles in use keep theirs.
Opens(p) ==
  /\ p \in born /\ born' = born
  /\ \A q \in Procs \ {p} : map'[q] = map[q]
  /\ DOMAIN map[p] \subseteq DOMAIN map'[p]
  /\ \A h \in DOMAIN map[p] : map'[p][h] = map[p][h]
  /\ \A h \in DOMAIN map'[p] \ DOMAIN map[p] : h >= 3 /\ map'[p][h] \in File

Closes(p) ==
  /\ p \in born /\ born' = born
  /\ \E h \in DOMAIN map[p] :
       map' = [map EXCEPT ![p] = [g \in DOMAIN @ \ {h} |-> @[g]]]

Forks(p) ==
  /\ p \in born
  /\ \E q \in Procs \ born : /\ born' = born \cup {q}
                             /\ map' = [map EXCEPT ![q] = map[p]]

Next == \E p \in Procs : Opens(p) \/ Closes(p) \/ Forks(p)

Spec == Init /\ [][Next]_<<map, born>>
=============================================================================
