-------------------------------- MODULE Cilk --------------------------------
(***************************************************************************)
(* spawn, sync, abort and wait-pid (process.rs): the interpreter that      *)
(* forks children, the pipe that carries each result back, the table of    *)
(* file descriptors that the kernel reuses, and the children themselves.   *)
(*                                                                         *)
(* A pid is the child's number in order of spawning, so the registry (a    *)
(* Vec that spawn pushes to and sync filters) is the set of its entries:   *)
(* its order is the order of the pids.                                     *)
(***************************************************************************)
EXTENDS Naturals, Sequences

CONSTANTS
  N,         \* bound: children spawned in a run
  NumFds,    \* bound: descriptors the interpreter may have open
  MaxNest,   \* bound: syncs active at once, one inside the inlet of another
  Large,     \* children whose result is larger than a pipe holds
  Forking,   \* children whose expression starts a process of its own
  Fragile,   \* children that may be killed from outside
  Waitable,  \* children the script passes to wait-pid
  InletOps,  \* what the script's inlet function does
  Unbound, Nil, Partial  \* no value yet, nil, and a result cut short

Child == 1..N
Fd == 1..NumFds
Free == 0

ASSUME CilkAssumption ==
  /\ N \in Nat /\ NumFds \in Nat /\ MaxNest \in Nat \ {0}
  /\ Large \subseteq Child /\ Forking \subseteq Child /\ Fragile \subseteq Child
  /\ Waitable \subseteq Child
  /\ InletOps \subseteq {"spawn", "sync", "abort", "wait-pid"}
  /\ Unbound \notin Nat /\ Nil \notin Nat /\ Partial \notin Nat
  /\ Unbound # Nil /\ Unbound # Partial /\ Nil # Partial

VARIABLES
  proc,      \* each child's process
  pipe,      \* how much of its result is in its pipe or was read from it
  heirs,     \* children one of whose own processes still holds the pipe open
  died,      \* children killed from outside
  fds,       \* the interpreter's descriptors: the child whose pipe each reads
  spawns,    \* the registry of pending children
  calls,     \* the syncs being executed, innermost last
  waiting,   \* the pid a wait-pid blocks on, or 0
  bound      \* the value each child's symbol was last given by sync

vars == <<proc, pipe, heirs, died, fds, spawns, calls, waiting, bound>>

Entry == [pid : Child, fd : Fd]

\* One sync: what it does next, the ready entries of its snapshot that it has
\* not handled yet, and whether its deadline is too far away to pass.
SyncCall == [at : {"poll", "scan", "inlet"}, todo : SUBSET Entry, patient : BOOLEAN]

Init ==
  /\ proc = [c \in Child |-> "unborn"]
  /\ pipe = [c \in Child |-> "empty"]
  /\ heirs = {}
  /\ died = {}
  /\ fds = [f \in Fd |-> Free]
  /\ spawns = {}
  /\ calls = <<>>
  /\ waiting = 0
  /\ bound = [c \in Child |-> Unbound]

Dead(c) == proc[c] \in {"zombie", "gone"}

Writer == {"parent", "child", "heir"}

\* A mutant of Writers: the interpreter keeps its copy of the write end.
WritersAndParent(c) ==
  {w \in Writer : \/ w = "parent"
                  \/ w = "child" /\ ~ Dead(c)
                  \/ w = "heir" /\ c \in heirs}

\* Who holds the write end of the pipe; the interpreter closes its copy.
Writers(c) ==
  {w \in Writer : \/ w = "child" /\ ~ Dead(c)
                  \/ w = "heir" /\ c \in heirs}

Eof(c) == Writers(c) = {}

\* poll reports POLLIN, or POLLHUP.  A closed descriptor is POLLNVAL: not ready.
Ready(e) ==
  /\ fds[e.fd] # Free
  /\ pipe[fds[e.fd]] # "empty" \/ Eof(fds[e.fd])

FreeFds == {f \in Fd : fds[f] = Free}
Lowest(f, S) == f \in S /\ \A g \in S : f <= g

Syncing == calls # <<>>
Current == calls[Len(calls)]

\* sync handles the entries of its snapshot in the order of the registry.
First(e, S) == e \in S /\ \A d \in S : e.pid <= d.pid

\* The script runs at the top level or inside an inlet.
MayDo(op) ==
  /\ waiting = 0
  /\ Syncing => Current.at = "inlet" /\ op \in InletOps

\* The innermost sync goes on at a place, with entries still to handle.
GoOn(at, todo) ==
  calls' = [calls EXCEPT ![Len(calls)] = [Current EXCEPT !.at = at, !.todo = todo]]
-----------------------------------------------------------------------------
(* The children. *)

\* A result that fits in the pipe is written, and the process ends.
Finish(c) ==
  /\ proc[c] = "running"
  /\ c \notin Large
  /\ pipe' = [pipe EXCEPT ![c] = "whole"]
  /\ proc' = [proc EXCEPT ![c] = "zombie"]
  /\ UNCHANGED <<heirs, died, fds, spawns, calls, waiting, bound>>

StartWriting(c) ==
  /\ proc[c] = "running"
  /\ c \in Large
  /\ pipe' = [pipe EXCEPT ![c] = "part"]
  /\ proc' = [proc EXCEPT ![c] = "writing"]
  /\ UNCHANGED <<heirs, died, fds, spawns, calls, waiting, bound>>

\* Whoever reads the pipe makes room in it.
BeingRead(c) ==
  /\ Syncing
  /\ Current.at = "scan"
  /\ \E e \in Current.todo : First(e, Current.todo) /\ fds[e.fd] = c

FinishWriting(c) ==
  /\ proc[c] = "writing"
  /\ BeingRead(c)
  /\ pipe' = [pipe EXCEPT ![c] = "whole"]
  /\ proc' = [proc EXCEPT ![c] = "zombie"]
  /\ UNCHANGED <<heirs, died, fds, spawns, calls, waiting, bound>>

\* The expression forks, spawns or starts a process, which inherits the pipe.
Beget(c) ==
  /\ proc[c] = "running"
  /\ c \in Forking \ heirs
  /\ heirs' = heirs \cup {c}
  /\ UNCHANGED <<proc, pipe, died, fds, spawns, calls, waiting, bound>>

HeirEnds(c) ==
  /\ c \in heirs
  /\ heirs' = heirs \ {c}
  /\ UNCHANGED <<proc, pipe, died, fds, spawns, calls, waiting, bound>>

Die(c) ==
  /\ c \in Fragile
  /\ proc[c] \in {"running", "writing"}
  /\ proc' = [proc EXCEPT ![c] = "zombie"]
  /\ died' = died \cup {c}
  /\ UNCHANGED <<pipe, heirs, fds, spawns, calls, waiting, bound>>
-----------------------------------------------------------------------------
(* The interpreter. *)

\* pipe() takes the two lowest descriptors; the parent keeps f, the read end.
Spawn(c, f) ==
  /\ MayDo("spawn")
  /\ proc[c] = "unborn"
  /\ \A b \in Child : b < c => proc[b] # "unborn"
  /\ Lowest(f, FreeFds)
  /\ FreeFds # {f}
  /\ proc' = [proc EXCEPT ![c] = "running"]
  /\ fds' = [fds EXCEPT ![f] = c]
  /\ spawns' = spawns \cup {[pid |-> c, fd |-> f]}
  /\ UNCHANGED <<pipe, heirs, died, calls, waiting, bound>>

\* Mutants of Abort: the pipes stay open, and the entries stay registered.
AbortLeaks(targets) ==
  /\ MayDo("abort")
  /\ proc' = [c \in Child |-> IF \E e \in targets : e.pid = c THEN "gone" ELSE proc[c]]
  /\ spawns' = {e \in spawns : \A d \in targets : d.pid # e.pid}
  /\ UNCHANGED <<pipe, heirs, died, fds, calls, waiting, bound>>

AbortKeeps(targets) ==
  /\ MayDo("abort")
  /\ proc' = [c \in Child |-> IF \E e \in targets : e.pid = c THEN "gone" ELSE proc[c]]
  /\ UNCHANGED <<pipe, heirs, died, fds, spawns, calls, waiting, bound>>

\* (abort pid) or (abort): kill, reap and close every target, then forget it.
Abort(targets) ==
  /\ MayDo("abort")
  /\ proc' = [c \in Child |-> IF \E e \in targets : e.pid = c THEN "gone" ELSE proc[c]]
  /\ fds' = [f \in Fd |-> IF \E e \in targets : e.fd = f THEN Free ELSE fds[f]]
  /\ spawns' = {e \in spawns : \A d \in targets : d.pid # e.pid}
  /\ UNCHANGED <<pipe, heirs, died, calls, waiting, bound>>

AbortOne(c) == Abort({e \in spawns : e.pid = c})
AbortAll == Abort(spawns)

\* (wait-pid pid) blocks until the child has ended; (wait-pid pid true) does not.
WaitPid(c) ==
  /\ MayDo("wait-pid")
  /\ c \in Waitable
  /\ proc[c] # "unborn"
  /\ waiting' = c
  /\ UNCHANGED <<proc, pipe, heirs, died, fds, spawns, calls, bound>>

\* A mutant of Reap: the child is left a zombie.
NoReap(c) == proc[c] # "unborn" /\ UNCHANGED proc

Reap(c) == proc' = [proc EXCEPT ![c] = "gone"]

\* A mutant of Waited: a child reaped before is waited for all the same.
WaitedZombie(c) ==
  /\ waiting = c
  /\ proc[c] = "zombie"
  /\ Reap(c)
  /\ waiting' = 0
  /\ UNCHANGED <<pipe, heirs, died, fds, spawns, calls, bound>>

\* waitpid of a child already reaped fails at once, and wait-pid returns nil.
Waited(c) ==
  /\ waiting = c
  /\ Dead(c)
  /\ Reap(c)
  /\ waiting' = 0
  /\ UNCHANGED <<pipe, heirs, died, fds, spawns, calls, bound>>

ReapNoHang(c) ==
  /\ MayDo("wait-pid")
  /\ c \in Waitable
  /\ proc[c] = "zombie"
  /\ Reap(c)
  /\ UNCHANGED <<pipe, heirs, died, fds, spawns, calls, waiting, bound>>

SyncStart(patient) ==
  /\ MayDo("sync")
  /\ Len(calls) < MaxNest
  /\ calls' = Append(calls, [at |-> "poll", todo |-> {}, patient |-> patient])
  /\ UNCHANGED <<proc, pipe, heirs, died, fds, spawns, waiting, bound>>

LeaveSync == calls' = SubSeq(calls, 1, Len(calls) - 1)

\* The top of the loop: a snapshot of the registry, and a poll of its pipes.
\* When poll reports closed descriptors only, the loop just goes round.
SyncPoll ==
  /\ Syncing
  /\ Current.at = "poll"
  /\ \E e \in spawns : Ready(e)
  /\ GoOn("scan", {e \in spawns : Ready(e)})
  /\ UNCHANGED <<proc, pipe, heirs, died, fds, spawns, waiting, bound>>

\* The deadline has passed at the top of the loop, or passes during the poll, or
\* a signal interrupts the poll.
SyncExpire ==
  /\ Syncing
  /\ Current.at = "poll"
  /\ spawns # {}
  /\ ~ Current.patient
  /\ LeaveSync
  /\ UNCHANGED <<proc, pipe, heirs, died, fds, spawns, waiting, bound>>

SyncDone ==
  /\ Syncing
  /\ Current.at = "poll"
  /\ spawns = {}
  /\ LeaveSync
  /\ UNCHANGED <<proc, pipe, heirs, died, fds, spawns, waiting, bound>>

\* Mutants of ValueFrom: one read of the pipe, and a read after the close.
ValueOfOneRead(f) == IF fds[f] \in Large THEN Partial ELSE fds[f]
ValueAfterClose(f) == [fds EXCEPT ![f] = Free][f]

\* What the reader makes of the bytes read from a descriptor.
ValueFrom(f) ==
  IF fds[f] = Free THEN Nil
  ELSE IF pipe[fds[f]] = "whole" THEN fds[f]
  ELSE IF pipe[fds[f]] = "part" THEN Partial
  ELSE Nil

Remaining(e) == Current.todo \ {e}

\* Read to the end of the pipe and close it, reap the child, bind its symbol,
\* drop it from the registry, and call the inlet.
Collect(e) ==
  /\ Syncing
  /\ Current.at = "scan"
  /\ First(e, Current.todo)
  /\ fds[e.fd] # Free => Eof(fds[e.fd])
  /\ Dead(e.pid)
  /\ fds' = [fds EXCEPT ![e.fd] = Free]
  /\ Reap(e.pid)
  /\ bound' = [bound EXCEPT ![e.pid] = ValueFrom(e.fd)]
  /\ spawns' = {d \in spawns : d.pid # e.pid}
  /\ GoOn("inlet", Remaining(e))
  /\ UNCHANGED <<pipe, heirs, died, waiting>>

InletReturns ==
  /\ Syncing
  /\ Current.at = "inlet"
  /\ waiting = 0
  /\ GoOn(IF Current.todo = {} THEN "poll" ELSE "scan", Current.todo)
  /\ UNCHANGED <<proc, pipe, heirs, died, fds, spawns, waiting, bound>>

\* The inlet raised a signal: sync is left with it.
InletFails ==
  /\ Syncing
  /\ Current.at = "inlet"
  /\ waiting = 0
  /\ LeaveSync
  /\ UNCHANGED <<proc, pipe, heirs, died, fds, spawns, waiting, bound>>
-----------------------------------------------------------------------------
SyncStep == SyncPoll \/ SyncDone \/ (\E e \in Entry : Collect(e)) \/ InletReturns

Next ==
  \/ \E c \in Child : Finish(c) \/ StartWriting(c) \/ FinishWriting(c) \/ Beget(c)
                      \/ HeirEnds(c) \/ Die(c)
  \/ \E c \in Child, f \in Fd : Spawn(c, f)
  \/ \E c \in Child : AbortOne(c) \/ WaitPid(c) \/ Waited(c) \/ ReapNoHang(c)
  \/ AbortAll
  \/ \E patient \in BOOLEAN : SyncStart(patient)
  \/ SyncStep
  \/ SyncExpire
  \/ InletFails

Safe == Init /\ [][Next]_vars

\* Children and the processes they start end, the interpreter keeps executing,
\* and an inlet, whatever it does first, returns.
Fairness ==
  /\ \A c \in Child : /\ WF_vars(Finish(c) \/ StartWriting(c))
                       /\ WF_vars(FinishWriting(c))
                       /\ WF_vars(HeirEnds(c))
  /\ WF_vars(SyncStep)
  /\ SF_vars(InletReturns)
  /\ \A c \in Child : WF_vars(Waited(c))

Spec == Safe /\ Fairness
-----------------------------------------------------------------------------
TypeOK ==
  /\ proc \in [Child -> {"unborn", "running", "writing", "zombie", "gone"}]
  /\ pipe \in [Child -> {"empty", "part", "whole"}]
  /\ heirs \subseteq Child
  /\ died \subseteq Child
  /\ fds \in [Fd -> Child \cup {Free}]
  /\ spawns \subseteq Entry
  /\ calls \in Seq(SyncCall)
  /\ waiting \in Child \cup {0}
  /\ bound \in [Child -> Child \cup {Unbound, Nil, Partial}]

Pending(c) == \E e \in spawns : e.pid = c

\* The registry and the kernel agree: every entry's descriptor is open on that
\* child's own pipe, and every open descriptor belongs to an entry, so nothing
\* is leaked and nothing is closed twice (sf_spawn, b_sync, b_abort).
RegistryOwnsFds ==
  /\ \A e \in spawns : fds[e.fd] = e.pid
  /\ \A f \in Fd : fds[f] # Free => [pid |-> fds[f], fd |-> f] \in spawns

\* A child leaves the registry only dead and reaped: no zombie is left behind
\* and no live child is forgotten.
NoZombieForgotten == \A c \in Child : proc[c] # "unborn" /\ ~ Pending(c) => proc[c] = "gone"

\* The symbol of a child that was not killed receives that child's own complete
\* result (docs: sync binds "each finished child's result").
OwnResult == \A c \in Child : bound[c] # Unbound => bound[c] = c \/ c \in died

\* What has become of a child, as CilkPromise names it.
Fate(c) ==
  IF proc[c] = "unborn" THEN "unborn"
  ELSE IF Pending(c) THEN "pending"
  ELSE IF bound[c] = Unbound THEN "aborted"
  ELSE IF bound[c] = c THEN "delivered"
  ELSE "failed"

Promise == INSTANCE CilkPromise WITH fate <- [c \in Child |-> Fate(c)]

\* Each child is delivered once or aborted, never both, whatever the order of
\* polls, inlets, aborts, waits and deaths.
KeepsPromise == Promise!Spec

\* An aborted child delivers nothing any more: sync binds the results of
\* children that finished (the doc comments of b_sync and b_abort).
NothingAfterAbort ==
  [][\A c \in Child : Fate(c) = "aborted" => bound'[c] = Unbound]_vars

\* A sync whose deadline does not pass returns: it neither waits for a child
\* that has been collected nor spins on a closed descriptor.
PatientSyncReturns ==
  \A k \in 1..MaxNest :
    (Len(calls) >= k /\ calls[k].patient) ~> (Len(calls) < k)

\* A blocking wait-pid returns, provided the script passes it no child whose
\* result overfills its pipe: nobody would be reading (b_wait_pid).
WaitPidReturns == \A c \in Waitable \ Large : waiting = c ~> waiting = 0
=============================================================================
