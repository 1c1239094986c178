---------------------------- MODULE Cilk_proofs ----------------------------
(***************************************************************************)
(* Proofs about Cilk, for every number of children, descriptors and nested *)
(* syncs.                                                                  *)
(***************************************************************************)
EXTENDS Cilk, StackLemmas

\* Moving the innermost sync on keeps the call stack well typed and its length.
LEMMA GoOnTyped ==
  ASSUME calls \in Seq(SyncCall), Syncing,
         NEW at \in {"poll", "scan", "inlet"}, NEW todo \in SUBSET Entry,
         GoOn(at, todo)
  PROVE  /\ calls' \in Seq(SyncCall)
         /\ Len(calls') = Len(calls)
         /\ calls'[Len(calls)].todo = todo
         /\ calls'[Len(calls)].at = at
         /\ \A i \in 1..Len(calls) : i # Len(calls) => calls'[i] = calls[i]
<1>1. Len(calls) \in 1..Len(calls) /\ Current \in SyncCall
  BY DEF Syncing, Current
<1>2. [Current EXCEPT !.at = at, !.todo = todo] \in SyncCall
  BY <1>1 DEF SyncCall
<1>3. QED
  BY <1>1, <1>2 DEF GoOn, SyncCall

\* Leaving the innermost sync keeps the calls below it.
LEMMA LeaveSyncTyped ==
  ASSUME calls \in Seq(SyncCall), Syncing, LeaveSync
  PROVE  /\ calls' \in Seq(SyncCall)
         /\ Len(calls') = Len(calls) - 1
         /\ \A i \in 1..Len(calls') : calls'[i] = calls[i]
BY PopFacts DEF Syncing, LeaveSync

\* Every variable keeps its type: no step, in any order, leaves the program's
\* state space (sf_spawn, b_sync, b_abort, b_wait_pid).
THEOREM TypeCorrect == Safe => []TypeOK
<1>1. Init => TypeOK
  BY CilkAssumption DEF Init, TypeOK, Child, Fd, Free, Entry
<1>2. TypeOK /\ [Next]_vars => TypeOK'
  <2> SUFFICES ASSUME TypeOK, [Next]_vars
               PROVE  TypeOK'
    OBVIOUS
  <2> USE DEF TypeOK
  <2>1. ASSUME NEW c \in Child,
               \/ Finish(c) \/ StartWriting(c) \/ FinishWriting(c)
               \/ Beget(c) \/ HeirEnds(c) \/ Die(c)
        PROVE  TypeOK'
    BY <2>1 DEF Finish, StartWriting, FinishWriting, Beget, HeirEnds, Die
  <2>2. ASSUME NEW c \in Child, NEW f \in Fd, Spawn(c, f)
        PROVE  TypeOK'
    BY <2>2 DEF Spawn, Entry
  <2>3. ASSUME NEW targets \in SUBSET spawns, Abort(targets)
        PROVE  TypeOK'
    BY <2>3 DEF Abort
  <2>4. ASSUME NEW c \in Child, AbortOne(c)
        PROVE  TypeOK'
    BY <2>3, <2>4 DEF AbortOne
  <2>5. CASE AbortAll
    BY <2>3, <2>5 DEF AbortAll
  <2>6. ASSUME NEW c \in Child, WaitPid(c) \/ Waited(c) \/ ReapNoHang(c)
        PROVE  TypeOK'
    BY <2>6 DEF WaitPid, Waited, ReapNoHang, Reap
  <2>7. ASSUME NEW patient \in BOOLEAN, SyncStart(patient)
        PROVE  TypeOK'
    <3>1. [at |-> "poll", todo |-> {}, patient |-> patient] \in SyncCall
      BY DEF SyncCall
    <3>2. QED
      BY <2>7, <3>1 DEF SyncStart
  <2>8. CASE SyncPoll
    <3>1. {e \in spawns : Ready(e)} \in SUBSET Entry
      OBVIOUS
    <3>2. calls' \in Seq(SyncCall)
      BY <2>8, <3>1, GoOnTyped DEF SyncPoll
    <3>3. QED
      BY <2>8, <3>2 DEF SyncPoll
  <2>9. CASE SyncExpire \/ SyncDone \/ InletFails
    <3>1. calls' \in Seq(SyncCall)
      BY <2>9, LeaveSyncTyped DEF SyncExpire, SyncDone, InletFails
    <3>2. QED
      BY <2>9, <3>1 DEF SyncExpire, SyncDone, InletFails
  <2>10. ASSUME NEW e \in Entry, Collect(e)
         PROVE  TypeOK'
    <3>1. Current \in SyncCall
      BY <2>10 DEF Collect, Syncing, Current
    <3>2. Remaining(e) \in SUBSET Entry
      BY <3>1 DEF Remaining, SyncCall
    <3>3. calls' \in Seq(SyncCall)
      BY <2>10, <3>2, GoOnTyped DEF Collect
    <3>4. e.pid \in Child /\ e.fd \in Fd
      BY DEF Entry
    <3>5. ValueFrom(e.fd) \in Child \cup {Unbound, Nil, Partial}
      BY <3>4 DEF ValueFrom
    <3>6. QED
      BY <2>10, <3>3, <3>4, <3>5 DEF Collect, Reap
  <2>11. CASE InletReturns
    <3>1. Current \in SyncCall
      BY <2>11 DEF InletReturns, Syncing, Current
    <3>2. calls' \in Seq(SyncCall)
      BY <2>11, <3>1, GoOnTyped DEF InletReturns, SyncCall
    <3>3. QED
      BY <2>11, <3>2 DEF InletReturns
  <2>12. CASE UNCHANGED vars
    BY <2>12 DEF vars
  <2>13. QED
    BY <2>1, <2>2, <2>4, <2>5, <2>6, <2>7, <2>8, <2>9, <2>10, <2>11, <2>12
       DEF Next, SyncStep
<1>3. QED
  BY <1>1, <1>2, PTL DEF Safe
-----------------------------------------------------------------------------
(* What keeps the registry, the snapshot and the results right when the     *)
(* inlet neither aborts nor syncs.                                          *)

QuietInlet == InletOps \subseteq {"spawn", "wait-pid"}

\* At most one sync is active, and while it scans something is left to handle.
OneSync ==
  /\ Len(calls) <= 1
  /\ Syncing /\ Current.at = "scan" => Current.todo # {}

\* No child is registered twice, and only children that were spawned are.
OneEntry ==
  /\ \A d, e \in spawns : d.pid = e.pid => d = e
  /\ \A e \in spawns : proc[e.pid] # "unborn"

\* A child that ended by itself left its whole result behind, and only such a
\* child did; the dead stay dead.
WholeAtEnd ==
  /\ \A c \in Child : pipe[c] = "whole" => Dead(c)
  /\ \A c \in Child : c \in died => Dead(c) /\ pipe[c] # "whole"
  /\ \A c \in Child : Dead(c) /\ c \notin died /\ Pending(c) => pipe[c] = "whole"

\* A quiet inlet ends no child but those it waits for, so what sync has still to
\* handle of its snapshot is still registered.
SnapshotStillPending == \A i \in 1..Len(calls) : calls[i].todo \subseteq spawns

\* A value is bound only when its child has left the registry.
BoundIsOver == \A c \in Child : bound[c] # Unbound => ~ Pending(c) /\ proc[c] # "unborn"

Inv ==
  /\ TypeOK
  /\ OneSync
  /\ OneEntry
  /\ WholeAtEnd
  /\ BoundIsOver
  /\ RegistryOwnsFds
  /\ SnapshotStillPending
  /\ NoZombieForgotten
  /\ OwnResult

\* Nothing is spawned, open or being executed at first.
LEMMA InvInit == Init => Inv
<1> SUFFICES ASSUME Init PROVE Inv
  OBVIOUS
<1>1. TypeOK
  BY CilkAssumption DEF Init, TypeOK, Child, Fd, Free, Entry
<1>2. QED
  BY <1>1 DEF Init, Inv, OneSync, OneEntry, WholeAtEnd, BoundIsOver, RegistryOwnsFds,
              SnapshotStillPending, NoZombieForgotten, OwnResult, Pending, Dead, Syncing

\* What a child does to itself leaves the registry and the results alone.
LEMMA ChildKeepsInv ==
  ASSUME Inv, TypeOK', NEW c \in Child,
         \/ Finish(c) \/ StartWriting(c) \/ FinishWriting(c)
         \/ Beget(c) \/ HeirEnds(c) \/ Die(c)
  PROVE  Inv'
<1>1. UNCHANGED <<fds, spawns, calls, bound>>
  BY DEF Finish, StartWriting, FinishWriting, Beget, HeirEnds, Die
<1>2. OneSync' /\ RegistryOwnsFds' /\ SnapshotStillPending'
  BY <1>1 DEF Inv, OneSync, RegistryOwnsFds, SnapshotStillPending, Syncing, Current
<1>3. \A b \in Child : /\ proc[b] # "unborn" <=> proc'[b] # "unborn"
                       /\ proc[b] = "gone" => proc'[b] = "gone"
                       /\ Pending(b) <=> Pending(b)'
  BY <1>1 DEF Inv, TypeOK, Pending, Finish, StartWriting, FinishWriting, Beget, HeirEnds, Die
<1>4. OneEntry' /\ BoundIsOver' /\ NoZombieForgotten'
  BY <1>1, <1>3 DEF Inv, TypeOK, OneEntry, BoundIsOver, NoZombieForgotten, Entry
<1>5. WholeAtEnd'
  <2>1. /\ \A b \in Child : pipe[b] = "whole" => Dead(b)
        /\ \A b \in Child : b \in died => Dead(b) /\ pipe[b] # "whole"
        /\ \A b \in Child : Dead(b) /\ b \notin died /\ Pending(b) => pipe[b] = "whole"
    BY DEF Inv, WholeAtEnd
  <2>2. CASE Finish(c) \/ FinishWriting(c)
    BY <1>1, <1>3, <2>1, <2>2 DEF Inv, TypeOK, WholeAtEnd, Dead, Finish, FinishWriting
  <2>3. CASE StartWriting(c)
    BY <1>1, <1>3, <2>1, <2>3 DEF Inv, TypeOK, WholeAtEnd, Dead, StartWriting
  <2>4. CASE Beget(c) \/ HeirEnds(c)
    BY <1>1, <1>3, <2>1, <2>4 DEF Inv, TypeOK, WholeAtEnd, Dead, Beget, HeirEnds
  <2>5. CASE Die(c)
    BY <1>1, <1>3, <2>1, <2>5 DEF Inv, TypeOK, WholeAtEnd, Dead, Die
  <2>6. QED
    BY <2>2, <2>3, <2>4, <2>5
<1>6. OwnResult'
  BY <1>1 DEF Inv, OwnResult, Finish, StartWriting, FinishWriting, Beget, HeirEnds, Die
<1>7. QED
  BY <1>2, <1>4, <1>5, <1>6 DEF Inv

\* A spawn registers a fresh child on a descriptor that was free.
LEMMA SpawnKeepsInv ==
  ASSUME Inv, TypeOK', NEW c \in Child, NEW f \in Fd, Spawn(c, f)
  PROVE  Inv'
<1> DEFINE new == [pid |-> c, fd |-> f]
<1>1. /\ proc[c] = "unborn" /\ fds[f] = Free
      /\ proc' = [proc EXCEPT ![c] = "running"]
      /\ fds' = [fds EXCEPT ![f] = c]
      /\ spawns' = spawns \cup {new}
      /\ UNCHANGED <<pipe, heirs, died, calls, waiting, bound>>
  BY DEF Spawn, Lowest, FreeFds
<1>2. ~ Pending(c) /\ c # Free
  BY <1>1, CilkAssumption DEF Inv, OneEntry, Pending, Child, Free
<1>3. \A e \in spawns : e.pid \in Child /\ e.fd \in Fd /\ e.fd # f /\ e.pid # c
  BY <1>1, <1>2, CilkAssumption
     DEF Inv, TypeOK, Entry, RegistryOwnsFds, Pending, Child, Free
<1>4. OneSync' /\ SnapshotStillPending'
  BY <1>1 DEF Inv, OneSync, SnapshotStillPending, Syncing, Current
<1>5. OneEntry'
  BY <1>1, <1>3 DEF Inv, TypeOK, OneEntry
<1>6. RegistryOwnsFds'
  BY <1>1, <1>3 DEF Inv, TypeOK, RegistryOwnsFds
<1>7. \A b \in Child : Pending(b)' <=> Pending(b) \/ b = c
  <2>1. new.pid = c /\ new \in spawns' /\ spawns \subseteq spawns'
    BY <1>1
  <2>2. \A e \in spawns' : e \in spawns \/ e.pid = c
    BY <1>1
  <2> HIDE DEF new
  <2>3. QED
    BY <2>1, <2>2 DEF Pending
<1>8. WholeAtEnd'
  BY <1>1, <1>7 DEF Inv, TypeOK, WholeAtEnd, Dead
<1>9. BoundIsOver'
  BY <1>1, <1>7 DEF Inv, TypeOK, BoundIsOver
<1>10. NoZombieForgotten' /\ OwnResult'
  BY <1>1, <1>7 DEF Inv, TypeOK, NoZombieForgotten, OwnResult
<1>11. QED
  BY <1>4, <1>5, <1>6, <1>8, <1>9, <1>10 DEF Inv

\* An abort at the top level removes its targets together with their descriptors.
LEMMA AbortKeepsInv ==
  ASSUME QuietInlet, Inv, TypeOK', NEW targets \in SUBSET spawns, Abort(targets)
  PROVE  Inv'
<1>1. calls = <<>>
  BY DEF Abort, MayDo, QuietInlet, Syncing
<1>2. \A e \in spawns : e \in Entry /\ e.pid \in Child /\ e.fd \in Fd
  BY DEF Inv, TypeOK, Entry
<1>3. /\ UNCHANGED <<pipe, died, calls, bound>>
      /\ \A c \in Child : proc'[c] = IF \E e \in targets : e.pid = c THEN "gone" ELSE proc[c]
      /\ \A f \in Fd : fds'[f] = IF \E e \in targets : e.fd = f THEN Free ELSE fds[f]
      /\ spawns' = {e \in spawns : \A d \in targets : d.pid # e.pid}
  BY DEF Abort
<1>4. OneSync' /\ SnapshotStillPending'
  BY <1>1, <1>3 DEF OneSync, SnapshotStillPending, Syncing
<1>5. OneEntry'
  BY <1>2, <1>3 DEF Inv, OneEntry
<1>6. \A e \in spawns, d \in targets : d.fd = e.fd => d.pid = e.pid
  BY <1>2 DEF Inv, RegistryOwnsFds
<1>7. \A e \in spawns, d \in targets : d.pid = e.pid => d = e
  BY DEF Inv, OneEntry
<1>8. RegistryOwnsFds'
  <2>1. \A e \in spawns' : fds'[e.fd] = e.pid
    BY <1>2, <1>3, <1>6 DEF Inv, RegistryOwnsFds
  <2>2. ASSUME NEW f \in Fd, fds'[f] # Free
        PROVE  [pid |-> fds'[f], fd |-> f] \in spawns'
    <3> DEFINE e == [pid |-> fds[f], fd |-> f]
    <3>1. fds'[f] = fds[f] /\ \A d \in targets : d.fd # f
      BY <1>3, <2>2
    <3>2. e \in spawns
      BY <2>2, <3>1 DEF Inv, RegistryOwnsFds
    <3>3. \A d \in targets : d.pid # e.pid
      BY <3>1, <3>2, <1>7
    <3>4. QED
      BY <1>3, <3>1, <3>2, <3>3
  <2>3. QED
    BY <2>1, <2>2 DEF RegistryOwnsFds
<1>9. \A c \in Child : Pending(c)' => Pending(c) /\ proc'[c] = proc[c]
  BY <1>2, <1>3 DEF Pending
<1>10. \A c \in Child : proc'[c] \in {"gone", proc[c]} /\ (proc'[c] # proc[c] => proc[c] # "unborn")
  BY <1>2, <1>3 DEF Inv, OneEntry
<1>11. WholeAtEnd' /\ BoundIsOver' /\ OwnResult'
  BY <1>3, <1>9, <1>10 DEF Inv, WholeAtEnd, BoundIsOver, OwnResult, Dead
<1>12. NoZombieForgotten'
  BY <1>2, <1>3, <1>9, <1>10 DEF Inv, NoZombieForgotten, Pending
<1>13. QED
  BY <1>4, <1>5, <1>8, <1>11, <1>12 DEF Inv

\* Reaping a child that is dead already, by wait-pid, leaves its entry to sync.
LEMMA WaitKeepsInv ==
  ASSUME Inv, TypeOK', NEW c \in Child, WaitPid(c) \/ Waited(c) \/ ReapNoHang(c)
  PROVE  Inv'
<1>1. /\ UNCHANGED <<pipe, died, fds, spawns, calls, bound>>
      /\ proc' = proc \/ (Dead(c) /\ proc' = [proc EXCEPT ![c] = "gone"])
  BY DEF WaitPid, Waited, ReapNoHang, Reap, Dead
<1>2. OneSync' /\ RegistryOwnsFds' /\ SnapshotStillPending' /\ OwnResult'
  BY <1>1 DEF Inv, OneSync, RegistryOwnsFds, SnapshotStillPending, OwnResult, Syncing, Current
<1>3. \A b \in Child : /\ proc[b] # "unborn" <=> proc'[b] # "unborn"
                       /\ Dead(b) <=> Dead(b)'
                       /\ proc[b] = "gone" => proc'[b] = "gone"
                       /\ Pending(b) <=> Pending(b)'
  BY <1>1 DEF Inv, TypeOK, Dead, Pending
<1>4. OneEntry' /\ BoundIsOver' /\ NoZombieForgotten' /\ WholeAtEnd'
  BY <1>1, <1>3 DEF Inv, TypeOK, OneEntry, BoundIsOver, NoZombieForgotten, WholeAtEnd, Entry
<1>5. QED
  BY <1>2, <1>4 DEF Inv

\* A step that only changes the call stack keeps what does not mention it.
LEMMA CallsOnly ==
  ASSUME Inv, TypeOK', OneSync', SnapshotStillPending',
         UNCHANGED <<proc, pipe, heirs, died, fds, spawns, waiting, bound>>
  PROVE  Inv'
BY DEF Inv, OneEntry, WholeAtEnd, BoundIsOver, RegistryOwnsFds, NoZombieForgotten,
       OwnResult, Pending, Dead

\* A sync that begins holds no snapshot yet.
LEMMA SyncStartKeepsInv ==
  ASSUME QuietInlet, Inv, TypeOK', NEW patient \in BOOLEAN, SyncStart(patient)
  PROVE  Inv'
<1>1. calls = <<>>
  BY DEF SyncStart, MayDo, QuietInlet, Syncing
<1>2. calls' = <<[at |-> "poll", todo |-> {}, patient |-> patient]>>
  BY <1>1 DEF SyncStart
<1>3. OneSync' /\ SnapshotStillPending'
  BY <1>2 DEF OneSync, SnapshotStillPending, Syncing, Current
<1>4. QED
  BY <1>3, CallsOnly DEF SyncStart

\* The active sync is the only one, and what it has left to handle is pending.
LEMMA OneCall ==
  ASSUME Inv, Syncing
  PROVE  /\ calls \in Seq(SyncCall) /\ Len(calls) = 1
         /\ Current.todo \in SUBSET Entry
         /\ Current.todo \subseteq spawns
<1>1. calls \in Seq(SyncCall)
  BY DEF Inv, TypeOK
<1>2. Len(calls) = 1
  <2>1. Len(calls) <= 1 /\ calls # <<>>
    BY DEF Inv, OneSync, Syncing
  <2>2. Len(calls) \in Nat /\ Len(calls) > 0
    BY <1>1, <2>1
  <2>3. \A n \in Nat : n > 0 /\ n <= 1 => n = 1
    OBVIOUS
  <2>4. QED
    BY <2>1, <2>2, <2>3
<1>3. Current = calls[1] /\ calls[1] \in SyncCall
  <2>1. 1 \in 1..Len(calls)
    BY <1>2
  <2>2. calls[1] \in SyncCall
    BY <1>1, <2>1
  <2>3. QED
    BY <1>2, <2>2 DEF Current
<1>4. calls[1].todo \subseteq spawns
  BY <1>2 DEF Inv, SnapshotStillPending
<1>5. QED
  BY <1>1, <1>2, <1>3, <1>4 DEF SyncCall

\* The only active sync moves on to entries that are still pending.
LEMMA GoOnAlone ==
  ASSUME Inv, Syncing,
         NEW at \in {"poll", "scan", "inlet"}, NEW todo \in SUBSET Entry,
         GoOn(at, todo), todo \subseteq spawns', at = "scan" => todo # {}
  PROVE  OneSync' /\ SnapshotStillPending'
<1>1. calls \in Seq(SyncCall) /\ Len(calls) = 1
  BY OneCall
<1>2. /\ Len(calls') = Len(calls)
      /\ calls'[Len(calls)].todo = todo
      /\ calls'[Len(calls)].at = at
  BY <1>1, GoOnTyped
<1>3. Len(calls') = 1 /\ calls'[1].todo = todo /\ calls'[1].at = at
  BY <1>1, <1>2
<1>4. OneSync'
  BY <1>3 DEF OneSync, Current
<1>5. SnapshotStillPending'
  BY <1>3 DEF SnapshotStillPending
<1>6. QED
  BY <1>4, <1>5

\* A snapshot is taken from the registry, so its entries are pending.
LEMMA SyncPollKeepsInv ==
  ASSUME Inv, TypeOK', SyncPoll
  PROVE  Inv'
<1> DEFINE ready == {e \in spawns : Ready(e)}
<1>1. ready \in SUBSET Entry /\ ready \subseteq spawns /\ ready # {}
  BY DEF SyncPoll, Inv, TypeOK
<1>2. GoOn("scan", ready) /\ Syncing /\ spawns' = spawns
  BY DEF SyncPoll
<1> HIDE DEF ready
<1>3. OneSync' /\ SnapshotStillPending'
  BY <1>1, <1>2, GoOnAlone
<1>4. QED
  BY <1>3, CallsOnly DEF SyncPoll

\* A sync that is left, in whatever way, takes its snapshot with it.
LEMMA LeaveKeepsInv ==
  ASSUME Inv, TypeOK', SyncExpire \/ SyncDone \/ InletFails
  PROVE  Inv'
<1>1. LeaveSync /\ Syncing /\ UNCHANGED <<proc, pipe, heirs, died, fds, spawns, waiting, bound>>
  BY DEF SyncExpire, SyncDone, InletFails
<1>2. calls \in Seq(SyncCall) /\ Len(calls) = 1
  BY <1>1, OneCall
<1>3. calls' \in Seq(SyncCall) /\ Len(calls') = 0
  BY <1>1, <1>2, LeaveSyncTyped
<1>4. calls' = <<>>
  BY <1>3
<1>5. OneSync' /\ SnapshotStillPending'
  BY <1>4 DEF OneSync, SnapshotStillPending, Syncing
<1>6. QED
  BY <1>1, <1>5, CallsOnly

\* The inlet returns to the rest of the snapshot, none of which it may have removed.
LEMMA InletReturnsKeepsInv ==
  ASSUME Inv, TypeOK', InletReturns
  PROVE  Inv'
<1> DEFINE at == IF Current.todo = {} THEN "poll" ELSE "scan"
<1>2. Current.todo \in SUBSET Entry /\ Current.todo \subseteq spawns
  BY OneCall DEF InletReturns
<1>3. GoOn(at, Current.todo) /\ Syncing /\ spawns' = spawns
  BY DEF InletReturns
<1>4. at \in {"poll", "scan", "inlet"} /\ (at = "scan" => Current.todo # {})
  OBVIOUS
<1> HIDE DEF at
<1>5. OneSync' /\ SnapshotStillPending'
  BY <1>2, <1>3, <1>4, GoOnAlone
<1>6. QED
  BY <1>5, CallsOnly DEF InletReturns

\* The entry that sync handles is registered, its descriptor is open on its own
\* child's pipe, and the pipe has ended.
LEMMA CollectsOwnPipe ==
  ASSUME Inv, NEW e \in Entry, Collect(e)
  PROVE  /\ e \in spawns
         /\ fds[e.fd] = e.pid
         /\ Dead(e.pid)
         /\ IF e.pid \in died THEN ValueFrom(e.fd) \in {Partial, Nil}
                              ELSE ValueFrom(e.fd) = e.pid
         /\ Current.todo \subseteq spawns
<1>1. Current.todo \subseteq spawns
  BY OneCall DEF Collect
<1>2. e \in spawns /\ e.pid \in Child /\ e.fd \in Fd
  BY <1>1 DEF Collect, First, Entry
<1>3. fds[e.fd] = e.pid /\ e.pid # Free /\ Pending(e.pid)
  BY <1>2, CilkAssumption DEF Inv, RegistryOwnsFds, Pending, Child, Free
<1>4. Dead(e.pid)
  BY DEF Collect
<1>5. IF e.pid \in died THEN ValueFrom(e.fd) \in {Partial, Nil}
                        ELSE ValueFrom(e.fd) = e.pid
  BY <1>2, <1>3, <1>4 DEF Inv, WholeAtEnd, ValueFrom
<1>6. QED
  BY <1>1, <1>2, <1>3, <1>4, <1>5

\* Collecting a child removes its entry from the registry and the snapshot together.
LEMMA CollectKeepsInv ==
  ASSUME Inv, TypeOK', NEW e \in Entry, Collect(e)
  PROVE  Inv'
<1>1. /\ e \in spawns /\ fds[e.fd] = e.pid /\ Dead(e.pid)
      /\ e.pid \notin died => ValueFrom(e.fd) = e.pid
      /\ Current.todo \subseteq spawns
  BY CollectsOwnPipe
<1>2. e.pid \in Child /\ e.fd \in Fd /\ \A d \in spawns : d.pid \in Child /\ d.fd \in Fd
  BY DEF Entry, Inv, TypeOK
<1>3. /\ fds' = [fds EXCEPT ![e.fd] = Free]
      /\ proc' = [proc EXCEPT ![e.pid] = "gone"]
      /\ bound' = [bound EXCEPT ![e.pid] = ValueFrom(e.fd)]
      /\ spawns' = {d \in spawns : d.pid # e.pid}
      /\ UNCHANGED <<pipe, heirs, died, waiting>>
  BY DEF Collect, Reap
<1>4. \A d \in spawns : d.pid = e.pid => d = e
  BY <1>1 DEF Inv, OneEntry
<1>5. spawns' = spawns \ {e}
  BY <1>3, <1>4
<1>6. Remaining(e) \in SUBSET Entry /\ Remaining(e) \subseteq spawns'
  BY <1>1, <1>5 DEF Remaining, Inv, TypeOK
<1>7. OneSync' /\ SnapshotStillPending'
  BY <1>6, GoOnAlone DEF Collect
<1>8. OneEntry'
  BY <1>2, <1>3 DEF Inv, TypeOK, OneEntry
<1>9. RegistryOwnsFds'
  <2>1. ASSUME NEW d \in spawns' PROVE fds'[d.fd] = d.pid
    <3>1. d.fd # e.fd
      BY <1>1, <1>3 DEF Inv, RegistryOwnsFds
    <3>2. QED
      BY <1>2, <1>3, <3>1 DEF Inv, RegistryOwnsFds
  <2>2. ASSUME NEW f \in Fd, fds'[f] # Free
        PROVE  [pid |-> fds'[f], fd |-> f] \in spawns'
    <3>1. f # e.fd /\ fds'[f] = fds[f]
      BY <1>2, <1>3, <2>2 DEF Inv, TypeOK
    <3>2. [pid |-> fds[f], fd |-> f] \in spawns
      BY <2>2, <3>1 DEF Inv, RegistryOwnsFds
    <3>3. [pid |-> fds[f], fd |-> f] # e
      BY <3>1
    <3>4. QED
      BY <1>5, <3>1, <3>2, <3>3
  <2>3. QED
    BY <2>1, <2>2 DEF RegistryOwnsFds
<1>10. \A c \in Child : /\ Pending(c)' <=> Pending(c) /\ c # e.pid
                        /\ proc'[c] = IF c = e.pid THEN "gone" ELSE proc[c]
                        /\ bound'[c] = IF c = e.pid THEN ValueFrom(e.fd) ELSE bound[c]
  <2>1. \A c \in Child : Pending(c)' <=> Pending(c) /\ c # e.pid
    BY <1>3 DEF Pending
  <2>2. QED
    BY <1>2, <1>3, <2>1 DEF Inv, TypeOK
<1>11. WholeAtEnd' /\ BoundIsOver' /\ NoZombieForgotten'
  BY <1>1, <1>2, <1>3, <1>10 DEF Inv, WholeAtEnd, BoundIsOver, NoZombieForgotten, Dead
<1>12. OwnResult'
  BY <1>1, <1>3, <1>10 DEF Inv, OwnResult
<1>13. QED
  BY <1>7, <1>8, <1>9, <1>11, <1>12 DEF Inv

\* Every step of the interpreter and of the children keeps the invariant.
LEMMA StepKeepsInv ==
  ASSUME QuietInlet, Inv, TypeOK', [Next]_vars
  PROVE  Inv'
<1>1. ASSUME NEW c \in Child,
             \/ Finish(c) \/ StartWriting(c) \/ FinishWriting(c)
             \/ Beget(c) \/ HeirEnds(c) \/ Die(c)
      PROVE  Inv'
  BY <1>1, ChildKeepsInv
<1>2. ASSUME NEW c \in Child, NEW f \in Fd, Spawn(c, f)
      PROVE  Inv'
  BY <1>2, SpawnKeepsInv
<1>3. ASSUME NEW c \in Child, AbortOne(c)
      PROVE  Inv'
  BY <1>3, AbortKeepsInv DEF AbortOne
<1>4. CASE AbortAll
  BY <1>4, AbortKeepsInv DEF AbortAll
<1>5. ASSUME NEW c \in Child, WaitPid(c) \/ Waited(c) \/ ReapNoHang(c)
      PROVE  Inv'
  BY <1>5, WaitKeepsInv
<1>6. ASSUME NEW patient \in BOOLEAN, SyncStart(patient)
      PROVE  Inv'
  BY <1>6, SyncStartKeepsInv
<1>7. CASE SyncPoll
  BY <1>7, SyncPollKeepsInv
<1>8. CASE SyncExpire \/ SyncDone \/ InletFails
  BY <1>8, LeaveKeepsInv
<1>9. ASSUME NEW e \in Entry, Collect(e)
      PROVE  Inv'
  BY <1>9, CollectKeepsInv
<1>10. CASE InletReturns
  BY <1>10, InletReturnsKeepsInv
<1>11. CASE UNCHANGED vars
  BY <1>11 DEF vars, Inv, TypeOK, OneSync, OneEntry, WholeAtEnd, BoundIsOver,
               RegistryOwnsFds, SnapshotStillPending, NoZombieForgotten, OwnResult,
               Pending, Dead, Syncing, Current
<1>12. QED
  BY <1>1, <1>2, <1>3, <1>4, <1>5, <1>6, <1>7, <1>8, <1>9, <1>10, <1>11
     DEF Next, SyncStep

\* The invariant holds always, if inlets neither sync nor abort.
LEMMA Invariance == ASSUME QuietInlet PROVE Safe => []Inv
<1>1. TypeOK /\ Inv /\ TypeOK' /\ [Next]_vars => Inv'
  BY StepKeepsInv
<1>2. QED
  BY <1>1, InvInit, TypeCorrect, PTL DEF Safe

\* Whatever the children, the script and the clock do, an inlet that neither
\* aborts nor syncs leaves b_sync's descriptors its own and no zombie behind, and
\* every symbol gets its own child's complete result.
THEOREM SyncIsSafe ==
  ASSUME QuietInlet
  PROVE  Safe => [](/\ RegistryOwnsFds
                    /\ NoZombieForgotten
                    /\ OwnResult)
<1>1. Inv => RegistryOwnsFds /\ NoZombieForgotten /\ OwnResult
  BY DEF Inv
<1>2. QED
  BY <1>1, Invariance, PTL

\* Each registered child has an open pipe of its own, and the interpreter holds
\* no other: no descriptor leaks or is closed twice by sync and abort.
THEOREM RegistryIsExact == ASSUME QuietInlet PROVE Safe => []RegistryOwnsFds
BY SyncIsSafe, PTL

\* A child that is not registered any more is dead and reaped.
THEOREM ZombiesAreKnown == ASSUME QuietInlet PROVE Safe => []NoZombieForgotten
BY SyncIsSafe, PTL
-----------------------------------------------------------------------------
(* Every step is a step of CilkPromise, or changes no child's fate.         *)

\* A child whose registration, result and birth are unchanged has the same fate.
LEMMA SameFate ==
  ASSUME NEW c \in Child,
         Pending(c) <=> Pending(c)',
         proc[c] = "unborn" <=> proc'[c] = "unborn",
         bound'[c] = bound[c]
  PROVE  Fate(c)' = Fate(c)
BY DEF Fate

\* The same, of every child: a step that only kills its child is a Die of the
\* abstract specification, and any other such step stutters.
LEMMA QuietStep ==
  ASSUME \A c \in Child : /\ Pending(c) <=> Pending(c)'
                          /\ proc[c] = "unborn" <=> proc'[c] = "unborn"
                          /\ bound'[c] = bound[c]
  PROVE  [c \in Child |-> Fate(c)]' = [c \in Child |-> Fate(c)]
<1>1. \A c \in Child : Fate(c)' = Fate(c)
  BY SameFate
<1>2. QED
  BY <1>1

\* No child has a fate at first.
LEMMA PromiseInit == Init => Promise!Init
<1> SUFFICES ASSUME Init PROVE Promise!Init
  OBVIOUS
<1>1. \A c \in Child : Fate(c) = "unborn"
  BY DEF Init, Fate
<1>2. QED
  BY <1>1 DEF Init, Promise!Init, Promise!Child, Child

\* A child that is killed is one that the promise still calls pending.
LEMMA DeathPromised ==
  ASSUME Inv, Inv', NEW c \in Child, Die(c)
  PROVE  Promise!Die(c)
<1>1. proc[c] \in {"running", "writing"} /\ died' = died \cup {c}
  BY DEF Die
<1>2. Pending(c)
  BY <1>1 DEF Inv, NoZombieForgotten
<1>3. Fate(c) = "pending"
  BY <1>1, <1>2 DEF Fate
<1>4. [b \in Child |-> Fate(b)]' = [b \in Child |-> Fate(b)]
  <2>1. \A b \in Child : /\ Pending(b) <=> Pending(b)'
                         /\ proc[b] = "unborn" <=> proc'[b] = "unborn"
                         /\ bound'[b] = bound[b]
    BY DEF Die, Pending, Inv, TypeOK
  <2>2. QED
    BY <2>1, QuietStep
<1>5. QED
  BY <1>1, <1>3, <1>4 DEF Promise!Die

\* A spawn launches a child, and changes the fate of no other.
LEMMA SpawnPromised ==
  ASSUME Inv, NEW c \in Child, NEW f \in Fd, Spawn(c, f)
  PROVE  Promise!Launch(c)
<1>1. /\ proc[c] = "unborn"
      /\ proc' = [proc EXCEPT ![c] = "running"]
      /\ spawns' = spawns \cup {[pid |-> c, fd |-> f]}
      /\ UNCHANGED <<died, bound>>
  BY DEF Spawn
<1>2. Pending(c)'
  <2>1. [pid |-> c, fd |-> f] \in spawns' /\ [pid |-> c, fd |-> f].pid = c
    BY <1>1
  <2>2. QED
    BY <2>1 DEF Pending
<1>3. Fate(c) = "unborn" /\ Fate(c)' = "pending"
  BY <1>1, <1>2 DEF Fate, Inv, TypeOK
<1>4. ASSUME NEW b \in Child, b # c
      PROVE  Fate(b)' = Fate(b)
  <2>1. Pending(b)' <=> Pending(b)
    BY <1>1, <1>4 DEF Pending
  <2>2. QED
    BY <1>1, <1>4, <2>1, SameFate DEF Inv, TypeOK
<1>5. QED
  BY <1>1, <1>3, <1>4 DEF Promise!Launch, Promise!Child, Child

\* An abort of registered children aborts exactly those.
LEMMA AbortPromised ==
  ASSUME QuietInlet, Inv, NEW targets \in SUBSET spawns, Abort(targets)
  PROVE  Promise!Abort({c \in Child : \E e \in targets : e.pid = c})
<1> DEFINE S == {c \in Child : \E e \in targets : e.pid = c}
<1>1. /\ \A c \in Child : proc'[c] = IF c \in S THEN "gone" ELSE proc[c]
      /\ spawns' = {e \in spawns : \A d \in targets : d.pid # e.pid}
      /\ UNCHANGED <<died, bound>>
  BY DEF Abort
<1>2. \A c \in S : Pending(c) /\ proc[c] # "unborn" /\ bound[c] = Unbound
  BY DEF Inv, OneEntry, BoundIsOver, Pending
<1>3. \A c \in Child : Pending(c)' <=> Pending(c) /\ c \notin S
  BY <1>1 DEF Pending
<1>4. \A c \in S : Fate(c) = "pending" /\ Fate(c)' = "aborted"
  BY <1>1, <1>2, <1>3 DEF Fate
<1>5. \A c \in Child : c \notin S => Fate(c)' = Fate(c)
  BY <1>1, <1>3, SameFate
<1>6. S \subseteq Child
  OBVIOUS
<1> HIDE DEF S
<1>7. Promise!Abort(S)
  BY <1>1, <1>4, <1>5, <1>6 DEF Promise!Abort, Promise!Child, Child
<1>8. QED
  BY <1>7 DEF S

\* A collected child delivers its result, or fails if it died.
LEMMA CollectPromised ==
  ASSUME Inv, NEW e \in Entry, Collect(e)
  PROVE  Promise!Deliver(e.pid)
<1> DEFINE c == e.pid
<1>1. /\ e \in spawns /\ Dead(c)
      /\ IF c \in died THEN ValueFrom(e.fd) \in {Partial, Nil} ELSE ValueFrom(e.fd) = c
  BY CollectsOwnPipe
<1>2. c \in Child /\ c \in Nat
  BY DEF Entry, Child
<1>3. /\ proc' = [proc EXCEPT ![c] = "gone"]
      /\ bound' = [bound EXCEPT ![c] = ValueFrom(e.fd)]
      /\ spawns' = {d \in spawns : d.pid # c}
      /\ died' = died
  BY DEF Collect, Reap
<1>4. Pending(c) /\ proc[c] # "unborn" /\ Fate(c) = "pending"
  BY <1>1 DEF Pending, Dead, Fate
<1> HIDE DEF c
<1>5. ~ Pending(c)' /\ proc'[c] = "gone" /\ bound'[c] = ValueFrom(e.fd)
  BY <1>2, <1>3 DEF Pending, Inv, TypeOK
<1>6. Fate(c)' = IF c \in died THEN "failed" ELSE "delivered"
  BY <1>1, <1>2, <1>5, CilkAssumption DEF Fate
<1>7. ASSUME NEW b \in Child, b # c
      PROVE  Fate(b)' = Fate(b)
  <2>1. Pending(b)' <=> Pending(b)
    BY <1>3, <1>7 DEF Pending
  <2>2. QED
    BY <1>3, <1>7, <2>1, SameFate DEF Inv, TypeOK
<1>8. Promise!Deliver(c)
  BY <1>2, <1>3, <1>4, <1>6, <1>7 DEF Promise!Deliver, Promise!Child, Child
<1>9. QED
  BY <1>8 DEF c

\* The steps that change neither the registry, nor a result, nor the deaths.
LEMMA OthersStutter ==
  ASSUME Inv, UNCHANGED <<died, spawns, bound>>,
         \A c \in Child : proc[c] = "unborn" <=> proc'[c] = "unborn"
  PROVE  UNCHANGED Promise!vars
<1>1. \A c \in Child : Pending(c) <=> Pending(c)'
  BY DEF Pending
<1>2. [c \in Child |-> Fate(c)]' = [c \in Child |-> Fate(c)]
  BY <1>1, QuietStep
<1>3. QED
  BY <1>2 DEF Promise!vars

\* Every step is one that CilkPromise allows, or leaves the fates as they are.
LEMMA StepPromised ==
  ASSUME QuietInlet, Inv, Inv', [Next]_vars
  PROVE  [Promise!Next]_(Promise!vars)
<1>1. ASSUME NEW c \in Child, Finish(c) \/ StartWriting(c) \/ FinishWriting(c)
      PROVE  UNCHANGED Promise!vars
  BY <1>1, OthersStutter DEF Finish, StartWriting, FinishWriting, Inv, TypeOK
<1>2. ASSUME NEW c \in Child, Beget(c) \/ HeirEnds(c)
      PROVE  UNCHANGED Promise!vars
  BY <1>2, OthersStutter DEF Beget, HeirEnds
<1>3. ASSUME NEW c \in Child, Die(c)
      PROVE  Promise!Next
  BY <1>3, DeathPromised DEF Promise!Next, Promise!Child, Child
<1>4. ASSUME NEW c \in Child, NEW f \in Fd, Spawn(c, f)
      PROVE  Promise!Next
  BY <1>4, SpawnPromised DEF Promise!Next, Promise!Child, Child
<1>5. ASSUME NEW targets \in SUBSET spawns, Abort(targets)
      PROVE  Promise!Next
  BY <1>5, AbortPromised DEF Promise!Next, Promise!Child, Child
<1>6. ASSUME NEW c \in Child, AbortOne(c)
      PROVE  Promise!Next
  BY <1>5, <1>6 DEF AbortOne
<1>7. CASE AbortAll
  BY <1>5, <1>7 DEF AbortAll
<1>8. ASSUME NEW c \in Child, WaitPid(c) \/ Waited(c) \/ ReapNoHang(c)
      PROVE  UNCHANGED Promise!vars
  <2>1. \A b \in Child : proc[b] = "unborn" <=> proc'[b] = "unborn"
    BY <1>8 DEF WaitPid, Waited, ReapNoHang, Reap, Dead, Inv, TypeOK
  <2>2. QED
    BY <1>8, <2>1, OthersStutter DEF WaitPid, Waited, ReapNoHang
<1>9. ASSUME NEW patient \in BOOLEAN, SyncStart(patient)
      PROVE  UNCHANGED Promise!vars
  BY <1>9, OthersStutter DEF SyncStart
<1>10. CASE SyncPoll \/ SyncExpire \/ SyncDone \/ InletReturns \/ InletFails
  BY <1>10, OthersStutter DEF SyncPoll, SyncExpire, SyncDone, InletReturns, InletFails
<1>11. ASSUME NEW e \in Entry, Collect(e)
       PROVE  Promise!Next
  <2>1. Promise!Deliver(e.pid) /\ e.pid \in Child
    BY <1>11, CollectPromised DEF Entry
  <2>2. QED
    BY <2>1 DEF Promise!Next, Promise!Child, Child
<1>12. CASE UNCHANGED vars
  BY <1>12, OthersStutter DEF vars
<1>13. QED
  BY <1>1, <1>2, <1>3, <1>4, <1>6, <1>7, <1>8, <1>9, <1>10, <1>11, <1>12
     DEF Next, SyncStep

\* spawn, sync, abort and wait-pid keep the promise of CilkPromise: each child is
\* delivered once or aborted, never both, in every interleaving.
THEOREM SyncKeepsPromise ==
  ASSUME QuietInlet
  PROVE  Safe => KeepsPromise
<1>1. Init => Promise!Init
  BY PromiseInit
<1>2. Inv /\ Inv' /\ [Next]_vars => [Promise!Next]_(Promise!vars)
  BY StepPromised
<1>3. QED
  BY <1>1, <1>2, Invariance, PTL DEF Safe, KeepsPromise, Promise!Spec
=============================================================================
