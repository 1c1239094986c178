---------------------------- MODULE CilkPromise ----------------------------
(***************************************************************************)
(* What spawn, sync and abort promise a script (ADR-0032, process.rs): a   *)
(* spawned child stays pending until sync delivers its result to its       *)
(* symbol, once, or abort kills it, after which it delivers nothing.  A    *)
(* child that dies by itself delivers no result of its own.                *)
(***************************************************************************)
EXTENDS Naturals

CONSTANT N  \* bound: children spawned in a run; a child's pid is its number

Child == 1..N

VARIABLES
  fate,  \* what has become of each child
  died   \* the children that died before their result was complete

vars == <<fate, died>>

Fates == {"unborn", "pending", "delivered", "failed", "aborted"}

Init ==
  /\ fate = [c \in Child |-> "unborn"]
  /\ died = {}

Launch(c) ==
  /\ fate[c] = "unborn"
  /\ fate' = [fate EXCEPT ![c] = "pending"]
  /\ UNCHANGED died

Die(c) ==
  /\ fate[c] = "pending"
  /\ died' = died \cup {c}
  /\ UNCHANGED fate

Deliver(c) ==
  /\ fate[c] = "pending"
  /\ fate' = [fate EXCEPT ![c] = IF c \in died THEN "failed" ELSE "delivered"]
  /\ UNCHANGED died

Abort(S) ==
  /\ \A c \in S : fate[c] = "pending"
  /\ fate' = [c \in Child |-> IF c \in S THEN "aborted" ELSE fate[c]]
  /\ UNCHANGED died

Next ==
  \/ \E c \in Child : Launch(c) \/ Die(c) \/ Deliver(c)
  \/ \E S \in SUBSET Child : Abort(S)

Spec == Init /\ [][Next]_vars
=============================================================================
