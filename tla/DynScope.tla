------------------------------ MODULE DynScope ------------------------------
(***************************************************************************)
(* Dynamic scoping as eval.rs implements it (ADR-0006): every symbol has   *)
(* one value slot, a binding overwrites the slot and saves what it held,   *)
(* and the drop of the Scope guard puts the saved contents back, the last  *)
(* saved first, also when a signal unwinds the evaluation (ADR-0011).      *)
(* A reference or an assignment just uses the slot.                        *)
(*                                                                         *)
(* saved is the concatenation of the saved vectors of the active Scopes.   *)
(* Only the innermost Scope grows, so a frame's base marks where its own   *)
(* part begins.  Drop's loop is one step per saved slot.                   *)
(***************************************************************************)
EXTENDS Frames, FiniteSets

CONSTANTS
  Symbols,     \* the symbols a program rebinds
  Values,      \* the values it gives them
  Nil,         \* nil, what an unbound symbol evaluates to
  Unbound      \* the mark of a symbol without a slot

ASSUME ScopeAssumption ==
  /\ Nil \in Values
  /\ Unbound \notin Values
  /\ Symbols \cap Values = {}

VARIABLES
  globals,   \* the slots: the value of each symbol, or Unbound
  saved,     \* the slots saved by the active scopes, innermost last
  args       \* args_stack: per running call, the call's surplus arguments

vars == <<globals, saved, args, frames, signal>>

Expressions == Symbols \cup Values
Slot == Values \cup {Unbound}
SavedSlot == [sym : Symbols, old : Slot]

lookup(s) == IF globals[s] = Unbound THEN Nil ELSE globals[s]

ValueOf(e) == IF e \in Symbols THEN lookup(e) ELSE e

SetGlobal(s, v) == globals' = [globals EXCEPT ![s] = v]

\* What Scope::bind pushes when s is bound in the slots g.
SavedFrom(g, s) == [sym |-> s, old |-> g[s]]

\* The surplus arguments of a call are told apart by the depth of the call.
ArgsOf(depth) == depth

Init ==
  /\ FramesInit
  /\ globals = [s \in Symbols |-> Unbound]
  /\ saved = <<>>
  /\ args = <<>>

\* set, setq, define: the value is computed first, then the slot is written.
Assign(s, e) ==
  /\ Evaluating
  /\ SetGlobal(s, ValueOf(e))
  /\ UNCHANGED <<saved, args, frames, signal>>

EnterLet(s, e, t, f) ==
  /\ Room(Len(frames) + 1, Len(saved) + 2)
  /\ PushFrame("let", "running", Len(saved))
  /\ LET g == [globals EXCEPT ![s] = ValueOf(e)]
     IN  /\ saved' = Append(Append(saved, SavedFrom(globals, s)), SavedFrom(g, t))
         /\ globals' = [g EXCEPT ![t] = ValueOf(f)]
  /\ UNCHANGED args

EnterNil(kind, s) ==
  /\ Room(Len(frames) + 1, Len(saved) + 1)
  /\ PushFrame(kind, "running", Len(saved))
  /\ saved' = Append(saved, SavedFrom(globals, s))
  /\ SetGlobal(s, Nil)
  /\ UNCHANGED args

EnterLocal(s) == EnterNil("let", s)
EnterLoop(s) == EnterNil("loop", s)

EnterLetn ==
  /\ Room(Len(frames) + 1, Len(saved))
  /\ PushFrame("letn", "binding", Len(saved))
  /\ UNCHANGED <<globals, saved, args>>

EnterCall ==
  /\ Room(Len(frames) + 1, Len(saved))
  /\ PushFrame("call", "binding", Len(saved))
  /\ UNCHANGED <<globals, saved, args>>

EnterCatch ==
  /\ Room(Len(frames) + 1, Len(saved))
  /\ PushFrame("catch", "running", Len(saved))
  /\ UNCHANGED <<globals, saved, args>>

\* letn's next binding, or a call's next parameter.
Bind(s, e) ==
  /\ BindingPhase
  /\ Room(Len(frames), Len(saved) + 1)
  /\ saved' = Append(saved, SavedFrom(globals, s))
  /\ SetGlobal(s, ValueOf(e))
  /\ UNCHANGED <<args, frames, signal>>

\* The body begins: a call pushes its surplus arguments first.
Run ==
  /\ BindingPhase
  /\ SetPhase("running")
  /\ args' = IF Innermost.kind = "call" THEN Append(args, ArgsOf(Len(frames))) ELSE args
  /\ UNCHANGED <<globals, saved, signal>>

Iterate(v) ==
  /\ Evaluating
  /\ frames # <<>>
  /\ Innermost.kind = "loop"
  /\ SetGlobal(saved[Innermost.base + 1].sym, v)
  /\ UNCHANGED <<saved, args, frames, signal>>

\* A mutant of LeaveScope: the surplus arguments are popped only on a normal return.
LeaveWithoutGuard ==
  /\ EndScope
  /\ args' = IF Innermost.kind = "call" /\ Innermost.phase = "running" /\ signal = "none"
               THEN SubSeq(args, 1, Len(args) - 1)
               ELSE args
  /\ UNCHANGED <<globals, saved>>

\* ArgsGuard is dropped before the Scope, and exists once the body has begun.
LeaveScope ==
  /\ EndScope
  /\ args' = IF Innermost.kind = "call" /\ Innermost.phase = "running"
               THEN SubSeq(args, 1, Len(args) - 1)
               ELSE args
  /\ UNCHANGED <<globals, saved>>

\* A mutant of RestoreSlot: the first slot saved is the first put back.
RestoreForwards ==
  /\ frames # <<>>
  /\ Innermost.phase = "leaving"
  /\ Len(saved) > Innermost.base
  /\ LET first == saved[Innermost.base + 1]
     IN  SetGlobal(first.sym, first.old)
  /\ saved' = SubSeq(saved, 1, Innermost.base)
                \o SubSeq(saved, Innermost.base + 2, Len(saved))
  /\ UNCHANGED <<args, frames, signal>>

\* One turn of the loop in Scope's drop; restoring Unbound removes the slot.
RestoreSlot ==
  /\ frames # <<>>
  /\ Innermost.phase = "leaving"
  /\ Len(saved) > Innermost.base
  /\ SetGlobal(saved[Len(saved)].sym, saved[Len(saved)].old)
  /\ saved' = SubSeq(saved, 1, Len(saved) - 1)
  /\ UNCHANGED <<args, frames, signal>>

\* A mutant of Return: the frame goes while some of its slots are still saved.
ReturnEarly ==
  /\ frames # <<>>
  /\ Innermost.phase = "leaving"
  /\ Len(saved) <= Innermost.base + 1
  /\ PopFrame
  /\ UNCHANGED <<globals, saved, args, signal>>

Return ==
  /\ frames # <<>>
  /\ Innermost.phase = "leaving"
  /\ Len(saved) = Innermost.base
  /\ PopFrame
  /\ UNCHANGED <<globals, saved, args, signal>>

\* (catch expr 'sym)
CatchInto(s, v) ==
  /\ Catch \/ (EndCatch /\ signal = "none")
  /\ SetGlobal(s, v)
  /\ UNCHANGED <<saved, args>>

\* (catch expr)
CatchValue ==
  /\ EndCatch \/ Catch
  /\ UNCHANGED <<globals, saved, args>>

RaiseSignal(sig) ==
  /\ Raise(sig)
  /\ UNCHANGED <<globals, saved, args>>

EndRun ==
  /\ Surface
  /\ UNCHANGED <<globals, saved, args>>

Next ==
  \/ \E s \in Symbols, e \in Expressions : Assign(s, e)
  \/ \E s, t \in Symbols, e, f \in Expressions : EnterLet(s, e, t, f)
  \/ \E s \in Symbols : EnterLocal(s)
  \/ \E s \in Symbols : EnterLoop(s)
  \/ EnterLetn
  \/ EnterCall
  \/ EnterCatch
  \/ \E s \in Symbols, e \in Expressions : Bind(s, e)
  \/ Run
  \/ \E v \in Values : Iterate(v)
  \/ LeaveScope
  \/ RestoreSlot
  \/ Return
  \/ \E s \in Symbols, v \in Values : CatchInto(s, v)
  \/ CatchValue
  \/ \E sig \in Signals : RaiseSignal(sig)
  \/ EndRun

Spec == Init /\ [][Next]_vars
-----------------------------------------------------------------------------
TypeOK ==
  /\ FramesTypeOK
  /\ globals \in [Symbols -> Slot]
  /\ saved \in Seq(SavedSlot)
  /\ args \in Seq(Nat)

(***************************************************************************)
(* The refinement mapping, for slots g and saves sv.  Later(sv, s, i) are  *)
(* the saves of s made after the i first: the value s had after those i    *)
(* bindings is what the earliest of them saved, or what is still in its    *)
(* slot when there is none.                                                *)
(***************************************************************************)
Later(sv, s, i) == {j \in (i + 1)..Len(sv) : sv[j].sym = s}
Earliest(J) == CHOOSE j \in J : \A k \in J : j <= k

ValueAfter(g, sv, s, i) ==
  IF Later(sv, s, i) = {} THEN g[s] ELSE sv[Earliest(Later(sv, s, i))].old

TopOf(g, sv) == [s \in Symbols |-> ValueAfter(g, sv, s, 0)]
EnvOf(g, sv) ==
  [i \in 1..Len(sv) |-> [sym |-> sv[i].sym, val |-> ValueAfter(g, sv, sv[i].sym, i)]]

Env == INSTANCE EnvStack WITH top <- TopOf(globals, saved), env <- EnvOf(globals, saved)

\* The slots and their restores behave as the searched stack of bindings: no
\* interleaving of bindings, assignments, loops, catches and unwinding signals
\* lets a scope leak a value, lose an outer one, or change what a symbol means
\* (Scope, call_lambda, sf_let, sf_letn, sf_local, the loops and sf_catch).
ImplementsEnvStack == Env!Spec

\* Scopes nest: what a form saved lies above what the forms around it saved, no
\* save outlives its form, and a catch, whether it stops a signal or lets it
\* pass, finds every scope inside it already restored (Scope's drop, sf_catch).
ScopesNest ==
  /\ \A i \in 1..Len(frames) : frames[i].base <= Len(saved)
  /\ \A i, j \in 1..Len(frames) : i < j => frames[i].base <= frames[j].base
  /\ frames = <<>> => saved = <<>>
  /\ frames # <<>> /\ Innermost.kind = "catch" => Len(saved) = Innermost.base

\* The surplus arguments that (args) reads are those of the innermost call whose
\* body runs, after any mixture of normal returns, defaults that fail and signals
\* (call_lambda's ArgsGuard).
RunningCalls == {i \in 1..Len(frames) : frames[i].kind = "call" /\ frames[i].phase = "running"}
ArgsMatchCalls ==
  /\ Len(args) = Cardinality(RunningCalls)
  /\ \A k \in 1..Len(args) : args[k] \in RunningCalls
  /\ \A k, l \in 1..Len(args) : k < l => args[k] < args[l]
=============================================================================
