------------------------------ MODULE EnvStack ------------------------------
(***************************************************************************)
(* Dynamic scoping as a programmer thinks of it, and the design ADR-0006   *)
(* considered and did not choose: a stack of bindings that a reference     *)
(* searches from the innermost outwards.  An assignment changes the        *)
(* binding it finds, or the symbol's top-level value when there is none.   *)
(* Nothing is saved or put back: leaving a scope drops its bindings.       *)
(* DynScope, the evaluator's slots and its save/restore guard, is shown to *)
(* implement this.                                                         *)
(***************************************************************************)
EXTENDS Frames

CONSTANTS
  Symbols,     \* the symbols a program rebinds
  Values,      \* the values it gives them
  Nil,         \* nil, what an unbound symbol evaluates to
  Unbound      \* the mark of a symbol without a value

VARIABLES
  top,  \* the value of each symbol outside every scope, or Unbound
  env   \* the active bindings, innermost last

vars == <<top, env, frames, signal>>

\* What a binding is given: a constant, or the value of a symbol.
Expressions == Symbols \cup Values

BindingsOf(s) == {i \in 1..Len(env) : env[i].sym = s}
LastBinding(s) == CHOOSE i \in BindingsOf(s) : \A j \in BindingsOf(s) : j <= i

Lookup(s) == IF BindingsOf(s) = {} THEN top[s] ELSE env[LastBinding(s)].val

ValueOf(e) ==
  IF e \in Symbols
    THEN IF Lookup(e) = Unbound THEN Nil ELSE Lookup(e)
    ELSE e

Binding(s, v) == [sym |-> s, val |-> v]

Set(s, v) ==
  IF BindingsOf(s) = {}
    THEN top' = [top EXCEPT ![s] = v] /\ UNCHANGED env
    ELSE env' = [env EXCEPT ![LastBinding(s)].val = v] /\ UNCHANGED top

Init ==
  /\ FramesInit
  /\ top = [s \in Symbols |-> Unbound]
  /\ env = <<>>

Assign(s, e) ==
  /\ Evaluating
  /\ Set(s, ValueOf(e))
  /\ UNCHANGED <<frames, signal>>

\* A parallel let: both initialisers see the scope outside.
EnterLet(s, e, t, f) ==
  /\ Room(Len(frames) + 1, Len(env) + 2)
  /\ PushFrame("let", "running", Len(env))
  /\ env' = Append(Append(env, Binding(s, ValueOf(e))), Binding(t, ValueOf(f)))
  /\ UNCHANGED top

\* A form that binds one symbol to nil and runs: local, or a loop.
EnterNil(kind, s) ==
  /\ Room(Len(frames) + 1, Len(env) + 1)
  /\ PushFrame(kind, "running", Len(env))
  /\ env' = Append(env, Binding(s, Nil))
  /\ UNCHANGED top

\* A form that binds as it goes (letn, a call), or not at all (catch).
EnterEmpty(kind, phase) ==
  /\ Room(Len(frames) + 1, Len(env))
  /\ PushFrame(kind, phase, Len(env))
  /\ UNCHANGED <<top, env>>

Bind(s, e) ==
  /\ BindingPhase
  /\ Room(Len(frames), Len(env) + 1)
  /\ env' = Append(env, Binding(s, ValueOf(e)))
  /\ UNCHANGED <<top, frames, signal>>

Run ==
  /\ BindingPhase
  /\ SetPhase("running")
  /\ UNCHANGED <<top, env, signal>>

\* A loop gives its variable the next item.
Iterate(v) ==
  /\ Evaluating
  /\ frames # <<>>
  /\ Innermost.kind = "loop"
  /\ Set(env[Innermost.base + 1].sym, v)
  /\ UNCHANGED <<frames, signal>>

Drop ==
  /\ frames # <<>>
  /\ Innermost.phase = "leaving"
  /\ Len(env) > Innermost.base
  /\ env' = SubSeq(env, 1, Len(env) - 1)
  /\ UNCHANGED <<top, frames, signal>>

Return ==
  /\ frames # <<>>
  /\ Innermost.phase = "leaving"
  /\ Len(env) = Innermost.base
  /\ PopFrame
  /\ UNCHANGED <<top, env, signal>>

\* The second argument of catch names the symbol that receives the result, or
\* what was caught.
CatchInto(s, v) ==
  /\ Catch \/ (EndCatch /\ signal = "none")
  /\ Set(s, v)

Unwind == (EndScope \/ EndCatch \/ Catch \/ Surface \/ \E g \in Signals : Raise(g))
          /\ UNCHANGED <<top, env>>

Next ==
  \/ \E s \in Symbols, e \in Expressions : Assign(s, e) \/ Bind(s, e)
  \/ \E s, t \in Symbols, e, f \in Expressions : EnterLet(s, e, t, f)
  \/ \E s \in Symbols, kind \in {"let", "loop"} : EnterNil(kind, s)
  \/ \E kind \in {"letn", "call"} : EnterEmpty(kind, "binding")
  \/ EnterEmpty("catch", "running")
  \/ \E v \in Values : Iterate(v)
  \/ \E s \in Symbols, v \in Values : CatchInto(s, v)
  \/ Run \/ Drop \/ Return \/ Unwind

Spec == Init /\ [][Next]_vars
=============================================================================
