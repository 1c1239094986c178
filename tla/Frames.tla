------------------------------- MODULE Frames -------------------------------
(***************************************************************************)
(* The evaluator's control skeleton (eval.rs): the forms being evaluated,  *)
(* innermost last, and the signal that is unwinding them, if any.  What a  *)
(* form does to the values of symbols is left to the module that extends   *)
(* this one: EnvStack says what a program should see, DynScope what the    *)
(* code does.                                                              *)
(***************************************************************************)
EXTENDS Naturals, Sequences

CONSTANT MaxDepth  \* bound: nested forms and active bindings, counted together

ASSUME FramesAssumption == MaxDepth \in Nat

VARIABLES
  frames,   \* the forms being evaluated
  signal    \* the signal unwinding them, or "none"

\* Throw and Error unwind to the nearest catch; Exit and Limit are control
\* signals, which go past it.
Signals == {"catchable", "control"}

(***************************************************************************)
(* let and local make all their bindings on entry.  letn and a call        *)
(* evaluate an initialiser, or a parameter's default, between one binding  *)
(* and the next.  A loop rebinds its variable on every pass.  A catch      *)
(* binds nothing.  base is the number of bindings active on entry.         *)
(***************************************************************************)
Kinds == {"let", "letn", "call", "loop", "catch"}
Phases == {"binding", "running", "leaving"}
Frame == [kind : Kinds, phase : Phases, base : Nat]

Innermost == frames[Len(frames)]

\* Only letn and a call have a phase between two bindings, a catch is never left
\* in steps, and only the innermost form can be on its way out.
FramesTypeOK ==
  /\ frames \in Seq(Frame)
  /\ \A i \in 1..Len(frames) :
       /\ frames[i].phase = "binding" => frames[i].kind \in {"letn", "call"}
       /\ frames[i].phase = "leaving" => frames[i].kind # "catch" /\ i = Len(frames)
  /\ signal \in Signals \cup {"none"}

FramesInit ==
  /\ frames = <<>>
  /\ signal = "none"

\* Forms are evaluated only while no signal unwinds and no scope is being left.
Evaluating ==
  /\ signal = "none"
  /\ frames # <<>> => Innermost.phase # "leaving"

\* Room for so many forms and bindings.
Room(forms, bindings) == forms + bindings <= MaxDepth

PushFrame(kind, phase, base) ==
  /\ Evaluating
  /\ frames' = Append(frames, [kind |-> kind, phase |-> phase, base |-> base])
  /\ UNCHANGED signal

SetPhase(phase) == frames' = [frames EXCEPT ![Len(frames)].phase = phase]

PopFrame == frames' = SubSeq(frames, 1, Len(frames) - 1)

BindingPhase ==
  /\ Evaluating
  /\ frames # <<>>
  /\ Innermost.phase = "binding"

\* Any form can fail, throw, exit or exceed the step limit while it is evaluated.
Raise(sig) ==
  /\ Evaluating
  /\ signal' = sig
  /\ UNCHANGED frames

\* A mutant of EndScope: a catch is left like a scope.
EndAnyForm ==
  /\ frames # <<>>
  /\ \/ Innermost.phase = "running"
     \/ Innermost.phase = "binding" /\ signal # "none"
  /\ SetPhase("leaving")
  /\ UNCHANGED signal

\* A scope ends when its body has returned or when a signal passes through it.
EndScope ==
  /\ frames # <<>>
  /\ Innermost.kind # "catch"
  /\ \/ Innermost.phase = "running"
     \/ Innermost.phase = "binding" /\ signal # "none"
  /\ SetPhase("leaving")
  /\ UNCHANGED signal

\* A catch whose expression returned, or one that exit or the step limit passes by.
EndCatch ==
  /\ frames # <<>>
  /\ Innermost.kind = "catch"
  /\ signal # "catchable"
  /\ PopFrame
  /\ UNCHANGED signal

\* A catch stops a thrown value or an error.
Catch ==
  /\ frames # <<>>
  /\ Innermost.kind = "catch"
  /\ signal = "catchable"
  /\ PopFrame
  /\ signal' = "none"

\* The signal has left the outermost form: the run is over, and another may begin.
Surface ==
  /\ frames = <<>>
  /\ signal # "none"
  /\ signal' = "none"
  /\ UNCHANGED frames
=============================================================================
