------------------------------ MODULE Control ------------------------------
(***************************************************************************)
(* One script run under an eval-step limit (ADR-0040, eval.rs): how a      *)
(* thrown value, an error, an exit and an exceeded limit travel through    *)
(* the forms that look at the Result of an evaluation, and where the       *)
(* counter of steps is reset.                                              *)
(*                                                                         *)
(* The script is arbitrary: at each point it evaluates an atom, raises     *)
(* something, or enters a form.                                            *)
(***************************************************************************)
EXTENDS Naturals, Sequences

CONSTANTS
  Limit,     \* the ceiling given to set_eval_limit
  MaxDepth,  \* bound: nested forms
  Nested,    \* bound: eval-strings the script calls in a run
  Forms      \* the forms the script uses

\* A body stands for every form that just evaluates others (begin, while, a
\* lambda); catchInto is catch with a target, evalStringElse eval-string with a
\* fallback, place a sort, reverse or rotate, handler an OS signal's handler, and
\* callback a lambda called from C.
AllForms == {"body", "catch", "catchInto", "evalString", "evalStringElse",
             "place", "handler", "callback"}

ASSUME ControlAssumption ==
  /\ Limit \in Nat \ {0} /\ MaxDepth \in Nat \ {0} /\ Nested \in Nat
  /\ Forms \subseteq AllForms

VARIABLES
  stack,   \* the forms being evaluated, the host's eval_string first
  signal,  \* what the last evaluation returned: "none" for a value
  steps,   \* eval_steps, no longer counted once it exceeds Limit
  total,   \* the evaluations done in this run
  nested,  \* the eval-strings called in this run
  exited   \* whether exit has been called in this run

vars == <<stack, signal, steps, total, nested, exited>>

Catchable == {"throw", "error"}
Uncatchable == {"exit", "limit"}
Signals == Catchable \cup Uncatchable

(***************************************************************************)
(* Where a form is.  "safe" is before a form of a body, where OS signals   *)
(* are dispatched, and "next" after that.  "expr" and "done" are before    *)
(* and after the expression of a catch, "target" and "bound" before and    *)
(* after its target.  A place is first resolved, which may evaluate        *)
(* indices, and its expression evaluated as a value if that fails.         *)
(***************************************************************************)
Places(form) ==
  CASE form \in {"body", "handler", "callback"} -> {"safe", "next"}
    [] form = "catch" -> {"expr", "done"}
    [] form = "catchInto" -> {"expr", "done", "target", "bound"}
    [] form \in {"evalString", "evalStringElse"} -> {"read", "forms"}
    [] form = "place" -> {"place", "value", "done"}

StartOf(form) ==
  CASE form \in {"body", "handler", "callback"} -> "safe"
    [] form \in {"catch", "catchInto"} -> "expr"
    [] form \in {"evalString", "evalStringElse"} -> "read"
    [] form = "place" -> "place"

Fresh(form) == [form |-> form, at |-> StartOf(form), held |-> "none"]

Innermost == stack[Len(stack)]
Outside == SubSeq(stack, 1, Len(stack) - 1)
Running == stack # <<>>

MovedTo(at) == [stack EXCEPT ![Len(stack)].at = at]

\* Where a form is once it has evaluated an expression.
AfterEval ==
  CASE Innermost.at \in {"safe", "next"} -> "safe"
    [] Innermost.at \in {"forms", "place"} -> Innermost.at
    [] Innermost.at \in {"expr", "value"} -> "done"
    [] Innermost.at = "target" -> "bound"

CanEvaluate ==
  /\ Running
  /\ signal = "none"
  /\ Innermost.at \notin {"read", "done", "bound"}

Init ==
  /\ stack = <<>>
  /\ signal = "none"
  /\ steps = 0
  /\ total = 0
  /\ nested = 0
  /\ exited = FALSE

\* The host calls eval_string; the last run's result was the value or signal left.
BeginRun ==
  /\ ~ Running
  /\ stack' = <<Fresh("evalString")>>
  /\ signal' = "none"
  /\ steps' = 0
  /\ total' = 0
  /\ nested' = 0
  /\ exited' = FALSE
-----------------------------------------------------------------------------
(* eval: one more step, refused when that exceeds the limit. *)

Tick ==
  /\ CanEvaluate
  /\ steps < Limit
  /\ steps' = steps + 1
  /\ total' = total + 1

\* A mutant of EvalRefused: the counter starts again once the limit is signalled.
RefusedAndReset ==
  /\ CanEvaluate
  /\ steps >= Limit
  /\ steps' = 0
  /\ signal' = "limit"
  /\ stack' = MovedTo(AfterEval)
  /\ UNCHANGED <<total, nested, exited>>

EvalRefused ==
  /\ CanEvaluate
  /\ steps >= Limit
  /\ steps' = Limit + 1
  /\ signal' = "limit"
  /\ stack' = MovedTo(AfterEval)
  /\ UNCHANGED <<total, nested, exited>>

EvalAtom ==
  /\ Tick
  /\ stack' = MovedTo(AfterEval)
  /\ UNCHANGED <<signal, nested, exited>>

\* throw, an error, or exit.
EvalRaise(sig) ==
  /\ Tick
  /\ signal' = sig
  /\ exited' = (exited \/ sig = "exit")
  /\ stack' = MovedTo(AfterEval)
  /\ UNCHANGED nested

EvalForm(form) ==
  /\ form \notin {"evalString", "evalStringElse", "handler"}
  /\ Len(stack) < MaxDepth
  /\ Tick
  /\ stack' = Append(MovedTo(AfterEval), Fresh(form))
  /\ UNCHANGED <<signal, nested, exited>>

\* eval-string calls the host's eval_string, which starts counting anew.
EvalString(form) ==
  /\ form \in {"evalString", "evalStringElse"}
  /\ Len(stack) < MaxDepth
  /\ nested < Nested
  /\ CanEvaluate
  /\ steps < Limit
  /\ steps' = 0
  /\ total' = total + 1
  /\ nested' = nested + 1
  /\ stack' = Append(MovedTo(AfterEval), Fresh(form))
  /\ UNCHANGED <<signal, exited>>

Read(sig) ==
  /\ Running
  /\ Innermost.at = "read"
  /\ signal = "none"
  /\ signal' = sig
  /\ stack' = MovedTo("forms")
  /\ UNCHANGED <<steps, total, nested, exited>>

\* A mutant of Dispatch: signals are dispatched until none is left.
DispatchAgain ==
  /\ Running
  /\ signal = "none"
  /\ Innermost.at = "safe"
  /\ Len(stack) < MaxDepth
  /\ stack' = Append(stack, Fresh("handler"))
  /\ UNCHANGED <<signal, steps, total, nested, exited>>

\* eval_body's safe point: the handler of an OS signal is called, which is no step.
Dispatch ==
  /\ Running
  /\ signal = "none"
  /\ Innermost.at = "safe"
  /\ Len(stack) < MaxDepth
  /\ stack' = Append(MovedTo("next"), Fresh("handler"))
  /\ UNCHANGED <<signal, steps, total, nested, exited>>
-----------------------------------------------------------------------------
(* What a form does with the value or the signal it is left with. *)

Leave(sig) ==
  /\ stack' = Outside
  /\ signal' = sig
  /\ UNCHANGED <<steps, total, nested, exited>>

Return ==
  /\ Running
  /\ signal = "none"
  /\ \/ Innermost.at \in {"safe", "forms", "place"}
     \/ Innermost.at = "done" /\ Innermost.form # "catchInto"
  /\ Leave("none")

\* A mutant of Stops: catch makes no difference between signals.
StopsAny(form) ==
  \/ form = "catch"
  \/ form \in {"evalStringElse", "handler", "callback"}

\* The forms that turn a signal into a value: catch, if it is catchable, and
\* those that drop any.
Stops(form) ==
  \/ form = "catch" /\ signal \in Catchable
  \/ form \in {"evalStringElse", "handler", "callback"}

\* The forms that look at the result of an expression and go on evaluating.
GoesOn ==
  \/ Innermost.form = "catchInto" /\ Innermost.at = "done"
  \/ Innermost.form = "place" /\ Innermost.at = "place"

Unwind ==
  /\ Running
  /\ signal # "none"
  /\ ~ GoesOn
  /\ Leave(IF Stops(Innermost.form) THEN "none" ELSE signal)

\* A mutant of HoldResult: the result is held, and the signal goes on as well.
HoldAndRaise ==
  /\ Running
  /\ Innermost.form = "catchInto"
  /\ Innermost.at = "done"
  /\ stack' = [stack EXCEPT ![Len(stack)].at = "target", ![Len(stack)].held = signal]
  /\ UNCHANGED <<signal, steps, total, nested, exited>>

\* (catch expr target) evaluates the target whatever expr returned.
HoldResult ==
  /\ Running
  /\ Innermost.form = "catchInto"
  /\ Innermost.at = "done"
  /\ stack' = [stack EXCEPT ![Len(stack)].at = "target", ![Len(stack)].held = signal]
  /\ signal' = "none"
  /\ UNCHANGED <<steps, total, nested, exited>>

BindTarget ==
  /\ Running
  /\ Innermost.at = "bound"
  /\ signal = "none"
  /\ Leave(IF Innermost.held \in Uncatchable THEN Innermost.held ELSE "none")

TargetNotASymbol ==
  /\ Running
  /\ Innermost.at = "bound"
  /\ signal = "none"
  /\ Leave("error")

\* resolve_place failed, for whatever reason: the argument is not a place.
PlaceFails ==
  /\ Running
  /\ Innermost.form = "place"
  /\ Innermost.at = "place"
  /\ signal # "none"
  /\ stack' = MovedTo("value")
  /\ signal' = "none"
  /\ UNCHANGED <<steps, total, nested, exited>>

Evaluate ==
  \/ EvalRefused
  \/ EvalAtom
  \/ \E sig \in Signals \ {"limit"} : EvalRaise(sig)
  \/ \E form \in Forms : EvalForm(form)
  \/ \E form \in Forms : EvalString(form)
  \/ \E sig \in {"none", "error"} : Read(sig)
  \/ "handler" \in Forms /\ Dispatch

Finish == Return \/ Unwind \/ HoldResult \/ BindTarget \/ TargetNotASymbol \/ PlaceFails

Next == BeginRun \/ Evaluate \/ Finish

\* The evaluator keeps executing a run that has begun.
Spec == Init /\ [][Next]_vars /\ WF_vars(Evaluate \/ Finish)
-----------------------------------------------------------------------------
\* Only a catch with a target holds a result, while it evaluates the target, and
\* no form is asked for its next expression while a signal unwinds.
TypeOK ==
  /\ Len(stack) <= MaxDepth
  /\ \A i \in 1..Len(stack) :
       /\ stack[i].form \in AllForms
       /\ stack[i].at \in Places(stack[i].form)
       /\ stack[i].held \in Signals \cup {"none"}
       /\ stack[i].held # "none" => stack[i].at \in {"target", "bound"}
  /\ signal \in Signals \cup {"none"}
  /\ signal # "none" /\ Running => Innermost.at \notin {"read", "expr", "target", "value"}
  /\ steps \in 0..(Limit + 1)
  /\ total \in Nat
  /\ nested \in 0..Nested
  /\ exited \in BOOLEAN

\* The limit bounds the evaluations between two resets of the counter, through
\* every form that drops the signal and goes on (eval, set_eval_limit).
RunBudget == total <= Limit * (1 + nested)

\* An exit that none of the forms enclosing it may drop reaches the host, and
\* nothing is evaluated on the way (sf_catch, b_exit, main's run_or_exit).
Suppressors == {"catchInto", "evalStringElse", "place", "handler", "callback"}
Enclosing == {stack[i].form : i \in 1..Len(stack)}
ExitUnwinds ==
  [][Running /\ signal = "exit" /\ Enclosing \cap Suppressors = {} =>
       signal' = "exit" /\ total' = total /\ Len(stack') < Len(stack)]_vars

\* A run under a limit ends, however the script loops, catches and handles OS
\* signals, if it calls eval-string finitely often (ADR-0040: "a runaway script
\* is bounded by the step limit").
RunEnds == Running ~> ~ Running

\* What set_eval_limit promises: "the limit bounds one script run".
LimitBoundsRun == total <= Limit

\* What the documentation of Signal promises: a script cannot suppress its own exit.
ExitNotSuppressed == exited /\ ~ Running => signal = "exit"
=============================================================================
