--------------------------- MODULE Control_proofs ---------------------------
(***************************************************************************)
(* Proofs about Control, for every limit, every depth of nesting and every *)
(* set of forms: what the step limit bounds, and where an exit goes.       *)
(***************************************************************************)
EXTENDS Control, StackLemmas

AllPlaces == {"safe", "next", "expr", "done", "target", "bound", "read", "forms", "place", "value"}
FormState == [form : AllForms, at : AllPlaces, held : Signals \cup {"none"}]

\* Where a form may be when no form it entered is being evaluated any more, with
\* a signal or without.
Resting == AllPlaces \ {"read", "expr", "target", "value"}

\* A form on the stack is at a place of its own, and holds a result only while it
\* evaluates a target.
WellPlaced(f) ==
  /\ f.at \in Places(f.form)
  /\ f.held # "none" => f.at \in {"target", "bound"}

(***************************************************************************)
(* The inductive invariant.  A form moves on before it enters another, so  *)
(* the forms that wait are resting: a signal that comes back to them never *)
(* finds them about to evaluate.  What has been evaluated is bounded by a  *)
(* whole Limit for each eval-string called, and the steps since the last.  *)
(***************************************************************************)
Shape ==
  /\ stack \in Seq(FormState)
  /\ Len(stack) <= MaxDepth
  /\ \A i \in 1..Len(stack) : WellPlaced(stack[i])
  /\ \A i \in 1..Len(stack) : i < Len(stack) \/ signal # "none" => stack[i].at \in Resting

Counters ==
  /\ signal \in Signals \cup {"none"}
  /\ steps \in 0..(Limit + 1)
  /\ total \in Nat
  /\ nested \in 0..Nested
  /\ exited \in BOOLEAN
  /\ total <= Limit * nested + (IF steps > Limit THEN Limit ELSE steps)

Inv == Shape /\ Counters

\* Each kind of form has these places, and no others.
LEMMA PlacesFacts ==
  \A form \in AllForms :
    /\ Places(form) \subseteq AllPlaces
    /\ StartOf(form) \in Places(form)
BY DEF AllForms, Places, StartOf, AllPlaces

\* A form that may evaluate moves to a place where it can rest.
LEMMA AfterEvalFacts ==
  ASSUME Shape, CanEvaluate
  PROVE  /\ AfterEval \in Places(Innermost.form) \cap Resting
         /\ Innermost.held # "none" => AfterEval = "bound"
<1>1. stack # <<>> /\ Len(stack) \in 1..Len(stack)
  BY DEF CanEvaluate, Running, Shape
<1>2. Innermost \in FormState /\ WellPlaced(Innermost)
  BY <1>1 DEF Innermost, Shape
<1>3. Innermost.form \in AllForms
  BY <1>2 DEF FormState
<1>4. Innermost.at \in Places(Innermost.form) \ {"read", "done", "bound"}
      /\ (Innermost.held # "none" => Innermost.at \in {"target", "bound"})
  BY <1>2 DEF WellPlaced, CanEvaluate
<1> DEFINE f == Innermost.form
<1> DEFINE a == Innermost.at
<1>5. AfterEval = CASE a \in {"safe", "next"} -> "safe"
                    [] a \in {"forms", "place"} -> a
                    [] a \in {"expr", "value"} -> "done"
                    [] a = "target" -> "bound"
  BY DEF AfterEval
<1>6. f \in AllForms /\ a \in Places(f) \ {"read", "done", "bound"}
      /\ (Innermost.held # "none" => a \in {"target", "bound"})
  BY <1>3, <1>4
<1> HIDE DEF f, a
<1>7. AfterEval \in Places(f) \cap Resting
  <2>1. CASE f \in {"body", "handler", "callback"}
    BY <1>5, <1>6, <2>1 DEF Places, Resting, AllPlaces
  <2>2. CASE f = "catch"
    BY <1>5, <1>6, <2>2 DEF Places, Resting, AllPlaces
  <2>3. CASE f = "catchInto"
    BY <1>5, <1>6, <2>3 DEF Places, Resting, AllPlaces
  <2>4. CASE f \in {"evalString", "evalStringElse"}
    BY <1>5, <1>6, <2>4 DEF Places, Resting, AllPlaces
  <2>5. CASE f = "place"
    BY <1>5, <1>6, <2>5 DEF Places, Resting, AllPlaces
  <2>6. QED
    BY <1>6, <2>1, <2>2, <2>3, <2>4, <2>5 DEF AllForms
<1>8. Innermost.held # "none" => AfterEval = "bound"
  BY <1>5, <1>6
<1>9. QED
  BY <1>7, <1>8 DEF f
-----------------------------------------------------------------------------
\* The innermost form is put at another place.
LEMMA ReplaceKeepsShape ==
  ASSUME Shape, Running, NEW f \in FormState, WellPlaced(f),
         stack' = [stack EXCEPT ![Len(stack)] = f],
         signal' # "none" => f.at \in Resting
  PROVE  Shape'
<1> DEFINE n == Len(stack)
<1>1. n \in Nat /\ n \in 1..n
  BY DEF Running, Shape
<1>2. stack' \in Seq(FormState) /\ Len(stack') = n
      /\ \A i \in 1..n : stack'[i] = IF i = n THEN f ELSE stack[i]
  BY <1>1 DEF Shape
<1>3. /\ n <= MaxDepth
      /\ \A j \in 1..n : WellPlaced(stack[j])
      /\ \A j \in 1..n : j < n => stack[j].at \in Resting
  BY DEF Shape
<1> HIDE DEF n
<1>4. ASSUME NEW i \in 1..n
      PROVE  /\ WellPlaced(stack'[i])
             /\ i < n \/ signal' # "none" => stack'[i].at \in Resting
  <2>1. CASE i = n
    BY <1>1, <1>2, <2>1
  <2>2. CASE i # n
    <3>1. stack'[i] = stack[i] /\ i < n
      BY <1>1, <1>2, <2>2
    <3>2. WellPlaced(stack[i])
      BY <1>3
    <3>3. stack[i].at \in Resting
      BY <1>3, <3>1
    <3>4. QED
      BY <3>1, <3>2, <3>3
  <2>3. QED
    BY <2>1, <2>2
<1>5. QED
  BY <1>2, <1>3, <1>4 DEF Shape

\* MovedTo as the replacement of one form.
LEMMA MovedFacts ==
  ASSUME Shape, Running, NEW at \in Places(Innermost.form),
         Innermost.held # "none" => at \in {"target", "bound"}
  PROVE  LET f == [Innermost EXCEPT !.at = at]
         IN  /\ f \in FormState /\ WellPlaced(f) /\ f.at = at /\ f.form = Innermost.form
             /\ MovedTo(at) = [stack EXCEPT ![Len(stack)] = f]
<1>1. Len(stack) \in 1..Len(stack)
  BY DEF Running, Shape
<1>2. Innermost \in FormState
  BY <1>1 DEF Innermost, Shape
<1>3. at \in AllPlaces
  BY <1>2, PlacesFacts DEF FormState
<1> DEFINE f == [Innermost EXCEPT !.at = at]
<1>4. f \in FormState /\ f.at = at /\ f.form = Innermost.form /\ f.held = Innermost.held
  BY <1>2, <1>3 DEF FormState
<1>5. MovedTo(at) = [stack EXCEPT ![Len(stack)] = f]
  BY DEF MovedTo, Innermost
<1> HIDE DEF f
<1>6. WellPlaced(f)
  BY <1>4 DEF WellPlaced
<1>7. QED
  BY <1>4, <1>5, <1>6 DEF f

\* The same for a form that only changes its place.
LEMMA MoveKeepsShape ==
  ASSUME Shape, Running, NEW at \in Places(Innermost.form),
         Innermost.held # "none" => at \in {"target", "bound"},
         stack' = MovedTo(at), signal' # "none" => at \in Resting
  PROVE  Shape'
BY MovedFacts, ReplaceKeepsShape

\* A form that rests enters another.
LEMMA EnterKeepsShape ==
  ASSUME Shape, Running, NEW at \in Places(Innermost.form) \cap Resting,
         Innermost.held # "none" => at \in {"target", "bound"},
         Len(stack) < MaxDepth, NEW form \in AllForms,
         stack' = Append(MovedTo(at), Fresh(form)), signal' = "none"
  PROVE  Shape'
<1> DEFINE n == Len(stack)
<1> DEFINE f == [Innermost EXCEPT !.at = at]
<1>1. n \in Nat /\ n \in 1..n /\ stack \in Seq(FormState) /\ n + 1 <= MaxDepth
  BY ControlAssumption DEF Running, Shape
<1>2. f \in FormState /\ WellPlaced(f) /\ f.at = at /\ MovedTo(at) = [stack EXCEPT ![n] = f]
  BY MovedFacts
<1>3. Fresh(form) \in FormState /\ WellPlaced(Fresh(form))
  BY PlacesFacts DEF Fresh, FormState, WellPlaced
<1> DEFINE moved == [stack EXCEPT ![n] = f]
<1> DEFINE g == Fresh(form)
<1>4. stack' = Append(moved, g)
  BY <1>2
<1> HIDE DEF f, g
<1>5. moved \in Seq(FormState) /\ Len(moved) = n
      /\ \A i \in 1..n : moved[i] = IF i = n THEN f ELSE stack[i]
  BY <1>1, <1>2
<1> HIDE DEF moved
<1>6. /\ stack' \in Seq(FormState) /\ Len(stack') = n + 1 /\ stack'[n + 1] = g
      /\ \A i \in 1..n : stack'[i] = moved[i]
  BY <1>3, <1>4, <1>5 DEF g
<1>7. \A i \in 1..n : /\ WellPlaced(stack[i])
                      /\ i < n => stack[i].at \in Resting
  BY DEF Shape
<1> HIDE DEF n
<1>8. \A i \in 1..n : WellPlaced(stack'[i]) /\ stack'[i].at \in Resting
  BY <1>1, <1>2, <1>5, <1>6, <1>7
<1>9. \A i \in 1..(n + 1) : i \in 1..n \/ i = n + 1
  BY <1>1
<1>10. \A i \in 1..(n + 1) : /\ WellPlaced(stack'[i])
                             /\ i < n + 1 \/ signal' # "none" => stack'[i].at \in Resting
  BY <1>1, <1>3, <1>6, <1>8, <1>9 DEF g
<1>11. QED
  BY <1>1, <1>6, <1>10 DEF Shape

\* A form is left: the one that entered it rests, whatever comes back.
LEMMA LeaveKeepsShape ==
  ASSUME Shape, Running, stack' = Outside
  PROVE  Shape' /\ Len(stack') = Len(stack) - 1
<1> DEFINE n == Len(stack)
<1>1. n \in Nat /\ n \in 1..n /\ stack # <<>> /\ stack \in Seq(FormState) /\ n <= MaxDepth
  BY DEF Running, Shape
<1>2. stack' \in Seq(FormState) /\ Len(stack') = n - 1
      /\ \A i \in 1..(n - 1) : stack'[i] = stack[i]
  BY <1>1, PopFacts DEF Outside
<1>3. \A i \in 1..n : /\ WellPlaced(stack[i])
                      /\ i < n => stack[i].at \in Resting
  BY DEF Shape
<1> HIDE DEF n
<1>4. \A i \in 1..(n - 1) : i \in 1..n /\ i < n
  BY <1>1
<1>5. \A i \in 1..(n - 1) : WellPlaced(stack'[i]) /\ stack'[i].at \in Resting
  BY <1>2, <1>3, <1>4
<1>6. n - 1 <= MaxDepth
  BY <1>1, ControlAssumption
<1>7. QED
  BY <1>2, <1>5, <1>6 DEF Shape, n
-----------------------------------------------------------------------------
\* No run has begun at first.
LEMMA InvInit == Init => Inv
<1> SUFFICES ASSUME Init PROVE Inv
  OBVIOUS
<1>1. Shape
  BY ControlAssumption DEF Init, Shape
<1>2. Limit * 0 = 0
  BY ControlAssumption
<1>3. Limit * nested = 0 /\ ~ (steps > Limit) /\ total <= 0 + steps
  BY <1>2, ControlAssumption DEF Init
<1>4. total <= Limit * nested + (IF steps > Limit THEN Limit ELSE steps)
  BY <1>3
<1>5. exited \in BOOLEAN
  BY Zenon DEF Init
<1>6. Counters
  BY <1>4, <1>5, ControlAssumption DEF Init, Counters
<1>7. QED
  BY <1>1, <1>6 DEF Inv

\* Every step of the evaluator keeps the invariant.
LEMMA InvStep == Inv /\ [Next]_vars => Inv'
<1> SUFFICES ASSUME Inv, [Next]_vars PROVE Inv'
  OBVIOUS
<1> USE ControlAssumption
<1>1. Shape /\ Counters
  BY DEF Inv
<1>2. Running => /\ stack # <<>> /\ Len(stack) \in 1..Len(stack)
                 /\ Innermost \in FormState /\ WellPlaced(Innermost)
                 /\ Innermost.form \in AllForms /\ Innermost.at \in Places(Innermost.form)
                 /\ Innermost.held \in Signals \cup {"none"}
  <2>1. Running => stack # <<>> /\ Len(stack) \in 1..Len(stack)
    BY <1>1 DEF Running, Shape
  <2>2. Running => Innermost \in FormState /\ WellPlaced(Innermost)
    BY <1>1, <2>1 DEF Shape, Innermost
  <2>3. QED
    BY <2>1, <2>2 DEF FormState, WellPlaced
<1>3. CanEvaluate => Running /\ AfterEval \in Places(Innermost.form) \cap Resting
                     /\ (Innermost.held # "none" => AfterEval \in {"target", "bound"})
  BY <1>1, AfterEvalFacts DEF CanEvaluate
<1>4. CASE BeginRun
  <2>1. Fresh("evalString") \in FormState /\ WellPlaced(Fresh("evalString"))
    BY PlacesFacts DEF Fresh, FormState, WellPlaced, AllForms
  <2>2. Shape'
    BY <1>4, <2>1 DEF BeginRun, Shape
  <2>3. Limit * 0 = 0
    OBVIOUS
  <2>4. Limit * nested' = 0 /\ ~ (steps' > Limit) /\ total' <= 0 + steps'
    BY <1>4, <2>3 DEF BeginRun
  <2>5. total' <= Limit * nested' + (IF steps' > Limit THEN Limit ELSE steps')
    BY <2>4
  <2>6. exited' \in BOOLEAN
    BY <1>4, Zenon DEF BeginRun
  <2>7. Counters'
    BY <1>4, <2>5, <2>6 DEF BeginRun, Counters
  <2>8. QED
    BY <2>2, <2>7 DEF Inv
<1>5. CASE EvalRefused
  <2>1. Shape'
    BY <1>1, <1>3, <1>5, MoveKeepsShape DEF EvalRefused
  <2>2. Counters'
    BY <1>1, <1>5 DEF EvalRefused, Counters, Signals, Uncatchable
  <2>3. QED
    BY <2>1, <2>2 DEF Inv
<1>6. CASE EvalAtom
  <2>1. Shape'
    BY <1>1, <1>3, <1>6, MoveKeepsShape DEF EvalAtom, Tick
  <2>2. Counters'
    BY <1>1, <1>6 DEF EvalAtom, Tick, Counters
  <2>3. QED
    BY <2>1, <2>2 DEF Inv
<1>7. ASSUME NEW sig \in Signals, EvalRaise(sig) PROVE Inv'
  <2>1. Shape'
    BY <1>1, <1>3, <1>7, MoveKeepsShape DEF EvalRaise, Tick
  <2>2. Counters'
    BY <1>1, <1>7 DEF EvalRaise, Tick, Counters
  <2>3. QED
    BY <2>1, <2>2 DEF Inv
<1>8. ASSUME NEW form \in AllForms, EvalForm(form) PROVE Inv'
  <2>1. signal' = "none"
    BY <1>8 DEF EvalForm, Tick, CanEvaluate
  <2>2. Shape'
    BY <1>1, <1>3, <1>8, <2>1, EnterKeepsShape DEF EvalForm, Tick
  <2>3. Counters'
    BY <1>1, <1>8 DEF EvalForm, Tick, Counters
  <2>4. QED
    BY <2>2, <2>3 DEF Inv
<1>9. ASSUME NEW form \in AllForms, EvalString(form) PROVE Inv'
  <2>1. signal' = "none"
    BY <1>9 DEF EvalString, CanEvaluate
  <2>2. Shape'
    BY <1>1, <1>3, <1>9, <2>1, EnterKeepsShape DEF EvalString
  <2>3. Counters'
    <3> DEFINE spent == Limit * nested
    <3>1. spent \in Nat /\ Limit * (nested + 1) = spent + Limit
      BY <1>1 DEF Counters
    <3>2. /\ steps < Limit /\ steps' = 0 /\ total' = total + 1
          /\ nested < Nested /\ nested' = nested + 1 /\ UNCHANGED <<signal, exited>>
      BY <1>9 DEF EvalString
    <3>3. total <= spent + steps
      BY <1>1, <3>2 DEF Counters
    <3> HIDE DEF spent
    <3>4. total' <= spent + Limit
      BY <1>1, <3>1, <3>2, <3>3 DEF Counters
    <3>5. total' <= Limit * nested' + (IF steps' > Limit THEN Limit ELSE steps')
      BY <1>1, <3>1, <3>2, <3>4 DEF Counters
    <3>6. QED
      BY <1>1, <3>2, <3>5 DEF Counters
  <2>4. QED
    BY <2>2, <2>3 DEF Inv
<1>10. ASSUME NEW sig \in {"none", "error"}, Read(sig) PROVE Inv'
  <2>1. Running /\ Innermost.at = "read"
    BY <1>10 DEF Read
  <2>2. Innermost.form \in {"evalString", "evalStringElse"}
    BY <1>2, <2>1 DEF AllForms, Places
  <2>3. "forms" \in Places(Innermost.form) \cap Resting /\ Innermost.held = "none"
    BY <1>2, <2>1, <2>2 DEF Places, Resting, AllPlaces, WellPlaced
  <2>4. Shape'
    BY <1>1, <1>10, <2>1, <2>3, MoveKeepsShape DEF Read
  <2>5. Counters'
    BY <1>1, <1>10 DEF Read, Counters, Signals, Catchable
  <2>6. QED
    BY <2>4, <2>5 DEF Inv
<1>11. CASE Dispatch
  <2>1. Running /\ Innermost.at = "safe" /\ signal' = "none"
    BY <1>11 DEF Dispatch
  <2>2. Innermost.form \in {"body", "handler", "callback"}
    BY <1>2, <2>1 DEF AllForms, Places
  <2>3. "next" \in Places(Innermost.form) \cap Resting /\ Innermost.held = "none"
    BY <1>2, <2>1, <2>2 DEF Places, Resting, AllPlaces, WellPlaced
  <2>4. Shape'
    BY <1>1, <1>11, <2>1, <2>3, EnterKeepsShape DEF Dispatch, AllForms
  <2>5. Counters'
    BY <1>1, <1>11 DEF Dispatch, Counters
  <2>6. QED
    BY <2>4, <2>5 DEF Inv
<1>12. ASSUME NEW sig \in Signals \cup {"none"}, Running, Leave(sig) PROVE Inv'
  <2>1. Shape'
    BY <1>1, <1>12, LeaveKeepsShape DEF Leave
  <2>2. Counters'
    BY <1>1, <1>12 DEF Leave, Counters
  <2>3. QED
    BY <2>1, <2>2 DEF Inv
<1>13. CASE HoldResult
  <2> DEFINE f == [form |-> Innermost.form, at |-> "target", held |-> signal]
  <2>1. Running /\ Innermost.form = "catchInto" /\ signal' = "none"
        /\ stack' = [stack EXCEPT ![Len(stack)].at = "target", ![Len(stack)].held = signal]
    BY <1>13 DEF HoldResult
  <2>2. f \in FormState /\ WellPlaced(f)
    BY <1>1, <1>2, <2>1 DEF FormState, WellPlaced, Places, Counters, AllPlaces
  <2>3. stack' = [stack EXCEPT ![Len(stack)] = f]
    <3>1. Innermost = stack[Len(stack)] /\ Innermost \in FormState
      BY <1>2, <2>1 DEF Innermost
    <3>2. [[Innermost EXCEPT !.at = "target"] EXCEPT !.held = signal] = f
      <4>1. ASSUME NEW r \in FormState, NEW h
            PROVE  [[r EXCEPT !.at = "target"] EXCEPT !.held = h]
                     = [form |-> r.form, at |-> "target", held |-> h]
        <5>1. [r EXCEPT !.at = "target"] = [form |-> r.form, at |-> "target", held |-> r.held]
          BY DEF FormState
        <5>2. [[form |-> r.form, at |-> "target", held |-> r.held] EXCEPT !.held = h]
                = [form |-> r.form, at |-> "target", held |-> h]
          OBVIOUS
        <5>3. QED
          BY <5>1, <5>2
      <4>2. QED
        BY <3>1, <4>1
    <3>3. stack' = [stack EXCEPT ![Len(stack)] = [[Innermost EXCEPT !.at = "target"] EXCEPT !.held = signal]]
      BY <1>1, <1>2, <2>1, <3>1 DEF Shape
    <3>4. QED
      BY <3>2, <3>3
  <2>4. Shape'
    BY <1>1, <2>1, <2>2, <2>3, ReplaceKeepsShape
  <2>5. Counters'
    BY <1>1, <1>13 DEF HoldResult, Counters
  <2>6. QED
    BY <2>4, <2>5 DEF Inv
<1>14. CASE PlaceFails
  <2>1. Running /\ Innermost.form = "place" /\ Innermost.at = "place" /\ signal' = "none"
    BY <1>14 DEF PlaceFails
  <2>2. "value" \in Places(Innermost.form) /\ Innermost.held = "none"
    BY <1>2, <2>1 DEF Places, WellPlaced
  <2>3. Shape'
    BY <1>1, <1>14, <2>1, <2>2, MoveKeepsShape DEF PlaceFails
  <2>4. Counters'
    BY <1>1, <1>14 DEF PlaceFails, Counters
  <2>5. QED
    BY <2>3, <2>4 DEF Inv
<1>15. CASE Return
  BY <1>12, <1>15 DEF Return
<1>16. CASE Unwind
  BY <1>1, <1>12, <1>16 DEF Unwind, Counters
<1>17. CASE BindTarget \/ TargetNotASymbol
  BY <1>2, <1>12, <1>17 DEF BindTarget, TargetNotASymbol, Signals, Catchable
<1>18. CASE UNCHANGED vars
  BY <1>1, <1>18 DEF vars, Inv, Shape, Counters
<1>19. QED
  BY <1>4, <1>5, <1>6, <1>7, <1>8, <1>9, <1>10, <1>11, <1>13, <1>14, <1>15, <1>16, <1>17, <1>18
     DEF Next, Evaluate, Finish

\* The invariant holds for as many runs as the host begins.
THEOREM InvAlways == Init /\ [][Next]_vars => []Inv
<1>1. QED
  BY InvInit, InvStep, PTL
-----------------------------------------------------------------------------
\* Every form is at a place it has, and none is asked for its next expression while
\* a signal unwinds.
THEOREM TypeCorrect == Spec => []TypeOK
<1>1. Inv => TypeOK
  <2> SUFFICES ASSUME Inv PROVE TypeOK
    OBVIOUS
  <2>1. \A i \in 1..Len(stack) : stack[i] \in FormState
    BY DEF Inv, Shape
  <2>2. \A i \in 1..Len(stack) : /\ stack[i].form \in AllForms
                                 /\ stack[i].held \in Signals \cup {"none"}
    BY <2>1 DEF FormState
  <2>3. Running => Len(stack) \in 1..Len(stack)
    BY DEF Running, Inv, Shape
  <2>4. signal # "none" /\ Running => Innermost.at \in Resting
    BY <2>3 DEF Inv, Shape, Innermost
  <2>5. QED
    BY <2>2, <2>4 DEF Inv, Shape, Counters, WellPlaced, Resting, TypeOK
<1>2. QED
  BY <1>1, InvAlways, PTL DEF Spec

\* Whatever forms drop the limit signal and go on, a run evaluates at most Limit
\* times for each eval-string it calls, and Limit times besides.
THEOREM BudgetHolds == Spec => []RunBudget
<1>1. Inv => RunBudget
  <2> SUFFICES ASSUME Inv PROVE RunBudget
    OBVIOUS
  <2> DEFINE spent == Limit * nested
  <2>1. spent \in Nat /\ Limit * (1 + nested) = spent + Limit
    BY ControlAssumption DEF Inv, Counters
  <2>2. total <= spent + (IF steps > Limit THEN Limit ELSE steps)
    BY DEF Inv, Counters
  <2> HIDE DEF spent
  <2>3. total <= spent + Limit
    BY <2>1, <2>2, ControlAssumption DEF Inv, Counters
  <2>4. QED
    BY <2>1, <2>3 DEF RunBudget
<1>2. QED
  BY <1>1, InvAlways, PTL DEF Spec

\* Every step of an exit that no form around it may drop takes it one form outwards.
THEOREM ExitAlwaysUnwinds == Spec => ExitUnwinds
<1>1. Inv /\ [Next]_vars
        => [Running /\ signal = "exit" /\ Enclosing \cap Suppressors = {} =>
              signal' = "exit" /\ total' = total /\ Len(stack') < Len(stack)]_vars
  <2> SUFFICES ASSUME Inv, Next, Running, signal = "exit", Enclosing \cap Suppressors = {}
               PROVE  signal' = "exit" /\ total' = total /\ Len(stack') < Len(stack)
    BY DEF vars
  <2>1. Len(stack) \in 1..Len(stack) /\ Len(stack) \in Nat
    BY DEF Inv, Shape, Running
  <2>2. Innermost.form \notin Suppressors
    BY <2>1 DEF Enclosing, Innermost
  <2>3. Unwind
    BY <2>2 DEF Next, BeginRun, Evaluate, EvalRefused, EvalAtom, EvalRaise, EvalForm, EvalString,
                Tick, CanEvaluate, Read, Dispatch, Finish, Return, HoldResult, BindTarget,
                TargetNotASymbol, PlaceFails, Suppressors
  <2>4. Leave("exit")
    BY <2>2, <2>3 DEF Unwind, Stops, Suppressors, Catchable
  <2>5. Len(stack') = Len(stack) - 1
    BY <2>4, LeaveKeepsShape DEF Leave, Inv
  <2>6. QED
    BY <2>1, <2>4, <2>5 DEF Leave
<1>2. QED
  BY <1>1, InvAlways, PTL DEF Spec, ExitUnwinds
=============================================================================
