-------------------------- MODULE DynScope_proofs --------------------------
(***************************************************************************)
(* Proofs about DynScope, for every set of symbols and values and every    *)
(* depth of nesting: the slots are balanced, values come back, and DynScope *)
(* implements the stack of bindings EnvStack.                               *)
(***************************************************************************)
EXTENDS DynScope, StackLemmas

\* Changing the phase of the innermost form changes nothing else.
LEMMA SetPhaseFacts ==
  ASSUME FramesTypeOK, frames # <<>>, NEW phase \in Phases, SetPhase(phase)
  PROVE  /\ frames' \in Seq(Frame)
         /\ Len(frames') = Len(frames)
         /\ \A i \in 1..Len(frames) : i # Len(frames) => frames'[i] = frames[i]
         /\ frames'[Len(frames)] = [Innermost EXCEPT !.phase = phase]
<1>1. Len(frames) \in 1..Len(frames) /\ Innermost \in Frame
  BY DEF FramesTypeOK, Innermost
<1>2. [Innermost EXCEPT !.phase = phase] \in Frame
  BY <1>1 DEF Frame
<1>3. [Innermost EXCEPT !.phase = phase] = [frames[Len(frames)] EXCEPT !.phase = phase]
  BY DEF Innermost
<1>4. frames' = [frames EXCEPT ![Len(frames)] = [Innermost EXCEPT !.phase = phase]]
  BY <1>3 DEF SetPhase
<1>5. QED
  BY <1>1, <1>2, <1>4 DEF FramesTypeOK

\* Entering a form adds one frame.
LEMMA PushFrameFacts ==
  ASSUME FramesTypeOK, NEW kind \in Kinds, NEW phase \in Phases, NEW base \in Nat,
         PushFrame(kind, phase, base)
  PROVE  /\ frames' \in Seq(Frame)
         /\ Len(frames') = Len(frames) + 1
         /\ \A i \in 1..Len(frames) : frames'[i] = frames[i]
         /\ frames'[Len(frames) + 1] = [kind |-> kind, phase |-> phase, base |-> base]
<1>1. [kind |-> kind, phase |-> phase, base |-> base] \in Frame
  BY DEF Frame
<1>2. QED
  BY <1>1 DEF FramesTypeOK, PushFrame

\* Leaving a form removes its frame and no other.
LEMMA PopFrameFacts ==
  ASSUME FramesTypeOK, frames # <<>>, PopFrame
  PROVE  /\ frames' \in Seq(Frame)
         /\ Len(frames') = Len(frames) - 1
         /\ \A i \in 1..Len(frames') : frames'[i] = frames[i]
BY PopFacts DEF FramesTypeOK, PopFrame
-----------------------------------------------------------------------------
(***************************************************************************)
(* The inductive invariant.  ScopesNest speaks of the innermost catch; for *)
(* it to survive the return of the form inside, every catch must end where *)
(* it began, and for the last form to leave nothing saved, the first must  *)
(* begin at the bottom.  EndOf(i) is how much was saved when the part of   *)
(* form i ends.                                                            *)
(***************************************************************************)
EndOf(i) == IF i = Len(frames) THEN Len(saved) ELSE frames[i + 1].base

FirstAtBottom == frames # <<>> => frames[1].base = 0

CatchesEmpty ==
  \A i \in 1..Len(frames) : frames[i].kind = "catch" => EndOf(i) = frames[i].base

\* A loop has saved its variable's slot, which Iterate names.
LoopsBound ==
  \A i \in 1..Len(frames) :
    frames[i].kind = "loop" /\ frames[i].phase = "running" => EndOf(i) > frames[i].base

\* args lists the running calls, outermost first.
ArgsExact ==
  /\ \A k \in 1..Len(args) : args[k] \in RunningCalls
  /\ \A i \in RunningCalls : \E k \in 1..Len(args) : args[k] = i
  /\ \A k, l \in 1..Len(args) : k < l => args[k] < args[l]

Inv == TypeOK /\ ScopesNest /\ FirstAtBottom /\ CatchesEmpty /\ LoopsBound /\ ArgsExact

\* No form is being evaluated at first, and nothing is saved.
LEMMA InvInit == Init => Inv
<1> SUFFICES ASSUME Init PROVE Inv
  OBVIOUS
<1>1. TypeOK
  BY DEF Init, FramesInit, TypeOK, FramesTypeOK, Slot
<1>2. QED
  BY <1>1 DEF Init, FramesInit, Inv, ScopesNest, FirstAtBottom, CatchesEmpty, LoopsBound,
              ArgsExact, RunningCalls

\* A step that touches neither the forms nor what they saved.
LEMMA ValuesOnly ==
  ASSUME Inv, UNCHANGED <<frames, saved, args>>,
         globals' \in [Symbols -> Slot], signal' \in Signals \cup {"none"}
  PROVE  Inv'
<1>1. TypeOK'
  BY DEF Inv, TypeOK, FramesTypeOK
<1>2. QED
  BY <1>1 DEF Inv, ScopesNest, FirstAtBottom, CatchesEmpty, LoopsBound, ArgsExact,
              RunningCalls, EndOf, Innermost

\* A step that enters a form, and saves the slots of what the form binds at once.
LEMMA EnterKeepsInv ==
  ASSUME Inv, NEW kind \in Kinds, NEW phase \in {"binding", "running"},
         PushFrame(kind, phase, Len(saved)),
         phase = "binding" <=> kind \in {"letn", "call"},
         saved' \in Seq(SavedSlot), Len(saved') >= Len(saved),
         kind = "catch" => Len(saved') = Len(saved),
         kind = "loop" => Len(saved') > Len(saved),
         globals' \in [Symbols -> Slot], UNCHANGED args
  PROVE  Inv'
<1> DEFINE n == Len(frames)
<1>1. n \in Nat /\ Len(saved) \in Nat /\ Len(saved') \in Nat
  BY DEF Inv, TypeOK, FramesTypeOK
<1>2. /\ frames' \in Seq(Frame)
      /\ Len(frames') = n + 1
      /\ \A i \in 1..n : frames'[i] = frames[i]
      /\ frames'[n + 1] = [kind |-> kind, phase |-> phase, base |-> Len(saved)]
  BY <1>1, PushFrameFacts DEF Inv, TypeOK, Phases
<1>3. \A i \in 1..n : frames[i] \in Frame
  BY DEF Inv, TypeOK, FramesTypeOK
<1>4. \A i \in 1..n : frames[i].phase # "leaving"
  <2>1. \A i \in 1..n : frames[i].phase = "leaving" => i = n
    BY DEF Inv, TypeOK, FramesTypeOK
  <2>2. n > 0 => frames # <<>>
    BY <1>1
  <2>3. n > 0 => frames[n].phase # "leaving"
    BY <2>2 DEF PushFrame, Evaluating, Innermost
  <2>4. QED
    BY <1>1, <2>1, <2>3
<1>5. /\ frames' # <<>> /\ Innermost' = frames'[n + 1]
      /\ frames'[n + 1].kind = kind
      /\ frames'[n + 1].phase = phase
      /\ frames'[n + 1].base = Len(saved)
  BY <1>1, <1>2 DEF Innermost
<1>6. n = 0 => frames = <<>>
  BY DEF Inv, TypeOK, FramesTypeOK
<1>7. FramesTypeOK'
  <2>1. \A i \in 1..n : frames[i].phase = "binding" => frames[i].kind \in {"letn", "call"}
    BY DEF Inv, TypeOK, FramesTypeOK
  <2>2. signal' \in Signals \cup {"none"}
    BY DEF Inv, TypeOK, FramesTypeOK, PushFrame
  <2>3. \A i \in 1..(n + 1) : i \in 1..n \/ i = n + 1
    BY <1>1
  <2> HIDE DEF n
  <2>4. QED
    BY <1>2, <1>4, <1>5, <2>1, <2>2, <2>3 DEF FramesTypeOK
<1>8. TypeOK'
  BY <1>7 DEF Inv, TypeOK
<1>9. /\ \A i \in 1..n : frames[i].base \in Nat /\ frames[i].base <= Len(saved)
      /\ \A i, j \in 1..n : i < j => frames[i].base <= frames[j].base
  BY <1>3 DEF Inv, ScopesNest, Frame
<1>10. \A i \in 1..n : EndOf(i)' = EndOf(i)
  BY <1>1, <1>2, <1>5 DEF EndOf
<1>11. \A i \in {n + 1} : EndOf(i)' = Len(saved')
  BY <1>2 DEF EndOf
<1>12. FirstAtBottom'
  <2>1. n = 0 => Len(saved) = 0
    BY <1>6 DEF Inv, ScopesNest
  <2>2. n > 0 => frames[1].base = 0
    BY <1>1 DEF Inv, FirstAtBottom
  <2>3. QED
    BY <1>1, <1>2, <1>5, <2>1, <2>2 DEF FirstAtBottom
<1>13. \A i \in 1..n : /\ frames[i].kind = "catch" => EndOf(i) = frames[i].base
                       /\ frames[i].kind = "loop" /\ frames[i].phase = "running"
                            => EndOf(i) > frames[i].base
  BY DEF Inv, CatchesEmpty, LoopsBound
<1>14. RunningCalls' = RunningCalls
  BY <1>1, <1>2, <1>5 DEF RunningCalls
<1>15. ArgsExact'
  BY <1>14 DEF Inv, ArgsExact
<1>16. \A i \in 1..(n + 1) : i \in 1..n \/ i \in {n + 1}
  BY <1>1
<1> HIDE DEF n
<1>17. ScopesNest'
  BY <1>1, <1>2, <1>5, <1>9, <1>16, SMTT(30) DEF ScopesNest
<1>18. CatchesEmpty' /\ LoopsBound'
  BY <1>1, <1>2, <1>5, <1>10, <1>11, <1>13, <1>16 DEF CatchesEmpty, LoopsBound
<1>19. QED
  BY <1>8, <1>12, <1>15, <1>17, <1>18 DEF Inv

\* A step that saves or restores slots of the innermost form.
LEMMA SavedKeepsInv ==
  ASSUME Inv, UNCHANGED <<frames, args, signal>>, frames # <<>>,
         Innermost.kind # "catch",
         Innermost.kind = "loop" => Innermost.phase = "leaving",
         saved' \in Seq(SavedSlot), Len(saved') >= Innermost.base,
         globals' \in [Symbols -> Slot]
  PROVE  Inv'
<1> DEFINE n == Len(frames)
<1>1. n \in Nat /\ n > 0 /\ Len(saved') \in Nat
  BY DEF Inv, TypeOK, FramesTypeOK
<1>2. \A i \in 1..n : frames[i].base \in Nat
  <2>1. \A i \in 1..n : frames[i] \in Frame
    BY DEF Inv, TypeOK, FramesTypeOK
  <2>2. QED
    BY <2>1 DEF Frame
<1>3. Innermost' = Innermost /\ Innermost = frames[n]
  BY DEF Innermost
<1>4. TypeOK' /\ ArgsExact'
  BY DEF Inv, TypeOK, FramesTypeOK, ArgsExact, RunningCalls
<1>5. \A i, j \in 1..n : i < j => frames[i].base <= frames[j].base
  BY DEF Inv, ScopesNest
<1>6. \A i \in 1..n : frames[i].base <= frames[n].base
  BY <1>1, <1>2, <1>5
<1>7. ScopesNest'
  BY <1>1, <1>2, <1>3, <1>5, <1>6 DEF ScopesNest
<1>8. \A i \in 1..n : i # n => EndOf(i)' = EndOf(i)
  BY DEF EndOf
<1>9. CatchesEmpty' /\ LoopsBound'
  BY <1>1, <1>3, <1>8 DEF Inv, CatchesEmpty, LoopsBound
<1>10. FirstAtBottom'
  BY DEF Inv, FirstAtBottom
<1>11. QED
  BY <1>4, <1>7, <1>9, <1>10 DEF Inv

\* A step that moves the innermost form to another phase, and changes the calls
\* that run and args together.
LEMMA PhaseKeepsInv ==
  ASSUME Inv, frames # <<>>, NEW phase \in Phases, SetPhase(phase),
         Innermost.kind # "catch", Innermost.phase # phase, phase # "binding",
         Innermost.kind = "loop" => phase = "leaving",
         UNCHANGED <<globals, saved, signal>>,
         args' \in Seq(Nat), ArgsExact'
  PROVE  Inv'
<1> DEFINE n == Len(frames)
<1>1. n \in Nat /\ n > 0 /\ Len(saved) \in Nat
  BY DEF Inv, TypeOK, FramesTypeOK
<1>2. /\ frames' \in Seq(Frame)
      /\ Len(frames') = n
      /\ \A i \in 1..n : i # n => frames'[i] = frames[i]
      /\ frames'[n] = [Innermost EXCEPT !.phase = phase]
  BY SetPhaseFacts DEF Inv, TypeOK
<1>3. Innermost \in Frame /\ Innermost = frames[n]
  BY <1>1 DEF Innermost, Inv, TypeOK, FramesTypeOK
<1>4. /\ frames'[n].kind = Innermost.kind
      /\ frames'[n].base = Innermost.base
      /\ frames'[n].phase = phase
  BY <1>2, <1>3 DEF Frame
<1>5. \A i \in 1..n : frames'[i].kind = frames[i].kind /\ frames'[i].base = frames[i].base
  BY <1>2, <1>3, <1>4
<1>6. FramesTypeOK'
  <2>1. /\ \A i \in 1..n :
             /\ frames[i].phase = "binding" => frames[i].kind \in {"letn", "call"}
             /\ frames[i].phase = "leaving" => frames[i].kind # "catch" /\ i = n
        /\ signal' \in Signals \cup {"none"}
    BY DEF Inv, TypeOK, FramesTypeOK
  <2> HIDE DEF n
  <2>2. ASSUME NEW i \in 1..n
        PROVE  /\ frames'[i].phase = "binding" => frames'[i].kind \in {"letn", "call"}
               /\ frames'[i].phase = "leaving" => frames'[i].kind # "catch" /\ i = n
    <3>1. CASE i = n
      BY <1>4, <3>1
    <3>2. CASE i # n
      BY <1>2, <2>1, <3>2
    <3>3. QED
      BY <3>1, <3>2
  <2>3. frames' \in Seq(Frame) /\ Len(frames') = n
    BY <1>2
  <2>4. QED
    BY <2>1, <2>2, <2>3 DEF FramesTypeOK
<1>7. TypeOK'
  BY <1>6 DEF Inv, TypeOK
<1>8. \A i \in 1..n : EndOf(i)' = EndOf(i)
  BY <1>1, <1>2, <1>5 DEF EndOf
<1>9. frames' # <<>> /\ Innermost' = frames'[n]
  BY <1>1, <1>2 DEF Innermost
<1>10. /\ \A i \in 1..n : frames[i].base <= Len(saved)
       /\ \A i, j \in 1..n : i < j => frames[i].base <= frames[j].base
       /\ frames[1].base = 0
  BY DEF Inv, ScopesNest, FirstAtBottom
<1>11. \A i \in 1..n : /\ frames[i].kind = "catch" => EndOf(i) = frames[i].base
                       /\ frames[i].kind = "loop" /\ frames[i].phase = "running"
                            => EndOf(i) > frames[i].base
  BY DEF Inv, CatchesEmpty, LoopsBound
<1> HIDE DEF n
<1>12. ScopesNest'
  BY <1>1, <1>2, <1>3, <1>4, <1>5, <1>9, <1>10 DEF ScopesNest
<1>13. FirstAtBottom'
  BY <1>1, <1>5, <1>10 DEF FirstAtBottom
<1>14. CatchesEmpty'
  BY <1>2, <1>5, <1>8, <1>11 DEF CatchesEmpty
<1>15. LoopsBound'
  <2>1. ASSUME NEW i \in 1..n, frames'[i].kind = "loop", frames'[i].phase = "running"
        PROVE  i # n
    BY <1>3, <1>4, <2>1
  <2>2. QED
    BY <1>2, <1>5, <1>8, <1>11, <2>1 DEF LoopsBound
<1>16. QED
  BY <1>7, <1>12, <1>13, <1>14, <1>15 DEF Inv

\* A step that takes the innermost form away, once nothing of it is saved.
LEMMA PopKeepsInv ==
  ASSUME Inv, frames # <<>>, PopFrame,
         Innermost.phase = "leaving" \/ Innermost.kind = "catch",
         Len(saved) = Innermost.base,
         UNCHANGED <<saved, args>>,
         globals' \in [Symbols -> Slot], signal' \in Signals \cup {"none"}
  PROVE  Inv'
<1> DEFINE n == Len(frames)
<1>1. n \in Nat /\ n > 0 /\ Len(saved) \in Nat
  BY DEF Inv, TypeOK, FramesTypeOK
<1>2. /\ frames' \in Seq(Frame)
      /\ Len(frames') = n - 1
      /\ \A i \in 1..(n - 1) : frames'[i] = frames[i]
  BY PopFrameFacts DEF Inv, TypeOK
<1>3. Innermost = frames[n] /\ frames[n].base = Len(saved)
  BY DEF Innermost
<1>4. /\ \A i \in 1..n : /\ frames[i].phase = "binding" => frames[i].kind \in {"letn", "call"}
                         /\ frames[i].phase = "leaving" => frames[i].kind # "catch" /\ i = n
      /\ n \notin RunningCalls
  BY <1>3 DEF Inv, TypeOK, FramesTypeOK, RunningCalls
<1>5. /\ \A i \in 1..n : frames[i].base <= Len(saved)
      /\ \A i, j \in 1..n : i < j => frames[i].base <= frames[j].base
      /\ frames[1].base = 0
  BY DEF Inv, ScopesNest, FirstAtBottom
<1>6. \A i \in 1..n : /\ frames[i].kind = "catch" => EndOf(i) = frames[i].base
                      /\ frames[i].kind = "loop" /\ frames[i].phase = "running"
                           => EndOf(i) > frames[i].base
  BY DEF Inv, CatchesEmpty, LoopsBound
<1>7. \A i \in 1..(n - 1) : EndOf(i)' = EndOf(i)
  BY <1>1, <1>2, <1>3 DEF EndOf
<1>8. EndOf(n - 1) = frames[n].base
  BY <1>1 DEF EndOf
<1> HIDE DEF n
<1>9. \A i \in 1..(n - 1) : i \in 1..n /\ i # n
  BY <1>1
<1>10. FramesTypeOK'
  BY <1>2, <1>4, <1>9 DEF FramesTypeOK
<1>11. TypeOK'
  BY <1>10 DEF Inv, TypeOK
<1>12. RunningCalls' = RunningCalls
  BY <1>1, <1>2, <1>4, <1>9, SMTT(30) DEF RunningCalls, n
<1>13. ArgsExact'
  BY <1>12 DEF Inv, ArgsExact
<1>14. FirstAtBottom' /\ CatchesEmpty' /\ LoopsBound'
  BY <1>1, <1>2, <1>5, <1>6, <1>7, <1>9 DEF FirstAtBottom, CatchesEmpty, LoopsBound
<1>15. ScopesNest'
  <2>1. frames' = <<>> => n = 1
    BY <1>1, <1>2
  <2>2. frames' = <<>> => saved' = <<>>
    BY <1>1, <1>3, <1>5, <2>1 DEF Inv, TypeOK
  <2>3. frames' # <<>> => n - 1 \in 1..(n - 1) /\ Innermost' = frames[n - 1]
    BY <1>1, <1>2 DEF Innermost
  <2>4. frames' # <<>> /\ Innermost'.kind = "catch" => Len(saved') = Innermost'.base
    BY <1>3, <1>6, <1>8, <1>9, <2>3
  <2>5. QED
    BY <1>2, <1>5, <1>9, <2>2, <2>4 DEF ScopesNest
<1>16. QED
  BY <1>11, <1>13, <1>14, <1>15 DEF Inv
-----------------------------------------------------------------------------
\* Which calls run once the innermost form has changed its phase.
LEMMA RunningAfter ==
  ASSUME FramesTypeOK, frames # <<>>, NEW phase \in Phases, SetPhase(phase)
  PROVE  RunningCalls' = IF Innermost.kind = "call" /\ phase = "running"
                           THEN RunningCalls \cup {Len(frames)}
                           ELSE RunningCalls \ {Len(frames)}
<1> DEFINE n == Len(frames)
<1>1. n \in Nat /\ n \in 1..n
  BY DEF FramesTypeOK
<1>2. /\ Len(frames') = n
      /\ \A i \in 1..n : i # n => frames'[i] = frames[i]
      /\ frames'[n] = [Innermost EXCEPT !.phase = phase]
  BY SetPhaseFacts
<1>3. Innermost \in Frame
  BY <1>1 DEF Innermost, FramesTypeOK
<1>4. frames'[n].kind = Innermost.kind /\ frames'[n].phase = phase
  BY <1>2, <1>3 DEF Frame
<1>5. Len(frames') = n /\ \A i \in 1..n : i # n => frames'[i] = frames[i]
  BY <1>2
<1> HIDE DEF n
<1>6. ASSUME NEW i
      PROVE  i \in RunningCalls' <=>
               \/ i \in 1..n /\ i # n /\ i \in RunningCalls
               \/ i = n /\ Innermost.kind = "call" /\ phase = "running"
  BY <1>1, <1>4, <1>5 DEF RunningCalls, n
<1>7. RunningCalls \subseteq 1..n
  BY DEF RunningCalls, n
<1>8. QED
  BY <1>6, <1>7 DEF n

\* The call that begins its body is the innermost form, so what it pushes is above
\* everything already there.
LEMMA RunKeepsInv == Inv /\ Run => Inv'
<1> SUFFICES ASSUME Inv, Run PROVE Inv'
  OBVIOUS
<1> DEFINE n == Len(frames)
<1>1. /\ frames # <<>> /\ Innermost.phase = "binding"
      /\ SetPhase("running")
      /\ args' = IF Innermost.kind = "call" THEN Append(args, n) ELSE args
      /\ UNCHANGED <<globals, saved, signal>>
  BY DEF Run, BindingPhase, ArgsOf
<1>2. n \in 1..n /\ n \in Nat /\ "running" \in Phases
  BY <1>1 DEF Inv, TypeOK, FramesTypeOK, Phases
<1>3. Innermost.kind \in {"letn", "call"}
  BY <1>1, <1>2 DEF Inv, TypeOK, FramesTypeOK, Innermost
<1>4. n \notin RunningCalls /\ RunningCalls \subseteq 1..n
  BY <1>1, <1>2 DEF RunningCalls, Innermost
<1>5. RunningCalls' = IF Innermost.kind = "call" THEN RunningCalls \cup {n} ELSE RunningCalls
  BY <1>1, <1>2, <1>4, RunningAfter DEF Inv, TypeOK
<1>6. args \in Seq(Nat) /\ ArgsExact
  BY DEF Inv, TypeOK
<1> HIDE DEF n
<1>7. args' \in Seq(Nat) /\ ArgsExact'
  <2>1. CASE Innermost.kind = "call"
    <3>1. /\ args' = Append(args, n)
          /\ RunningCalls' = RunningCalls \cup {n}
      BY <1>1, <1>5, <2>1
    <3>2. /\ args' \in Seq(Nat)
          /\ Len(args') = Len(args) + 1
          /\ \A k \in 1..Len(args) : args'[k] = args[k]
          /\ args'[Len(args) + 1] = n
          /\ Len(args) \in Nat
      BY <1>2, <1>6, <3>1
    <3>3. \A k \in 1..Len(args) : args[k] \in 1..n /\ args[k] # n
      BY <1>4, <1>6 DEF ArgsExact
    <3>4. \A k \in 1..Len(args') : k \in 1..Len(args) \/ k = Len(args) + 1
      BY <3>2
    <3>5. \A k \in 1..Len(args') : args'[k] \in RunningCalls'
      BY <1>6, <3>1, <3>2, <3>4 DEF ArgsExact
    <3>6. \A i \in RunningCalls' : \E k \in 1..Len(args') : args'[k] = i
      BY <1>6, <3>1, <3>2 DEF ArgsExact
    <3>7. ASSUME NEW k \in 1..Len(args'), NEW l \in 1..Len(args'), k < l
          PROVE  args'[k] < args'[l]
      <4>1. k \in 1..Len(args)
        BY <3>2, <3>7
      <4>2. CASE l \in 1..Len(args)
        BY <1>6, <3>2, <3>7, <4>1, <4>2 DEF ArgsExact
      <4>3. CASE l = Len(args) + 1
        BY <1>2, <3>2, <3>3, <4>1, <4>3
      <4>4. QED
        BY <3>4, <4>2, <4>3
    <3>8. QED
      BY <3>2, <3>5, <3>6, <3>7 DEF ArgsExact
  <2>2. CASE Innermost.kind # "call"
    BY <1>1, <1>5, <1>6, <2>2 DEF ArgsExact
  <2>3. QED
    BY <2>1, <2>2
<1>8. QED
  BY <1>1, <1>2, <1>3, <1>7, PhaseKeepsInv

\* The innermost running call is the last that args lists, so a call that ends
\* pops its own.
LEMMA LeaveScopeKeepsInv == Inv /\ LeaveScope => Inv'
<1> SUFFICES ASSUME Inv, LeaveScope PROVE Inv'
  OBVIOUS
<1> DEFINE n == Len(frames)
<1> DEFINE m == Len(args)
<1> DEFINE running == Innermost.kind = "call" /\ Innermost.phase = "running"
<1>1. /\ frames # <<>> /\ Innermost.kind # "catch"
      /\ Innermost.phase \in {"running", "binding"}
      /\ SetPhase("leaving")
      /\ args' = IF running THEN SubSeq(args, 1, m - 1) ELSE args
      /\ UNCHANGED <<globals, saved, signal>>
  BY DEF LeaveScope, EndScope
<1>2. n \in 1..n /\ n \in Nat /\ "leaving" \in Phases
  BY <1>1 DEF Inv, TypeOK, FramesTypeOK, Phases
<1>3. RunningCalls \subseteq 1..n /\ (n \in RunningCalls <=> running)
  BY <1>2 DEF RunningCalls, Innermost
<1>4. RunningCalls' = RunningCalls \ {n}
  BY <1>1, <1>2, RunningAfter DEF Inv, TypeOK
<1>5. args \in Seq(Nat) /\ ArgsExact /\ m \in Nat
  BY DEF Inv, TypeOK
<1> HIDE DEF n, m, running
<1>6. args' \in Seq(Nat) /\ ArgsExact'
  <2>1. CASE running
    <3>1. PICK k \in 1..m : args[k] = n
      BY <1>3, <1>5, <2>1 DEF ArgsExact, m
    <3>2. k = m
      <4>1. ASSUME k < m PROVE FALSE
        <5>1. m \in 1..m /\ args[m] \in 1..n /\ args[k] < args[m]
          BY <1>3, <1>5, <4>1 DEF ArgsExact, m
        <5>2. QED
          BY <1>2, <3>1, <5>1
      <4>2. QED
        BY <1>5, <4>1
    <3>3. args # <<>> /\ m \in 1..m /\ m - 1 \in Nat
      BY <1>5, <3>1, <3>2 DEF m
    <3>4. /\ args' \in Seq(Nat)
          /\ Len(args') = m - 1
          /\ \A l \in 1..(m - 1) : args'[l] = args[l]
      BY <1>1, <1>5, <2>1, <3>3, PopFacts DEF m
    <3>5. \A l \in 1..(m - 1) : l \in 1..m /\ l < m
      BY <1>5
    <3>6. \A l \in 1..(m - 1) : args[l] \in RunningCalls /\ args[l] < n
      BY <1>5, <3>1, <3>2, <3>3, <3>5 DEF ArgsExact, m
    <3>7. \A l \in 1..(m - 1) : args[l] \in RunningCalls'
      BY <1>2, <1>3, <1>4, <3>6
    <3>8. \A i \in RunningCalls' : \E l \in 1..(m - 1) : args[l] = i
      <4>1. ASSUME NEW i \in RunningCalls' PROVE \E l \in 1..(m - 1) : args[l] = i
        <5>1. i \in RunningCalls /\ i # n
          BY <1>4
        <5>2. PICK l \in 1..m : args[l] = i
          BY <1>5, <5>1 DEF ArgsExact, m
        <5>3. l # m
          BY <3>1, <3>2, <5>1, <5>2
        <5>4. l \in 1..(m - 1)
          BY <1>5, <5>3
        <5>5. QED
          BY <5>2, <5>4
      <4>2. QED
        BY <4>1
    <3>9. \A j, l \in 1..(m - 1) : j < l => args[j] < args[l]
      BY <1>5, <3>5 DEF ArgsExact, m
    <3>10. QED
      BY <3>4, <3>7, <3>8, <3>9 DEF ArgsExact
  <2>2. CASE ~ running
    BY <1>1, <1>3, <1>4, <1>5, <2>2 DEF ArgsExact
  <2>3. QED
    BY <2>1, <2>2
<1>7. QED
  BY <1>1, <1>2, <1>6, PhaseKeepsInv

\* Every value an expression can have fits a slot.
LEMMA ValueOfTyped ==
  ASSUME TypeOK, NEW e \in Expressions
  PROVE  ValueOf(e) \in Slot
BY ScopeAssumption DEF TypeOK, ValueOf, lookup, Expressions, Slot

\* Every step keeps the invariant.
LEMMA NextKeepsInv == Inv /\ [Next]_vars => Inv'
<1> SUFFICES ASSUME Inv, [Next]_vars PROVE Inv'
  OBVIOUS
<1>1. TypeOK /\ FramesTypeOK /\ Nil \in Slot /\ Values \subseteq Slot
  BY ScopeAssumption DEF Inv, TypeOK, Slot
<1>2. /\ globals \in [Symbols -> Slot] /\ saved \in Seq(SavedSlot)
      /\ signal \in Signals \cup {"none"}
      /\ Len(saved) \in Nat
      /\ \A s \in Symbols, v \in Slot : [globals EXCEPT ![s] = v] \in [Symbols -> Slot]
      /\ \A s \in Symbols : SavedFrom(globals, s) \in SavedSlot
      /\ \A e \in Expressions : ValueOf(e) \in Slot
  BY <1>1, ValueOfTyped DEF TypeOK, FramesTypeOK, SavedFrom, SavedSlot
<1>3. ASSUME NEW x \in SavedSlot
      PROVE  Append(saved, x) \in Seq(SavedSlot) /\ Len(Append(saved, x)) = Len(saved) + 1
  BY <1>2
<1>4. frames # <<>> => /\ Innermost \in Frame
                       /\ Innermost.base \in Nat /\ Innermost.base <= Len(saved)
                       /\ Innermost.phase = "binding" => Innermost.kind \in {"letn", "call"}
                       /\ Innermost.phase = "leaving" => Innermost.kind # "catch"
  <2>1. frames # <<>> => Len(frames) \in 1..Len(frames)
    BY <1>1 DEF FramesTypeOK
  <2>2. frames # <<>> => Innermost \in Frame
    BY <1>1, <2>1 DEF FramesTypeOK, Innermost
  <2>3. frames # <<>> => Innermost.base <= Len(saved)
    BY <2>1 DEF Inv, ScopesNest, Innermost
  <2>4. QED
    BY <1>1, <2>1, <2>2, <2>3 DEF FramesTypeOK, Innermost, Frame
<1>5. ASSUME NEW s \in Symbols, NEW e \in Expressions, Assign(s, e) PROVE Inv'
  BY <1>2, <1>5, ValuesOnly DEF Assign, SetGlobal
<1>6. ASSUME NEW s \in Symbols, NEW t \in Symbols, NEW e \in Expressions, NEW f \in Expressions,
             EnterLet(s, e, t, f)
      PROVE  Inv'
  <2> DEFINE g == [globals EXCEPT ![s] = ValueOf(e)]
  <2>1. g \in [Symbols -> Slot]
    BY <1>2
  <2>2. [g EXCEPT ![t] = ValueOf(f)] \in [Symbols -> Slot] /\ SavedFrom(g, t) \in SavedSlot
    BY <1>2, <2>1 DEF SavedFrom, SavedSlot
  <2>3. /\ PushFrame("let", "running", Len(saved))
        /\ saved' = Append(Append(saved, SavedFrom(globals, s)), SavedFrom(g, t))
        /\ globals' = [g EXCEPT ![t] = ValueOf(f)]
        /\ UNCHANGED args
    BY <1>6 DEF EnterLet
  <2> HIDE DEF g
  <2>4. saved' \in Seq(SavedSlot) /\ Len(saved') = Len(saved) + 1 + 1
    <3>1. PICK x \in SavedSlot, y \in SavedSlot : saved' = Append(Append(saved, x), y)
      BY <1>2, <2>2, <2>3
    <3>2. QED
      BY <1>2, <3>1
  <2>5. QED
    BY <1>2, <2>2, <2>3, <2>4, EnterKeepsInv DEF Kinds
<1>7. ASSUME NEW kind \in {"let", "loop"}, NEW s \in Symbols, EnterNil(kind, s) PROVE Inv'
  <2>1. /\ PushFrame(kind, "running", Len(saved))
        /\ saved' = Append(saved, SavedFrom(globals, s))
        /\ globals' = [globals EXCEPT ![s] = Nil]
        /\ UNCHANGED args
    BY <1>7 DEF EnterNil, SetGlobal
  <2>2. saved' \in Seq(SavedSlot) /\ Len(saved') = Len(saved) + 1
    BY <1>2, <1>3, <2>1
  <2>3. globals' \in [Symbols -> Slot]
    BY <1>1, <1>2, <2>1
  <2>4. QED
    BY <1>2, <2>1, <2>2, <2>3, EnterKeepsInv DEF Kinds
<1>8. CASE EnterLetn \/ EnterCall
  BY <1>2, <1>8, EnterKeepsInv DEF EnterLetn, EnterCall, Kinds
<1>9. CASE EnterCatch
  BY <1>2, <1>9, EnterKeepsInv DEF EnterCatch, Kinds
<1>10. ASSUME NEW s \in Symbols, NEW e \in Expressions, Bind(s, e) PROVE Inv'
  <2>1. /\ frames # <<>> /\ Innermost.phase = "binding"
        /\ saved' = Append(saved, SavedFrom(globals, s))
        /\ globals' = [globals EXCEPT ![s] = ValueOf(e)]
        /\ UNCHANGED <<args, frames, signal>>
    BY <1>10 DEF Bind, BindingPhase, SetGlobal
  <2>2. saved' \in Seq(SavedSlot) /\ Len(saved') = Len(saved) + 1
    BY <1>2, <1>3, <2>1
  <2>3. globals' \in [Symbols -> Slot]
    BY <1>2, <2>1
  <2>4. QED
    BY <1>2, <1>4, <2>1, <2>2, <2>3, SavedKeepsInv
<1>11. CASE Run
  BY <1>11, RunKeepsInv
<1>12. ASSUME NEW v \in Values, Iterate(v) PROVE Inv'
  BY <1>1, <1>2, <1>12, ValuesOnly DEF Iterate, SetGlobal
<1>13. CASE LeaveScope
  BY <1>13, LeaveScopeKeepsInv
<1>14. CASE RestoreSlot
  <2>1. /\ frames # <<>> /\ Innermost.phase = "leaving"
        /\ Len(saved) > Innermost.base
        /\ globals' = [globals EXCEPT ![saved[Len(saved)].sym] = saved[Len(saved)].old]
        /\ saved' = SubSeq(saved, 1, Len(saved) - 1)
        /\ UNCHANGED <<args, frames, signal>>
    BY <1>14 DEF RestoreSlot, SetGlobal
  <2>2. saved # <<>> /\ Len(saved) \in 1..Len(saved)
    BY <1>2, <1>4, <2>1
  <2>3. saved[Len(saved)] \in SavedSlot
    BY <1>2, <2>2
  <2>4. globals' \in [Symbols -> Slot]
    BY <1>2, <2>1, <2>3 DEF SavedSlot
  <2>5. saved' \in Seq(SavedSlot) /\ Len(saved') = Len(saved) - 1
    BY <1>2, <2>1, <2>2, PopFacts
  <2>6. Len(saved') >= Innermost.base
    BY <1>2, <1>4, <2>1, <2>5
  <2>7. QED
    BY <1>4, <2>1, <2>4, <2>5, <2>6, SavedKeepsInv
<1>15. CASE Return
  BY <1>2, <1>15, PopKeepsInv DEF Return
<1>16. ASSUME NEW s \in Symbols, NEW v \in Values, CatchInto(s, v) PROVE Inv'
  <2>1. /\ frames # <<>> /\ Innermost.kind = "catch" /\ PopFrame
        /\ signal' \in Signals \cup {"none"}
        /\ globals' = [globals EXCEPT ![s] = v]
        /\ UNCHANGED <<saved, args>>
    BY <1>2, <1>16 DEF CatchInto, Catch, EndCatch, SetGlobal
  <2>2. Len(saved) = Innermost.base
    BY <2>1 DEF Inv, ScopesNest
  <2>3. globals' \in [Symbols -> Slot]
    BY <1>1, <1>2, <2>1
  <2>4. QED
    BY <2>1, <2>2, <2>3, PopKeepsInv
<1>17. CASE CatchValue
  <2>1. /\ frames # <<>> /\ Innermost.kind = "catch" /\ PopFrame
        /\ signal' \in Signals \cup {"none"}
        /\ UNCHANGED <<globals, saved, args>>
    BY <1>2, <1>17 DEF CatchValue, Catch, EndCatch
  <2>2. Len(saved) = Innermost.base
    BY <2>1 DEF Inv, ScopesNest
  <2>3. QED
    BY <1>2, <2>1, <2>2, PopKeepsInv
<1>18. ASSUME NEW sig \in Signals, RaiseSignal(sig) PROVE Inv'
  BY <1>2, <1>18, ValuesOnly DEF RaiseSignal, Raise
<1>19. CASE EndRun
  BY <1>2, <1>19, ValuesOnly DEF EndRun, Surface
<1>20. CASE UNCHANGED vars
  BY <1>2, <1>20, ValuesOnly DEF vars
<1>21. QED
  BY <1>5, <1>6, <1>7, <1>8, <1>9, <1>10, <1>11, <1>12, <1>13, <1>14, <1>15, <1>16, <1>17,
     <1>18, <1>19, <1>20 DEF Next, EnterLocal, EnterLoop

\* The invariant holds always.
THEOREM InvAlways == Spec => []Inv
<1>1. QED
  BY InvInit, NextKeepsInv, PTL DEF Spec
-----------------------------------------------------------------------------
\* Every slot holds a value or nothing, and every form is in a phase its kind has:
\* letn and calls alone have defaults to evaluate between two bindings, and only
\* the innermost form is on its way out.
THEOREM TypeCorrect == Spec => []TypeOK
<1>1. Inv => TypeOK
  BY DEF Inv
<1>2. QED
  BY <1>1, InvAlways, PTL

\* Scopes nest whatever a program does: no save outlives its form, and a catch finds
\* every scope inside it restored when a signal reaches it.
THEOREM ScopesAlwaysNest == Spec => []ScopesNest
<1>1. Inv => ScopesNest
  BY DEF Inv
<1>2. QED
  BY <1>1, InvAlways, PTL

\* args_stack holds exactly the surplus arguments of the calls whose bodies run, the
\* innermost last: each call's guard pops the entry that the call pushed.
THEOREM ArgsAlwaysMatchCalls == Spec => []ArgsMatchCalls
<1>1. Inv => ArgsMatchCalls
  <2> SUFFICES ASSUME Inv PROVE ArgsMatchCalls
    OBVIOUS
  <2>1. RunningCalls \in SUBSET Nat /\ args \in Seq(Nat) /\ ArgsExact
    BY DEF Inv, TypeOK, RunningCalls
  <2>2. Len(args) = Cardinality(RunningCalls)
    BY <2>1, ListCounts DEF ArgsExact
  <2>3. QED
    BY <2>1, <2>2 DEF ArgsExact, ArgsMatchCalls
<1>2. QED
  BY <1>1, InvAlways, PTL

-----------------------------------------------------------------------------
(* DynScope implements EnvStack: the slots and the saves of the active      *)
(* scopes are, under the mapping TopOf and EnvOf, a stack of bindings.      *)

\* Earliest picks the least element of a set that has one.
LEMMA EarliestFacts ==
  ASSUME NEW J \in SUBSET Nat, J # {}
  PROVE  Earliest(J) \in J /\ \A k \in J : Earliest(J) <= k
BY LeastElement DEF Earliest

\* A save made later than all others is not the earliest.
LEMMA EarliestStays ==
  ASSUME NEW L \in SUBSET Nat, L # {}, NEW m \in Nat, \A k \in L : k < m
  PROVE  Earliest(L \cup {m}) = Earliest(L)
<1> DEFINE L2 == L \cup {m}
<1> DEFINE p == Earliest(L)
<1> DEFINE q == Earliest(L2)
<1>1. L2 \in SUBSET Nat /\ L2 # {}
  OBVIOUS
<1>2. p \in L /\ \A k \in L : p <= k
  BY EarliestFacts
<1> HIDE DEF L2
<1>3. q \in L2 /\ \A k \in L2 : q <= k
  BY <1>1, EarliestFacts
<1> HIDE DEF p, q
<1>4. p \in Nat /\ q \in Nat /\ p \in L2
  BY <1>1, <1>2, <1>3 DEF L2
<1>5. q <= p /\ p < m
  BY <1>2, <1>3, <1>4
<1>6. q \in L
  BY <1>3, <1>4, <1>5 DEF L2
<1>7. p <= q
  BY <1>2, <1>6
<1>8. q = p
  BY <1>4, <1>5, <1>7
<1>9. QED
  BY <1>8 DEF p, q, L2

\* Saving a symbol's slot and overwriting it changes no value that any binding had
\* before, and adds one binding with the new value.
LEMMA SaveAddsBinding ==
  ASSUME NEW g \in [Symbols -> Slot], NEW sv \in Seq(SavedSlot), NEW s \in Symbols, NEW v
  PROVE  LET g2 == [g EXCEPT ![s] = v]
             sv2 == Append(sv, SavedFrom(g, s))
         IN  /\ TopOf(g2, sv2) = TopOf(g, sv)
             /\ EnvOf(g2, sv2) = Append(EnvOf(g, sv), [sym |-> s, val |-> v])
<1> DEFINE g2 == [g EXCEPT ![s] = v]
<1> DEFINE x == SavedFrom(g, s)
<1> DEFINE sv2 == Append(sv, x)
<1> DEFINE n == Len(sv)
<1>1. n \in Nat
  OBVIOUS
<1>2. x \in SavedSlot /\ x.sym = s /\ x.old = g[s]
  BY DEF SavedFrom, SavedSlot
<1>3. g2[s] = v /\ \A t \in Symbols : t # s => g2[t] = g[t]
  OBVIOUS
<1> HIDE DEF x
<1>4. /\ Len(sv2) = n + 1 /\ sv2[n + 1] = x
      /\ \A j \in 1..n : sv2[j] = sv[j]
  BY <1>2
<1>5. \A j \in 1..n : sv[j].sym \in Symbols
  <2>1. \A j \in 1..n : sv[j] \in SavedSlot
    OBVIOUS
  <2>2. QED
    BY <2>1 DEF SavedSlot
<1> HIDE DEF sv2, n, g2
<1>6. ASSUME NEW t \in Symbols, NEW i \in 0..n
      PROVE  ValueAfter(g2, sv2, t, i) = ValueAfter(g, sv, t, i)
  <2> DEFINE L == Later(sv, t, i)
  <2> DEFINE L2 == Later(sv2, t, i)
  <2>1. L \in SUBSET Nat /\ L2 \in SUBSET Nat /\ \A j \in L : j \in 1..n /\ j < n + 1
    BY <1>1, <1>4 DEF Later, n
  <2>2. L2 = L \cup (IF t = s THEN {n + 1} ELSE {})
    BY <1>1, <1>2, <1>4 DEF Later, n
  <2> HIDE DEF L, L2
  <2>3. CASE L # {}
    <3>1. L2 # {} /\ Earliest(L2) = Earliest(L)
      <4>1. L2 = L \/ L2 = L \cup {n + 1}
        BY <2>2
      <4>2. Earliest(L \cup {n + 1}) = Earliest(L)
        BY <1>1, <2>1, <2>3, EarliestStays
      <4>3. QED
        BY <2>3, <4>1, <4>2
    <3>2. Earliest(L) \in 1..n
      BY <2>1, <2>3, EarliestFacts
    <3>3. QED
      BY <1>4, <2>3, <3>1, <3>2 DEF ValueAfter, L, L2
  <2>4. CASE L = {} /\ t = s
    <3>1. L2 = {n + 1}
      BY <2>2, <2>4
    <3>2. Earliest(L2) = n + 1
      BY <2>1, <3>1, EarliestFacts
    <3>3. QED
      BY <1>2, <1>4, <2>4, <3>1, <3>2 DEF ValueAfter, L, L2
  <2>5. CASE L = {} /\ t # s
    <3>1. L2 = {}
      BY <2>2, <2>5
    <3>2. QED
      BY <1>3, <2>5, <3>1 DEF ValueAfter, L, L2
  <2>6. QED
    BY <2>3, <2>4, <2>5
<1>7. ValueAfter(g2, sv2, s, n + 1) = v
  <2>1. Later(sv2, s, n + 1) = {}
    BY <1>1, <1>4 DEF Later
  <2>2. QED
    BY <1>3, <2>1 DEF ValueAfter
<1>8. TopOf(g2, sv2) = TopOf(g, sv)
  BY <1>1, <1>6 DEF TopOf
<1>9. EnvOf(g2, sv2) = Append(EnvOf(g, sv), [sym |-> s, val |-> v])
  <2> DEFINE e == EnvOf(g, sv)
  <2> DEFINE b == [sym |-> s, val |-> v]
  <2> DEFINE e2 == EnvOf(g2, sv2)
  <2>1. /\ e = [i \in 1..n |-> [sym |-> sv[i].sym, val |-> ValueAfter(g, sv, sv[i].sym, i)]]
        /\ e2 = [i \in 1..(n + 1) |->
                   [sym |-> sv2[i].sym, val |-> ValueAfter(g2, sv2, sv2[i].sym, i)]]
    BY <1>4 DEF EnvOf, n
  <2>2. e2[n + 1] = b
    BY <1>1, <1>2, <1>4, <1>7, <2>1
  <2>3. \A i \in 1..n : i \in 1..(n + 1) /\ i \in 0..n
    BY <1>1
  <2>4. \A i \in 1..n : e2[i] = e[i]
    BY <1>4, <1>5, <1>6, <2>1, <2>3
  <2> DEFINE S == {e2[i] : i \in 1..(n + 1)}
  <2>5. \A i \in 1..(n + 1) : i \in 1..n \/ i = n + 1
    BY <1>1
  <2> HIDE DEF e, e2, b
  <2>6. /\ \A i \in 1..(n + 1) : e2[i] \in S
        /\ \A i \in 1..n : e[i] \in S
        /\ b \in S
    <3>1. n + 1 \in 1..(n + 1)
      BY <1>1
    <3>2. \A i \in 1..(n + 1) : e2[i] \in S
      OBVIOUS
    <3> HIDE DEF S
    <3>3. QED
      BY <2>2, <2>3, <2>4, <3>1, <3>2
  <2> HIDE DEF S
  <2>7. e \in Seq(S) /\ Len(e) = n /\ e2 \in Seq(S) /\ Len(e2) = n + 1
    <3>1. e \in [1..n -> S]
      <4>1. e = [i \in 1..n |-> [sym |-> sv[i].sym, val |-> ValueAfter(g, sv, sv[i].sym, i)]]
        BY <2>1 DEF e
      <4>2. QED
        BY <2>6, <4>1
    <3>2. e2 \in [1..(n + 1) -> S]
      <4>1. e2 = [i \in 1..(n + 1) |->
                    [sym |-> sv2[i].sym, val |-> ValueAfter(g2, sv2, sv2[i].sym, i)]]
        BY <2>1 DEF e2
      <4>2. QED
        BY <2>6, <4>1
    <3>3. n \in Nat /\ n + 1 \in Nat
      BY <1>1
    <3>4. QED
      BY <3>1, <3>2, <3>3
  <2>8. /\ Append(e, b) \in Seq(S) /\ Len(Append(e, b)) = n + 1
        /\ \A i \in 1..n : Append(e, b)[i] = e[i]
        /\ Append(e, b)[n + 1] = b
    BY <1>1, <2>6, <2>7
  <2>9. \A i \in 1..(n + 1) : e2[i] = Append(e, b)[i]
    BY <2>2, <2>4, <2>5, <2>8
  <2>10. e2 = Append(e, b)
    BY <2>7, <2>8, <2>9, SeqEqual
  <2>11. QED
    BY <2>10 DEF e, b, e2
<1>10. QED
  BY <1>8, <1>9 DEF g2, sv2, x
-----------------------------------------------------------------------------
\* Where the stack binds s.
BoundAt(s) == {i \in 1..Len(saved) : saved[i].sym = s}

\* The mapped stack binds a symbol where the saves name it, and the search finds
\* the last of these places.
LEMMA BindingFacts ==
  ASSUME TypeOK, NEW s \in Symbols
  PROVE  /\ Len(EnvOf(globals, saved)) = Len(saved)
         /\ Env!BindingsOf(s) = BoundAt(s)
         /\ BoundAt(s) # {} => /\ Env!LastBinding(s) \in BoundAt(s)
                               /\ \A j \in BoundAt(s) : j <= Env!LastBinding(s)
<1>1. Len(saved) \in Nat
  BY DEF TypeOK
<1>2. Len(EnvOf(globals, saved)) = Len(saved)
  BY <1>1 DEF EnvOf
<1>3. \A i \in 1..Len(saved) : EnvOf(globals, saved)[i].sym = saved[i].sym
  BY DEF EnvOf
<1>4. Env!BindingsOf(s) = BoundAt(s)
  BY <1>2, <1>3 DEF Env!BindingsOf, BoundAt
<1>5. BoundAt(s) \in SUBSET (0..Len(saved))
  BY <1>1 DEF BoundAt
<1>6. BoundAt(s) # {} => \E x \in BoundAt(s) : \A y \in BoundAt(s) : y <= x
  BY <1>1, <1>5, GreatestElement
<1>7. QED
  BY <1>2, <1>4, <1>6 DEF Env!LastBinding

\* A search of the bindings finds what the slot holds.
LEMMA LookupFindsSlot ==
  ASSUME TypeOK, NEW s \in Symbols
  PROVE  Env!Lookup(s) = globals[s]
<1>1. Len(saved) \in Nat
  BY DEF TypeOK
<1>2. CASE BoundAt(s) = {}
  <2>1. Later(saved, s, 0) = {}
    BY <1>1, <1>2 DEF Later, BoundAt
  <2>2. Env!BindingsOf(s) = {}
    BY <1>2, BindingFacts
  <2>3. QED
    BY <2>1, <2>2 DEF Env!Lookup, TopOf, ValueAfter
<1>3. CASE BoundAt(s) # {}
  <2> DEFINE k == Env!LastBinding(s)
  <2>1. k \in BoundAt(s) /\ \A j \in BoundAt(s) : j <= k
    BY <1>3, BindingFacts
  <2>2. Env!Lookup(s) = EnvOf(globals, saved)[k].val
    BY <1>3, BindingFacts DEF Env!Lookup
  <2> HIDE DEF k
  <2>3. k \in 1..Len(saved) /\ saved[k].sym = s
    BY <2>1 DEF BoundAt
  <2>4. Later(saved, s, k) = {}
    BY <1>1, <2>1, <2>3 DEF Later, BoundAt
  <2>5. EnvOf(globals, saved)[k].val = globals[s]
    BY <2>3, <2>4 DEF EnvOf, ValueAfter
  <2>6. QED
    BY <2>2, <2>5
<1>4. QED
  BY <1>2, <1>3

\* Both specifications give an expression the same value.
LEMMA ValueOfMaps ==
  ASSUME TypeOK, NEW e \in Expressions
  PROVE  Env!ValueOf(e) = ValueOf(e)
BY LookupFindsSlot DEF ValueOf, lookup, Env!ValueOf

\* Writing the slot changes the binding that the search finds, and no other.
LEMMA SetMaps ==
  ASSUME TypeOK, NEW s \in Symbols, NEW v, SetGlobal(s, v), UNCHANGED saved
  PROVE  Env!Set(s, v)
<1> DEFINE n == Len(saved)
<1>1. n \in Nat /\ \A i \in 1..n : saved[i] \in SavedSlot
  BY DEF TypeOK
<1>2. \A i \in 1..n : saved[i].sym \in Symbols
  BY <1>1 DEF SavedSlot
<1>3. globals'[s] = v /\ \A t \in Symbols : t # s => globals'[t] = globals[t]
  BY DEF TypeOK, SetGlobal
<1>4. ASSUME NEW t \in Symbols, NEW i \in 0..n
      PROVE  ValueAfter(globals', saved', t, i)
               = IF t = s /\ Later(saved, s, i) = {} THEN v ELSE ValueAfter(globals, saved, t, i)
  BY <1>3 DEF ValueAfter
<1> HIDE DEF n
<1>5. CASE BoundAt(s) = {}
  <2>1. Later(saved, s, 0) = {}
    BY <1>1, <1>5 DEF Later, BoundAt, n
  <2>2. \A i \in 1..n : saved[i].sym # s
    BY <1>5 DEF BoundAt, n
  <2>3. TopOf(globals', saved') = [TopOf(globals, saved) EXCEPT ![s] = v]
    <3>1. \A t \in Symbols : ValueAfter(globals', saved', t, 0)
                               = IF t = s THEN v ELSE ValueAfter(globals, saved, t, 0)
      BY <1>1, <1>4, <2>1
    <3>2. QED
      BY <3>1 DEF TopOf
  <2>4. EnvOf(globals', saved') = EnvOf(globals, saved)
    <3>1. \A i \in 1..n : i \in 0..n
      BY <1>1
    <3>2. \A i \in 1..n : ValueAfter(globals', saved', saved[i].sym, i)
                            = ValueAfter(globals, saved, saved[i].sym, i)
      BY <1>2, <1>4, <2>2, <3>1
    <3>3. QED
      BY <3>2 DEF EnvOf, n
  <2>5. QED
    BY <1>5, <2>3, <2>4, BindingFacts DEF Env!Set
<1>6. CASE BoundAt(s) # {}
  <2> DEFINE k == Env!LastBinding(s)
  <2> DEFINE e == EnvOf(globals, saved)
  <2> DEFINE e2 == EnvOf(globals', saved')
  <2>1. k \in BoundAt(s) /\ \A j \in BoundAt(s) : j <= k
    BY <1>6, BindingFacts
  <2>2. Env!BindingsOf(s) # {}
    BY <1>6, BindingFacts
  <2>3. Env!Set(s, v) <=> /\ e2 = [e EXCEPT ![k].val = v]
                          /\ TopOf(globals', saved') = TopOf(globals, saved)
    BY <2>2 DEF Env!Set
  <2> HIDE DEF k
  <2>4. k \in 1..n /\ saved[k].sym = s
    BY <2>1 DEF BoundAt, n
  <2>5. Later(saved, s, k) = {}
    BY <1>1, <2>1, <2>4 DEF Later, BoundAt, n
  <2>6. \A i \in 0..n : i < k => Later(saved, s, i) # {}
    <3>1. \A i \in 0..n : i < k => k \in Later(saved, s, i)
      BY <1>1, <2>4 DEF Later, n
    <3>2. QED
      BY <3>1
  <2>7. \A i \in 1..n : i \in 0..n /\ (i # k /\ saved[i].sym = s => i < k)
    BY <1>1, <2>1, <2>4 DEF BoundAt, n
  <2>8. TopOf(globals', saved') = TopOf(globals, saved)
    <3>1. 0 \in 0..n /\ 0 < k
      BY <1>1, <2>4
    <3>2. QED
      BY <1>4, <2>6, <3>1 DEF TopOf
  <2>9. \A i \in 1..n : ValueAfter(globals', saved', saved[i].sym, i)
                          = IF i = k THEN v ELSE ValueAfter(globals, saved, saved[i].sym, i)
    BY <1>2, <1>4, <2>4, <2>5, <2>6, <2>7
  <2>10. /\ e = [i \in 1..n |-> [sym |-> saved[i].sym,
                                  val |-> ValueAfter(globals, saved, saved[i].sym, i)]]
         /\ e2 = [i \in 1..n |-> [sym |-> saved[i].sym,
                                   val |-> ValueAfter(globals', saved', saved[i].sym, i)]]
    BY DEF EnvOf, n
  <2> HIDE DEF e, e2
  <2>11. e2 = [e EXCEPT ![k].val = v]
    BY <2>4, <2>9, <2>10
  <2>12. QED
    BY <2>3, <2>8, <2>11 DEF e, e2
<1>7. QED
  BY <1>5, <1>6
-----------------------------------------------------------------------------
\* The mapped stack is a sequence of bindings, one for each save.
Bindings == [sym : Symbols, val : Slot]

\* The mapped stack is typed, and binds what the saves name.
LEMMA EnvTyped ==
  ASSUME NEW g \in [Symbols -> Slot], NEW sv \in Seq(SavedSlot)
  PROVE  /\ EnvOf(g, sv) \in Seq(Bindings)
         /\ Len(EnvOf(g, sv)) = Len(sv)
         /\ \A i \in 1..Len(sv) : EnvOf(g, sv)[i].sym = sv[i].sym
<1>1. Len(sv) \in Nat /\ \A i \in 1..Len(sv) : sv[i] \in SavedSlot
  OBVIOUS
<1>2. \A i \in 1..Len(sv) : sv[i].sym \in Symbols /\ sv[i].old \in Slot
  BY <1>1 DEF SavedSlot
<1>3. ASSUME NEW s \in Symbols, NEW i \in 1..Len(sv)
      PROVE  ValueAfter(g, sv, s, i) \in Slot
  <2>1. Later(sv, s, i) \in SUBSET Nat /\ \A j \in Later(sv, s, i) : j \in 1..Len(sv)
    BY <1>1 DEF Later
  <2>2. Later(sv, s, i) # {} => Earliest(Later(sv, s, i)) \in 1..Len(sv)
    BY <2>1, EarliestFacts
  <2>3. QED
    BY <1>2, <2>2 DEF ValueAfter
<1>4. \A i \in 1..Len(sv) :
         [sym |-> sv[i].sym, val |-> ValueAfter(g, sv, sv[i].sym, i)] \in Bindings
  BY <1>2, <1>3 DEF Bindings
<1>5. EnvOf(g, sv) \in [1..Len(sv) -> Bindings]
  BY <1>4 DEF EnvOf
<1>6. QED
  BY <1>1, <1>5 DEF EnvOf

\* The forms are the same in both specifications.
LEMMA SameForms ==
  /\ Env!Innermost = Innermost
  /\ Env!Evaluating <=> Evaluating
  /\ Env!BindingPhase <=> BindingPhase
  /\ Env!PopFrame <=> PopFrame
  /\ Env!EndScope <=> EndScope
  /\ Env!EndCatch <=> EndCatch
  /\ Env!Catch <=> Catch
  /\ Env!Surface <=> Surface
  /\ \A sig : Env!Raise(sig) <=> Raise(sig)
  /\ \A phase : Env!SetPhase(phase) <=> SetPhase(phase)
  /\ \A k, p, b : Env!PushFrame(k, p, b) <=> PushFrame(k, p, b)
  /\ \A f, b : Env!Room(f, b) <=> Room(f, b)
  /\ Env!Expressions = Expressions
  /\ Env!Signals = Signals
BY DEF Env!Innermost, Innermost, Env!Evaluating, Evaluating, Env!BindingPhase, BindingPhase,
       Env!PopFrame, PopFrame, Env!EndScope, EndScope, Env!EndCatch, EndCatch, Env!Catch, Catch,
       Env!Surface, Surface, Env!Raise, Raise, Env!SetPhase, SetPhase, Env!PushFrame, PushFrame,
       Env!Room, Room, Env!Expressions, Expressions, Env!Signals, Signals

\* A step that leaves slots and saves alone leaves the stack of bindings alone.
LEMMA SameBindings ==
  UNCHANGED <<globals, saved>>
    => /\ TopOf(globals, saved)' = TopOf(globals, saved)
       /\ EnvOf(globals, saved)' = EnvOf(globals, saved)
BY DEF TopOf, EnvOf, ValueAfter, Later

\* At first there are no bindings, and no symbol has a value.
LEMMA InitMaps == Init => Env!Init
<1> SUFFICES ASSUME Init PROVE Env!Init
  OBVIOUS
<1>1. globals \in [Symbols -> Slot] /\ saved \in Seq(SavedSlot) /\ Len(saved) = 0
  BY DEF Init, Slot
<1>2. EnvOf(globals, saved) = <<>>
  <2>1. EnvOf(globals, saved) \in Seq(Bindings) /\ Len(EnvOf(globals, saved)) = 0
    BY <1>1, EnvTyped
  <2>2. \A e \in Seq(Bindings) : Len(e) = 0 => e = <<>>
    BY EmptySeq
  <2>3. QED
    BY <2>1, <2>2
<1>3. \A s \in Symbols : ValueAfter(globals, saved, s, 0) = Unbound
  <2>1. \A s \in Symbols : Later(saved, s, 0) = {}
    BY <1>1 DEF Later
  <2>2. QED
    BY <2>1 DEF Init, ValueAfter
<1>4. TopOf(globals, saved) = [s \in Symbols |-> Unbound]
  BY <1>3 DEF TopOf
<1>5. QED
  BY <1>2, <1>4 DEF Init, FramesInit, Env!Init, Env!FramesInit
-----------------------------------------------------------------------------
\* What each save adds to the stack, in terms of a step.
LEMMA BindMaps ==
  ASSUME TypeOK, NEW s \in Symbols, NEW v,
         saved' = Append(saved, SavedFrom(globals, s)), SetGlobal(s, v)
  PROVE  /\ TopOf(globals', saved') = TopOf(globals, saved)
         /\ EnvOf(globals', saved') = Append(EnvOf(globals, saved), [sym |-> s, val |-> v])
<1>1. globals \in [Symbols -> Slot] /\ saved \in Seq(SavedSlot)
  BY DEF TypeOK
<1>2. globals' = [globals EXCEPT ![s] = v]
  BY DEF SetGlobal
<1>3. QED
  BY <1>1, <1>2, SaveAddsBinding

\* The two saves of a let are the two bindings it makes, evaluated outside it.
LEMMA EnterLetMaps ==
  ASSUME TypeOK, NEW s \in Symbols, NEW e \in Expressions, NEW t \in Symbols,
         NEW f \in Expressions, EnterLet(s, e, t, f)
  PROVE  Env!EnterLet(s, e, t, f)
<1> DEFINE g == [globals EXCEPT ![s] = ValueOf(e)]
<1> DEFINE sv == Append(saved, SavedFrom(globals, s))
<1> DEFINE x == [sym |-> s, val |-> ValueOf(e)]
<1> DEFINE y == [sym |-> t, val |-> ValueOf(f)]
<1>1. globals \in [Symbols -> Slot] /\ saved \in Seq(SavedSlot)
  BY DEF TypeOK
<1>2. g \in [Symbols -> Slot] /\ sv \in Seq(SavedSlot)
  <2>1. ValueOf(e) \in Slot /\ SavedFrom(globals, s) \in SavedSlot
    BY <1>1, ValueOfTyped DEF SavedFrom, SavedSlot
  <2>2. QED
    BY <1>1, <2>1
<1>3. /\ TopOf(g, sv) = TopOf(globals, saved)
      /\ EnvOf(g, sv) = Append(EnvOf(globals, saved), x)
  BY <1>1, SaveAddsBinding
<1>4. globals' = [g EXCEPT ![t] = ValueOf(f)] /\ saved' = Append(sv, SavedFrom(g, t))
  BY DEF EnterLet
<1> HIDE DEF g, sv
<1>5. /\ TopOf(globals', saved') = TopOf(g, sv)
      /\ EnvOf(globals', saved') = Append(EnvOf(g, sv), y)
  BY <1>2, <1>4, SaveAddsBinding, ZenonT(60)
<1>6. /\ Room(Len(frames) + 1, Len(EnvOf(globals, saved)) + 2)
      /\ PushFrame("let", "running", Len(EnvOf(globals, saved)))
  BY <1>1, EnvTyped DEF EnterLet
<1>7. Env!ValueOf(e) = ValueOf(e) /\ Env!ValueOf(f) = ValueOf(f)
  BY ValueOfMaps
<1>8. QED
  BY <1>3, <1>5, <1>6, <1>7, SameForms DEF Env!EnterLet, Env!Binding

\* The save of a local or a loop is its binding to nil.
LEMMA EnterNilMaps ==
  ASSUME TypeOK, NEW kind, NEW s \in Symbols, EnterNil(kind, s)
  PROVE  Env!EnterNil(kind, s)
<1>1. Len(EnvOf(globals, saved)) = Len(saved)
  BY EnvTyped DEF TypeOK
<1>2. /\ TopOf(globals', saved') = TopOf(globals, saved)
      /\ EnvOf(globals', saved') = Append(EnvOf(globals, saved), [sym |-> s, val |-> Nil])
  BY BindMaps DEF EnterNil
<1>3. QED
  BY <1>1, <1>2, SameForms DEF EnterNil, Env!EnterNil, Env!Binding

\* A letn, a call or a catch begins with no binding.
LEMMA EnterEmptyMaps ==
  ASSUME TypeOK
  PROVE  /\ EnterLetn => Env!EnterEmpty("letn", "binding")
         /\ EnterCall => Env!EnterEmpty("call", "binding")
         /\ EnterCatch => Env!EnterEmpty("catch", "running")
<1>1. Len(EnvOf(globals, saved)) = Len(saved)
  BY EnvTyped DEF TypeOK
<1>2. QED
  BY <1>1, SameForms, SameBindings DEF EnterLetn, EnterCall, EnterCatch, Env!EnterEmpty

\* Each save of a letn or a call is one of its bindings, evaluated where the ones
\* before it are visible.
LEMMA BindStepMaps ==
  ASSUME TypeOK, NEW s \in Symbols, NEW e \in Expressions, Bind(s, e)
  PROVE  Env!Bind(s, e)
<1>1. Len(EnvOf(globals, saved)) = Len(saved)
  BY EnvTyped DEF TypeOK
<1>2. /\ TopOf(globals', saved') = TopOf(globals, saved)
      /\ EnvOf(globals', saved') = Append(EnvOf(globals, saved), [sym |-> s, val |-> ValueOf(e)])
  BY BindMaps DEF Bind
<1>3. Env!ValueOf(e) = ValueOf(e)
  BY ValueOfMaps
<1>4. QED
  BY <1>1, <1>2, <1>3, SameForms DEF Bind, Env!Bind, Env!Binding

\* A loop's own binding is the first of its part of the stack.
LEMMA IterateMaps ==
  ASSUME Inv, NEW v \in Values, Iterate(v)
  PROVE  Env!Iterate(v)
<1> DEFINE i == Innermost.base + 1
<1>1. globals \in [Symbols -> Slot] /\ saved \in Seq(SavedSlot) /\ TypeOK
  BY DEF Inv, TypeOK
<1>2. frames # <<>> /\ Innermost.kind = "loop" /\ Innermost.phase # "leaving"
  BY DEF Iterate, Evaluating
<1>3. Len(frames) \in 1..Len(frames) /\ Innermost \in Frame
  BY <1>2 DEF Inv, TypeOK, FramesTypeOK, Innermost
<1>4. Innermost.phase = "running"
  BY <1>2, <1>3 DEF Inv, TypeOK, FramesTypeOK, Innermost, Frame, Phases
<1>5. Innermost.base \in Nat /\ Len(saved) > Innermost.base
  BY <1>2, <1>3, <1>4 DEF Inv, LoopsBound, EndOf, Innermost, Frame
<1>6. i \in 1..Len(saved)
  BY <1>1, <1>5
<1>7. saved[i].sym \in Symbols /\ EnvOf(globals, saved)[i].sym = saved[i].sym
  <2>1. saved[i] \in SavedSlot
    BY <1>1, <1>6
  <2>2. QED
    BY <1>1, <1>6, <2>1, EnvTyped DEF SavedSlot
<1>8. Env!Set(saved[i].sym, v)
  BY <1>1, <1>7, SetMaps DEF Iterate
<1>9. QED
  BY <1>7, <1>8, SameForms DEF Iterate, Env!Iterate

\* Read backwards, the restore of a slot is a save: what it takes away is the last
\* binding, and nothing else.
LEMMA RestoreSlotMaps ==
  ASSUME Inv, RestoreSlot
  PROVE  Env!Drop
<1> DEFINE m == Len(saved)
<1> DEFINE x == saved[m]
<1> DEFINE s == saved[m].sym
<1>1. globals \in [Symbols -> Slot] /\ saved \in Seq(SavedSlot) /\ m \in Nat
  BY DEF Inv, TypeOK
<1>2. saved # <<>> /\ m \in 1..m
  <2>1. Innermost.base \in Nat
    <3>1. Innermost \in Frame
      BY DEF RestoreSlot, Inv, TypeOK, FramesTypeOK, Innermost
    <3>2. QED
      BY <3>1 DEF Frame
  <2>2. QED
    BY <1>1, <2>1 DEF RestoreSlot
<1>3. x \in SavedSlot
  BY <1>1, <1>2
<1>4. s \in Symbols /\ x.old \in Slot /\ x = [sym |-> s, old |-> x.old]
  BY <1>3 DEF SavedSlot
<1>5. globals' = [globals EXCEPT ![s] = x.old] /\ saved' = SubSeq(saved, 1, m - 1)
  BY DEF RestoreSlot, SetGlobal
<1>6. /\ globals' \in [Symbols -> Slot]
      /\ globals = [globals' EXCEPT ![s] = globals[s]]
      /\ SavedFrom(globals', s) = x
  BY <1>1, <1>4, <1>5 DEF SavedFrom
<1>7. /\ saved' \in Seq(SavedSlot) /\ Len(saved') = m - 1
      /\ \A i \in 1..(m - 1) : saved'[i] = saved[i]
  BY <1>1, <1>2, <1>5, PopFacts
<1>8. saved = Append(saved', x)
  <2> DEFINE w == Append(saved', x)
  <2> HIDE DEF x
  <2>1. w \in Seq(SavedSlot) /\ Len(w) = m
        /\ (\A i \in 1..(m - 1) : w[i] = saved'[i]) /\ w[m] = x
    BY <1>1, <1>3, <1>7
  <2>2. \A i \in 1..m : i \in 1..(m - 1) \/ i = m
    BY <1>1
  <2>3. \A i \in 1..m : saved[i] = w[i]
    BY <1>7, <2>1, <2>2 DEF x
  <2> HIDE DEF w
  <2>4. QED
    BY <1>1, <2>1, <2>3, SeqEqual DEF w
<1> DEFINE b == [sym |-> s, val |-> globals[s]]
<1>9. /\ TopOf(globals, saved) = TopOf(globals', saved')
      /\ EnvOf(globals, saved) = Append(EnvOf(globals', saved'), b)
  <2> HIDE DEF s, x
  <2>1. QED
    BY <1>4, <1>6, <1>7, <1>8, SaveAddsBinding
<1>10. EnvOf(globals', saved') \in Seq(Bindings) /\ b \in Bindings
  BY <1>1, <1>4, <1>6, <1>7, EnvTyped DEF Bindings
<1>11. Len(EnvOf(globals, saved)) = m
  BY <1>1, EnvTyped
<1> HIDE DEF b, m
<1>12. EnvOf(globals', saved') = SubSeq(EnvOf(globals, saved), 1, m - 1)
  BY <1>9, <1>10, <1>11, PopUndoesPush
<1>13. QED
  BY <1>9, <1>11, <1>12, SameForms DEF RestoreSlot, Env!Drop, m
-----------------------------------------------------------------------------
\* Steps that only move through the forms, or carry a signal out of them.
LEMMA UnwindMaps ==
  /\ LeaveScope \/ CatchValue \/ EndRun => Env!Unwind
  /\ \A sig \in Signals : RaiseSignal(sig) => Env!Unwind
  /\ Run => Env!Run
BY SameForms, SameBindings
   DEF LeaveScope, CatchValue, EndRun, RaiseSignal, Run, Env!Unwind, Env!Run

\* Every step is one of the searched stack.
LEMMA NextMaps == Inv /\ [Next]_vars => [Env!Next]_(Env!vars)
<1> SUFFICES ASSUME Inv, [Next]_vars PROVE [Env!Next]_(Env!vars)
  OBVIOUS
<1>1. TypeOK
  BY DEF Inv
<1>2. ASSUME NEW s \in Symbols, NEW e \in Expressions, Assign(s, e) PROVE Env!Next
  <2>1. Env!Assign(s, e)
    BY <1>1, <1>2, SetMaps, ValueOfMaps, SameForms DEF Assign, Env!Assign
  <2>2. QED
    BY <2>1, SameForms DEF Env!Next
<1>3. ASSUME NEW s \in Symbols, NEW t \in Symbols, NEW e \in Expressions, NEW f \in Expressions,
             EnterLet(s, e, t, f)
      PROVE  Env!Next
  <2>1. Env!EnterLet(s, e, t, f)
    BY <1>1, <1>3, EnterLetMaps
  <2>2. QED
    BY <2>1, SameForms DEF Env!Next
<1>4. ASSUME NEW kind \in {"let", "loop"}, NEW s \in Symbols, EnterNil(kind, s)
      PROVE  Env!Next
  <2>1. Env!EnterNil(kind, s)
    BY <1>1, <1>4, EnterNilMaps
  <2>2. QED
    BY <2>1 DEF Env!Next
<1>5. CASE EnterLetn \/ EnterCall \/ EnterCatch
  BY <1>1, <1>5, EnterEmptyMaps DEF Env!Next
<1>6. ASSUME NEW s \in Symbols, NEW e \in Expressions, Bind(s, e) PROVE Env!Next
  <2>1. Env!Bind(s, e)
    BY <1>1, <1>6, BindStepMaps
  <2>2. QED
    BY <2>1, SameForms DEF Env!Next
<1>7. ASSUME NEW v \in Values, Iterate(v) PROVE Env!Next
  BY <1>7, IterateMaps DEF Env!Next
<1>8. CASE RestoreSlot
  BY <1>8, RestoreSlotMaps DEF Env!Next
<1>9. CASE Return
  <2>1. Len(EnvOf(globals, saved)) = Len(saved)
    BY <1>1, EnvTyped DEF TypeOK
  <2>2. Env!Return
    BY <1>9, <2>1, SameForms, SameBindings DEF Return, Env!Return
  <2>3. QED
    BY <2>2 DEF Env!Next
<1>10. ASSUME NEW s \in Symbols, NEW v \in Values, CatchInto(s, v) PROVE Env!Next
  <2>1. Env!CatchInto(s, v)
    BY <1>1, <1>10, SetMaps, SameForms DEF CatchInto, Env!CatchInto
  <2>2. QED
    BY <1>10, <2>1 DEF Env!Next
<1>11. CASE Run \/ LeaveScope \/ CatchValue \/ EndRun
  BY <1>11, UnwindMaps DEF Env!Next
<1>12. ASSUME NEW sig \in Signals, RaiseSignal(sig) PROVE Env!Next
  BY <1>12, UnwindMaps DEF Env!Next
<1>13. CASE UNCHANGED vars
  BY <1>13, SameBindings DEF vars, Env!vars
<1>14. QED
  BY <1>2, <1>3, <1>4, <1>5, <1>6, <1>7, <1>8, <1>9, <1>10, <1>11, <1>12, <1>13
     DEF Next, EnterLocal, EnterLoop

\* The slots that the evaluator overwrites and restores behave, for every program,
\* every set of symbols and values and every depth of nesting, as the stack of
\* bindings that a reference would search.
THEOREM SlotsImplementEnvStack == Spec => ImplementsEnvStack
<1>1. Init => Env!Init
  BY InitMaps
<1>2. Inv /\ [Next]_vars => [Env!Next]_(Env!vars)
  BY NextMaps
<1>3. QED
  BY <1>1, <1>2, InvAlways, PTL DEF Spec, ImplementsEnvStack, Env!Spec
=============================================================================
