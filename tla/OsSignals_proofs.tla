-------------------------- MODULE OsSignals_proofs --------------------------
(***************************************************************************)
(* The safety of signal dispatch, for any signals, any number of           *)
(* deliveries and any nesting of dispatches.                               *)
(***************************************************************************)
EXTENDS OsSignals, StackLemmas

(***************************************************************************)
(* The inductive invariant.  DispositionAgrees says nothing while signal   *)
(* is between its two steps; what holds then is that one step is missing.  *)
(* The C handler's test of the number is never needed: signal has refused  *)
(* every number it could not count.                                        *)
(***************************************************************************)
DispositionExact ==
  /\ caught \cap Refused = {}
  /\ \A s \in caught \cup handlers : InRange(s)
  /\ call = NoCall => caught = handlers \ Refused
  /\ call # NoCall => handlers \ Refused = IF call.op = "install" THEN caught \cup Settable
                                                                 ELSE caught \ Settable

Inv == TypeOK /\ NoSignalLost /\ DispositionExact /\ NoSpuriousCall

\* The dispatches that hold a signal are finitely many.
LEMMA HoldingFinite ==
  ASSUME TypeOK, NEW s
  PROVE  IsFiniteSet(Holding(s)) /\ Cardinality(Holding(s)) \in Nat
<1>1. Len(masks) \in Nat
  BY DEF TypeOK
<1>2. IsFiniteSet(1..Len(masks))
  BY <1>1, FS_Interval
<1>3. IsFiniteSet(Holding(s))
  BY <1>2, FS_Subset DEF Holding
<1>4. QED
  BY <1>3, FS_CardinalityType

\* Changing the innermost dispatch changes no other.
LEMMA InnermostFacts ==
  ASSUME TypeOK, masks # <<>>, NEW mask \in Mask, masks' = WithInnermost(mask)
  PROVE  /\ masks' \in Seq(Mask) /\ Len(masks') = Len(masks)
         /\ \A i \in 1..Len(masks) : masks'[i] = IF i = Len(masks) THEN mask ELSE masks[i]
         /\ \A i \in 1..Len(masks') : i < Len(masks') => masks'[i].running
         /\ Len(masks) \in 1..Len(masks) /\ Innermost \in Mask
         /\ \A s : Holding(s)' = IF s \in mask.todo THEN Holding(s) \cup {Len(masks)}
                                                     ELSE Holding(s) \ {Len(masks)}
<1> DEFINE n == Len(masks)
<1>1. masks \in Seq(Mask) /\ n \in 1..n /\ n \in Nat
      /\ \A i \in 1..n : i < n => masks[i].running
  BY DEF TypeOK
<1>2. masks' = [masks EXCEPT ![n] = mask]
  BY DEF WithInnermost
<1>3. masks' \in Seq(Mask) /\ Len(masks') = n
      /\ \A i \in 1..n : masks'[i] = IF i = n THEN mask ELSE masks[i]
  BY <1>1, <1>2
<1> HIDE DEF n
<1>4. \A i \in 1..n : i < n => masks'[i].running
  BY <1>1, <1>3
<1>5. ASSUME NEW s
      PROVE  Holding(s)' = IF s \in mask.todo THEN Holding(s) \cup {n} ELSE Holding(s) \ {n}
  BY <1>1, <1>3 DEF Holding, n
<1>6. Innermost \in Mask
  BY <1>1 DEF Innermost, n
<1>7. QED
  BY <1>1, <1>3, <1>4, <1>5, <1>6 DEF n

\* What a dispatch that starts, and one that ends, hold.
LEMMA PushMaskFacts ==
  ASSUME TypeOK, NEW mask \in Mask, masks' = Append(masks, mask),
         masks # <<>> => Innermost.running, Len(masks) < MaxNest
  PROVE  /\ masks' \in Seq(Mask) /\ Len(masks') <= MaxNest
         /\ \A i \in 1..Len(masks') : i < Len(masks') => masks'[i].running
         /\ \A s : Holding(s)' = Holding(s) \cup (IF s \in mask.todo THEN {Len(masks) + 1} ELSE {})
         /\ \A s : Len(masks) + 1 \notin Holding(s)
<1> DEFINE n == Len(masks)
<1>1. masks \in Seq(Mask) /\ n \in Nat /\ \A i \in 1..n : i < n => masks[i].running
  BY DEF TypeOK
<1>2. masks' \in Seq(Mask) /\ Len(masks') = n + 1 /\ masks'[n + 1] = mask
      /\ \A i \in 1..n : masks'[i] = masks[i]
  BY <1>1
<1>3. \A i \in 1..n : masks[i].running
  BY <1>1 DEF Innermost
<1> HIDE DEF n
<1>4. \A i \in 1..(n + 1) : i < n + 1 => masks'[i].running
  BY <1>1, <1>2, <1>3
<1>5. ASSUME NEW s
      PROVE  /\ Holding(s)' = Holding(s) \cup (IF s \in mask.todo THEN {n + 1} ELSE {})
             /\ n + 1 \notin Holding(s)
  BY <1>1, <1>2 DEF Holding, n
<1>6. n + 1 <= MaxNest
  BY <1>1, OsSignalsAssumption DEF n
<1>7. QED
  BY <1>2, <1>4, <1>5, <1>6 DEF n

\* A dispatch that ends held nothing any more.
LEMMA PopMaskFacts ==
  ASSUME TypeOK, masks # <<>>, Innermost.todo = {}, masks' = SubSeq(masks, 1, Len(masks) - 1)
  PROVE  /\ masks' \in Seq(Mask) /\ Len(masks') <= MaxNest
         /\ \A i \in 1..Len(masks') : i < Len(masks') => masks'[i].running
         /\ \A s : Holding(s)' = Holding(s)
<1> DEFINE n == Len(masks)
<1>1. masks \in Seq(Mask) /\ n \in Nat /\ n \in 1..n /\ n <= MaxNest
      /\ \A i \in 1..n : i < n => masks[i].running
  BY DEF TypeOK
<1>2. masks' \in Seq(Mask) /\ Len(masks') = n - 1 /\ \A i \in 1..(n - 1) : masks'[i] = masks[i]
  BY <1>1, PopFacts
<1>3. masks[n].todo = {}
  BY DEF Innermost
<1> HIDE DEF n
<1>4. \A i \in 1..(n - 1) : i < n - 1 => masks'[i].running
  BY <1>1, <1>2
<1>5. ASSUME NEW s PROVE Holding(s)' = Holding(s)
  BY <1>1, <1>2, <1>3 DEF Holding, n
<1>6. n - 1 <= MaxNest
  BY <1>1, OsSignalsAssumption
<1>7. QED
  BY <1>2, <1>4, <1>5, <1>6
-----------------------------------------------------------------------------
\* No signal is caught and nothing is dispatched at first.
LEMMA InvInit == Init => Inv
<1> SUFFICES ASSUME Init PROVE Inv
  OBVIOUS
<1>1. TypeOK
  BY OsSignalsAssumption DEF Init, TypeOK, NoCall, Call
<1>2. \A s \in Sigs : Holding(s) = {} /\ Cardinality(Holding(s)) = 0
  BY FS_EmptySet DEF Init, Holding
<1>3. NoSignalLost /\ DispositionExact
  BY DEF Init, NoSignalLost, DispositionExact
<1>4. NoSpuriousCall
  BY <1>2 DEF Init, NoSpuriousCall
<1>5. QED
  BY <1>1, <1>3, <1>4 DEF Inv

\* Two values of call are told apart by what they ask for.
LEMMA CallFacts ==
  \A s \in Sigs : \A op \in {"install", "remove"} :
    [op |-> op, sig |-> s] \in Call /\ [op |-> op, sig |-> s] # NoCall
BY DEF Call, NoCall

\* Every step keeps the types.
LEMMA TypeStep == TypeOK /\ [Next]_vars => TypeOK'
<1> SUFFICES ASSUME TypeOK, [Next]_vars PROVE TypeOK'
  OBVIOUS
<1> USE OsSignalsAssumption
<1>1. ASSUME NEW s \in Sigs, Deliver(s) PROVE TypeOK'
  <2>1. delivered' \in [Sigs -> 0..MaxDeliveries]
    <3>1. delivered[s] \in 0..MaxDeliveries
      BY DEF TypeOK
    <3>2. delivered[s] < MaxDeliveries => delivered[s] + 1 \in 0..MaxDeliveries
      BY <3>1
    <3>3. QED
      BY <1>1, <3>2 DEF Deliver, TypeOK
  <2>2. pending' \subseteq Sigs /\ owed' \subseteq handlers' /\ alive' \in BOOLEAN
    BY <1>1 DEF Deliver, TypeOK
  <2>3. QED
    BY <1>1, <2>1, <2>2 DEF Deliver, TypeOK
<1>2. ASSUME NEW s \in Sigs, Install(s) \/ Remove(s) PROVE TypeOK'
  BY <1>2, CallFacts DEF Install, Remove, TypeOK
<1>3. CASE SetDisposition
  <2>1. call.sig \in Sigs
    BY <1>3 DEF SetDisposition, TypeOK, Call
  <2>2. NoCall \in Call
    BY DEF Call
  <2>3. QED
    BY <1>3, <2>1, <2>2 DEF SetDisposition, Settable, TypeOK
<1>4. CASE Dispatch
  <2>1. [todo |-> pending, running |-> FALSE] \in Mask
    BY DEF TypeOK, Mask
  <2>2. QED
    BY <1>4, <2>1, PushMaskFacts DEF Dispatch, ScriptRuns, TypeOK
<1>5. ASSUME NEW s \in Sigs, CallHandler(s) PROVE TypeOK'
  <2> DEFINE mask == [todo |-> Innermost.todo \ {s}, running |-> TRUE]
  <2>1. masks # <<>> /\ masks' = WithInnermost(mask)
    BY <1>5 DEF CallHandler, NextSignal, Dispatching
  <2>2. mask \in Mask
    <3>1. Innermost \in Mask
      BY <2>1 DEF TypeOK, Innermost
    <3>2. QED
      BY <3>1 DEF Mask
  <2>3. runs' \in [Sigs -> Nat]
    BY <1>5 DEF CallHandler, TypeOK
  <2> HIDE DEF mask
  <2>4. QED
    BY <1>5, <2>1, <2>2, <2>3, InnermostFacts DEF CallHandler, TypeOK
<1>6. ASSUME NEW s \in Sigs, DropSignal(s) PROVE TypeOK'
  <2> DEFINE mask == [Innermost EXCEPT !.todo = @ \ {s}]
  <2>1. masks # <<>> /\ masks' = WithInnermost(mask)
    BY <1>6 DEF DropSignal, NextSignal, Dispatching
  <2>2. mask \in Mask
    <3>1. Innermost \in Mask
      BY <2>1 DEF TypeOK, Innermost
    <3>2. QED
      BY <3>1 DEF Mask
  <2> HIDE DEF mask
  <2>3. QED
    BY <1>6, <2>1, <2>2, InnermostFacts DEF DropSignal, TypeOK
<1>7. CASE DispatchEnds
  BY <1>7, PopMaskFacts DEF DispatchEnds, Dispatching, TypeOK
<1>8. CASE HandlerReturns
  <2> DEFINE mask == [Innermost EXCEPT !.running = FALSE]
  <2>1. masks # <<>> /\ masks' = WithInnermost(mask)
    BY <1>8 DEF HandlerReturns
  <2>2. mask \in Mask
    <3>1. Innermost \in Mask
      BY <2>1 DEF TypeOK, Innermost
    <3>2. QED
      BY <3>1 DEF Mask
  <2> HIDE DEF mask
  <2>3. QED
    BY <1>8, <2>1, <2>2, InnermostFacts DEF HandlerReturns, TypeOK
<1>9. CASE UNCHANGED vars
  BY <1>9 DEF vars, TypeOK
<1>10. QED
  BY <1>1, <1>2, <1>3, <1>4, <1>5, <1>6, <1>7, <1>8, <1>9 DEF Next, DispatchStep

\* What a step does to where a signal is held, and the counts that go with it.
LEMMA HeldStep ==
  ASSUME Inv, Next, NEW t \in Sigs
  PROVE  /\ t \in owed' => t \in pending' \/ Holding(t)' # {}
         /\ runs'[t] + Cardinality(Holding(t)') + (IF t \in pending' THEN 1 ELSE 0)
              <= delivered'[t]
<1> USE OsSignalsAssumption
<1> DEFINE h == Cardinality(Holding(t))
<1> DEFINE p == IF t \in pending THEN 1 ELSE 0
<1>1. /\ TypeOK /\ IsFiniteSet(Holding(t)) /\ h \in Nat /\ p \in Nat
      /\ runs[t] \in Nat /\ delivered[t] \in Nat
      /\ runs[t] + h + p <= delivered[t]
      /\ t \in owed => t \in pending \/ Holding(t) # {}
  <2>1. TypeOK /\ NoSpuriousCall /\ NoSignalLost
    BY DEF Inv
  <2>2. IsFiniteSet(Holding(t)) /\ h \in Nat
    BY <2>1, HoldingFinite
  <2>3. runs[t] \in Nat /\ delivered[t] \in Nat
    BY <2>1 DEF TypeOK
  <2>4. QED
    BY <2>1, <2>2, <2>3 DEF NoSpuriousCall, NoSignalLost
<1>2. UNCHANGED masks => Holding(t)' = Holding(t)
  BY DEF Holding
<1>3. ASSUME NEW s \in Sigs, Deliver(s)
      PROVE  /\ t \in owed' => t \in pending' \/ Holding(t)' # {}
             /\ runs'[t] + Cardinality(Holding(t)') + (IF t \in pending' THEN 1 ELSE 0)
                  <= delivered'[t]
  <2>1. Holding(t)' = Holding(t) /\ UNCHANGED runs
    BY <1>2, <1>3 DEF Deliver
  <2>2. \/ UNCHANGED <<pending, owed, delivered>>
        \/ /\ pending' = pending \cup {s}
           /\ owed' \subseteq owed \cup {s}
           /\ delivered' = [delivered EXCEPT ![s] = @ + 1]
    BY <1>3 DEF Deliver, Inv, DispositionExact
  <2>3. CASE UNCHANGED <<pending, owed, delivered>>
    BY <1>1, <2>1, <2>3
  <2>4. CASE /\ pending' = pending \cup {s}
             /\ owed' \subseteq owed \cup {s}
             /\ delivered' = [delivered EXCEPT ![s] = @ + 1]
    <3>1. delivered'[t] = IF t = s THEN delivered[t] + 1 ELSE delivered[t]
      BY <1>1, <2>4 DEF TypeOK
    <3>2. (IF t \in pending' THEN 1 ELSE 0) <= (IF t = s THEN p + 1 ELSE p)
      BY <2>4
    <3> HIDE DEF h, p
    <3>3. QED
      BY <1>1, <2>1, <2>4, <3>1, <3>2 DEF h
  <2>5. QED
    BY <2>2, <2>3, <2>4
<1>4. CASE (\E s \in Sigs : Install(s) \/ Remove(s)) \/ SetDisposition
  <2>1. owed' \subseteq owed /\ UNCHANGED <<pending, masks, delivered, runs>>
    BY <1>4 DEF Install, Remove, SetDisposition
  <2>2. QED
    BY <1>1, <1>2, <2>1
<1>5. CASE Dispatch
  <2>1. [todo |-> pending, running |-> FALSE] \in Mask
    BY <1>1 DEF TypeOK, Mask
  <2>2. /\ Holding(t)' = Holding(t) \cup (IF t \in pending THEN {Len(masks) + 1} ELSE {})
        /\ Len(masks) + 1 \notin Holding(t)
    BY <1>1, <1>5, <2>1, PushMaskFacts DEF Dispatch, ScriptRuns
  <2>3. Cardinality(Holding(t)') = h + p
    <3>1. CASE t \in pending
      BY <1>1, <2>2, <3>1, FS_AddElement
    <3>2. CASE t \notin pending
      BY <1>1, <2>2, <3>2
    <3>3. QED
      BY <3>1, <3>2
  <2>4. pending' = {} /\ UNCHANGED <<owed, delivered, runs>>
    BY <1>5 DEF Dispatch
  <2>5. t \in owed => Holding(t)' # {}
    BY <1>1, <2>2
  <2> HIDE DEF h, p
  <2>6. QED
    BY <1>1, <2>3, <2>4, <2>5
<1>6. ASSUME NEW s \in Sigs, CallHandler(s)
      PROVE  /\ t \in owed' => t \in pending' \/ Holding(t)' # {}
             /\ runs'[t] + Cardinality(Holding(t)') + (IF t \in pending' THEN 1 ELSE 0)
                  <= delivered'[t]
  <2> DEFINE mask == [todo |-> Innermost.todo \ {s}, running |-> TRUE]
  <2> DEFINE n == Len(masks)
  <2>1. masks # <<>> /\ masks' = WithInnermost(mask) /\ s \in Innermost.todo
    BY <1>6 DEF CallHandler, NextSignal, Dispatching
  <2>2. mask \in Mask
    <3>1. Innermost \in Mask
      BY <1>1, <2>1 DEF TypeOK, Innermost
    <3>2. QED
      BY <3>1 DEF Mask
  <2>3. n \in 1..n /\ (n \in Holding(t) <=> t \in Innermost.todo)
    BY <1>1, <2>1 DEF Holding, Innermost, TypeOK
  <2>4. Holding(t)' = IF t \in Innermost.todo \ {s} THEN Holding(t) \cup {n} ELSE Holding(t) \ {n}
    <3>1. mask.todo = Innermost.todo \ {s}
      OBVIOUS
    <3> HIDE DEF mask
    <3>2. QED
      BY <1>1, <2>1, <2>2, <3>1, InnermostFacts
  <2>5. Holding(t)' = IF t = s THEN Holding(t) \ {n} ELSE Holding(t)
    BY <2>3, <2>4
  <2>6. Cardinality(Holding(t)') = IF t = s THEN h - 1 ELSE h
    BY <1>1, <2>1, <2>3, <2>5, FS_RemoveElement, ZenonT(60)
  <2>7. /\ owed' = owed \ {s} /\ UNCHANGED <<pending, delivered>>
        /\ runs'[t] = IF t = s THEN runs[t] + 1 ELSE runs[t]
    BY <1>1, <1>6 DEF CallHandler, TypeOK
  <2> HIDE DEF h, n, mask
  <2>8. QED
    BY <1>1, <2>5, <2>6, <2>7
<1>7. ASSUME NEW s \in Sigs, DropSignal(s)
      PROVE  /\ t \in owed' => t \in pending' \/ Holding(t)' # {}
             /\ runs'[t] + Cardinality(Holding(t)') + (IF t \in pending' THEN 1 ELSE 0)
                  <= delivered'[t]
  <2> DEFINE mask == [Innermost EXCEPT !.todo = @ \ {s}]
  <2> DEFINE n == Len(masks)
  <2>1. masks # <<>> /\ masks' = WithInnermost(mask) /\ s \in Innermost.todo /\ s \notin handlers
    BY <1>7 DEF DropSignal, NextSignal, Dispatching
  <2>2. Innermost \in Mask
    BY <1>1, <2>1 DEF TypeOK, Innermost
  <2>3. mask \in Mask /\ mask.todo = Innermost.todo \ {s}
    BY <2>2 DEF Mask
  <2>4. n \in 1..n /\ (n \in Holding(t) <=> t \in Innermost.todo)
    BY <1>1, <2>1 DEF Holding, Innermost, TypeOK
  <2> HIDE DEF mask
  <2>5. Holding(t)' = IF t \in Innermost.todo \ {s} THEN Holding(t) \cup {n} ELSE Holding(t) \ {n}
    BY <1>1, <2>1, <2>3, InnermostFacts
  <2>6. Holding(t)' = IF t = s THEN Holding(t) \ {n} ELSE Holding(t)
    BY <2>4, <2>5
  <2>7. Cardinality(Holding(t)') = IF t = s THEN h - 1 ELSE h
    BY <1>1, <2>1, <2>4, <2>6, FS_RemoveElement, ZenonT(60)
  <2>8. s \notin owed /\ UNCHANGED <<owed, pending, delivered, runs>>
    BY <1>1, <1>7, <2>1 DEF DropSignal, TypeOK
  <2> HIDE DEF h, n
  <2>9. QED
    BY <1>1, <2>6, <2>7, <2>8
<1>8. CASE DispatchEnds
  <2>1. Holding(t)' = Holding(t)
    BY <1>1, <1>8, PopMaskFacts DEF DispatchEnds, Dispatching
  <2>2. QED
    BY <1>1, <1>8, <2>1 DEF DispatchEnds
<1>9. CASE HandlerReturns
  <2> DEFINE mask == [Innermost EXCEPT !.running = FALSE]
  <2> DEFINE n == Len(masks)
  <2>1. masks # <<>> /\ masks' = WithInnermost(mask)
    BY <1>9 DEF HandlerReturns
  <2>2. Innermost \in Mask
    BY <1>1, <2>1 DEF TypeOK, Innermost
  <2>3. mask \in Mask /\ mask.todo = Innermost.todo
    BY <2>2 DEF Mask
  <2>4. n \in 1..n /\ (n \in Holding(t) <=> t \in Innermost.todo)
    BY <1>1, <2>1 DEF Holding, Innermost, TypeOK
  <2> HIDE DEF mask
  <2>5. Holding(t)' = IF t \in Innermost.todo THEN Holding(t) \cup {n} ELSE Holding(t) \ {n}
    BY <1>1, <2>1, <2>3, InnermostFacts
  <2>6. Holding(t)' = Holding(t)
    BY <2>4, <2>5
  <2>7. QED
    BY <1>1, <1>9, <2>6 DEF HandlerReturns
<1>10. QED
  BY <1>3, <1>4, <1>5, <1>6, <1>7, <1>8, <1>9 DEF Next, DispatchStep

\* Every step keeps the invariant.
LEMMA InvStep == Inv /\ [Next]_vars => Inv'
<1> SUFFICES ASSUME Inv, [Next]_vars PROVE Inv'
  OBVIOUS
<1>1. TypeOK /\ TypeOK'
  BY TypeStep DEF Inv
<1>2. CASE Next
  <2>1. NoSignalLost'
    <3>1. owed' \subseteq Sigs
      BY <1>1 DEF TypeOK
    <3>2. QED
      BY <1>2, <3>1, HeldStep DEF NoSignalLost
  <2>2. NoSpuriousCall'
    BY <1>2, HeldStep DEF NoSpuriousCall
  <2>3. DispositionExact'
    <3>1. CASE \E s \in Sigs : Install(s) \/ Remove(s)
      <4>1. PICK s \in Sigs, op \in {"install", "remove"} :
               /\ call = NoCall /\ call' = [op |-> op, sig |-> s] /\ caught' = caught
               /\ handlers' = IF op = "install" THEN handlers \cup {s} ELSE handlers \ {s}
               /\ InRange(s)
        BY <3>1 DEF Install, Remove, ScriptRuns
      <4>2. Settable' = {s} \ Refused /\ call'.op = op /\ call' # NoCall
        BY <4>1, CallFacts DEF Settable
      <4>3. /\ caught \cap Refused = {} /\ caught = handlers \ Refused
            /\ \A t \in caught \cup handlers : InRange(t)
        BY <4>1 DEF Inv, DispositionExact
      <4>4. \A t \in (caught \cup handlers)' : InRange(t)
        BY <4>1, <4>3
      <4>5. (handlers \ Refused)' = IF op = "install" THEN (caught \cup Settable)'
                                                     ELSE (caught \ Settable)'
        BY <4>1, <4>2, <4>3
      <4>6. QED
        BY <4>1, <4>2, <4>3, <4>4, <4>5 DEF DispositionExact
    <3>2. CASE SetDisposition
      <4>1. /\ call # NoCall /\ call' = NoCall /\ handlers' = handlers
            /\ caught' = IF call.op = "install" THEN caught \cup Settable ELSE caught \ Settable
        BY <3>2 DEF SetDisposition
      <4>2. caught' = handlers \ Refused
        BY <4>1 DEF Inv, DispositionExact
      <4>3. QED
        BY <4>1, <4>2 DEF Inv, DispositionExact
    <3>3. CASE UNCHANGED <<call, caught, handlers>>
      BY <3>3 DEF Inv, DispositionExact, Settable
    <3>4. QED
      BY <1>2, <3>1, <3>2, <3>3
         DEF Next, Deliver, Dispatch, DispatchStep, CallHandler, DropSignal, DispatchEnds,
             HandlerReturns
  <2>4. QED
    BY <1>1, <2>1, <2>2, <2>3 DEF Inv
<1>3. CASE UNCHANGED vars
  BY <1>3 DEF vars, Inv, TypeOK, NoSignalLost, DispositionExact, Settable, NoSpuriousCall, Holding
<1>4. QED
  BY <1>2, <1>3

\* The bookkeeping of caught signals is exact in every reachable state.
THEOREM InvAlways == Safe => []Inv
<1>1. QED
  BY InvInit, InvStep, PTL DEF Safe
-----------------------------------------------------------------------------
\* Only the innermost dispatch looks at its mask, and a handler is owed only while
\* it is installed.
THEOREM TypeCorrect == Safe => []TypeOK
<1>1. Inv => TypeOK
  BY DEF Inv
<1>2. QED
  BY <1>1, InvAlways, PTL

\* No caught signal is lost between the C handler, PENDING, the masks of nested
\* dispatches and the script's handler.
THEOREM SignalsAreKept == Safe => []NoSignalLost
<1>1. Inv => NoSignalLost
  BY DEF Inv
<1>2. QED
  BY <1>1, InvAlways, PTL

\* No handler is called without a delivery of its own.
THEOREM CallsAreDue == Safe => []NoSpuriousCall
<1>1. Inv => NoSpuriousCall
  BY DEF Inv
<1>2. QED
  BY <1>1, InvAlways, PTL

\* Between two calls of signal, the kernel catches what the script handles, except the
\* signals it lets nobody catch, for which signal takes a handler all the same.
THEOREM KernelAgrees == Safe => []DispositionAgrees
<1>1. Inv => DispositionAgrees
  BY DEF Inv, DispositionExact, DispositionAgrees
<1>2. QED
  BY <1>1, InvAlways, PTL
=============================================================================
