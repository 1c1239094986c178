----------------------------- MODULE OsSignals -----------------------------
(***************************************************************************)
(* Operating-system signals (process.rs): the kernel delivers them at any  *)
(* moment, between any two steps of the interpreter.  The C handler only   *)
(* sets a bit of PENDING; the interpreter swaps PENDING for an empty mask  *)
(* at the safe points of eval_body and calls the script's handlers, whose  *)
(* bodies have safe points of their own and may change the handlers.       *)
(***************************************************************************)
EXTENDS Naturals, Sequences, FiniteSets

CONSTANTS
  Sigs,           \* the numbers the script gives to signal
  Refused,        \* those the kernel sets no disposition for: SIGKILL, SIGSTOP, 0
  MaxDeliveries,  \* bound: deliveries of each signal
  MaxNest         \* bound: dispatches active at once

ASSUME OsSignalsAssumption ==
  /\ Sigs \subseteq Nat
  /\ Refused \subseteq Sigs
  /\ MaxDeliveries \in Nat
  /\ MaxNest \in Nat \ {0}

VARIABLES
  pending,    \* PENDING: the signals delivered since the last dispatch
  caught,     \* the signals whose disposition is the C handler
  handlers,   \* the signals that have a handler in the script
  masks,      \* the dispatches being executed, innermost last
  call,       \* the b_signal being executed, between its two steps
  alive,      \* FALSE once a signal's default action ended the process
  owed,       \* signals caught since their handler was last called, if it stayed
  delivered,  \* how often each signal was caught
  runs        \* how often each handler was called

vars == <<pending, caught, handlers, masks, call, alive, owed, delivered, runs>>

\* One dispatch: the signals of its mask it has still to look at, and whether it
\* is calling a handler.
Mask == [todo : SUBSET Sigs, running : BOOLEAN]
NoCall == [op |-> "none"]
Call == [op : {"install", "remove"}, sig : Sigs] \cup {NoCall}

Init ==
  /\ pending = {}
  /\ caught = {}
  /\ handlers = {}
  /\ masks = <<>>
  /\ call = NoCall
  /\ alive = TRUE
  /\ owed = {}
  /\ delivered = [s \in Sigs |-> 0]
  /\ runs = [s \in Sigs |-> 0]

Innermost == masks[Len(masks)]
WithInnermost(mask) == [masks EXCEPT ![Len(masks)] = mask]

\* A mutant of ScriptRuns: a dispatch passes safe points between two handlers.
ScriptRunsBetween ==
  /\ alive
  /\ call = NoCall

\* Script code runs: at the top level, or in the handler that is being called.
ScriptRuns ==
  /\ alive
  /\ call = NoCall
  /\ masks # <<>> => Innermost.running

\* A dispatch looks for the next signal of its mask.
Dispatching ==
  /\ alive
  /\ masks # <<>>
  /\ ~ Innermost.running

\* The bits of PENDING: signal refuses every other number, and the C handler, which
\* could not count it, drops it.
InRange(s) == s < 64

\* The default action is taken to end the process.
Deliver(s) ==
  /\ alive
  /\ delivered[s] < MaxDeliveries
  /\ IF s \in caught
       THEN /\ pending' = IF InRange(s) THEN pending \cup {s} ELSE pending
            /\ owed' = owed \cup ({s} \cap handlers)
            /\ delivered' = [delivered EXCEPT ![s] = @ + 1]
            /\ UNCHANGED alive
       ELSE /\ alive' = FALSE
            /\ UNCHANGED <<pending, owed, delivered>>
  /\ UNCHANGED <<caught, handlers, masks, call, runs>>
-----------------------------------------------------------------------------
(* b_signal: the table of handlers first, then the disposition, and nobody looks   *)
(* whether the kernel took it.                                                     *)

Install(s) ==
  /\ ScriptRuns
  /\ InRange(s)
  /\ handlers' = handlers \cup {s}
  /\ call' = [op |-> "install", sig |-> s]
  /\ UNCHANGED <<pending, caught, masks, alive, owed, delivered, runs>>

Remove(s) ==
  /\ ScriptRuns
  /\ InRange(s)
  /\ handlers' = handlers \ {s}
  /\ owed' = owed \ {s}
  /\ call' = [op |-> "remove", sig |-> s]
  /\ UNCHANGED <<pending, caught, masks, alive, delivered, runs>>

\* What libc::signal can change: the return that says it failed is ignored.
Settable == {call.sig} \ Refused

\* A mutant of SetDisposition: a removed handler's disposition is left alone.
SetIfInstalled ==
  /\ alive
  /\ call # NoCall
  /\ caught' = IF call.op = "install" THEN caught \cup Settable ELSE caught
  /\ call' = NoCall
  /\ UNCHANGED <<pending, handlers, masks, alive, owed, delivered, runs>>

SetDisposition ==
  /\ alive
  /\ call # NoCall
  /\ caught' = IF call.op = "install" THEN caught \cup Settable ELSE caught \ Settable
  /\ call' = NoCall
  /\ UNCHANGED <<pending, handlers, masks, alive, owed, delivered, runs>>
-----------------------------------------------------------------------------
(* dispatch_signals. *)

\* A mutant of Dispatch: PENDING is loaded, not swapped.
DispatchLoaded ==
  /\ ScriptRuns
  /\ pending # {}
  /\ Len(masks) < MaxNest
  /\ masks' = Append(masks, [todo |-> pending, running |-> FALSE])
  /\ UNCHANGED <<pending, caught, handlers, call, alive, owed, delivered, runs>>

Dispatch ==
  /\ ScriptRuns
  /\ pending # {}
  /\ Len(masks) < MaxNest
  /\ masks' = Append(masks, [todo |-> pending, running |-> FALSE])
  /\ pending' = {}
  /\ UNCHANGED <<caught, handlers, call, alive, owed, delivered, runs>>

\* Signals are looked at in the order of their numbers.
NextSignal(s) ==
  /\ Dispatching
  /\ s \in Innermost.todo
  /\ \A t \in Innermost.todo : s <= t

\* A mutant of CallHandler: the whole mask is taken as handled.
CallOneHandler(s) ==
  /\ NextSignal(s)
  /\ s \in handlers
  /\ masks' = WithInnermost([todo |-> {}, running |-> TRUE])
  /\ owed' = owed \ {s}
  /\ runs' = [runs EXCEPT ![s] = @ + 1]
  /\ UNCHANGED <<pending, caught, handlers, call, alive, delivered>>

CallHandler(s) ==
  /\ NextSignal(s)
  /\ s \in handlers
  /\ masks' = WithInnermost([todo |-> Innermost.todo \ {s}, running |-> TRUE])
  /\ owed' = owed \ {s}
  /\ runs' = [runs EXCEPT ![s] = @ + 1]
  /\ UNCHANGED <<pending, caught, handlers, call, alive, delivered>>

\* The handler was removed after the signal was caught.
DropSignal(s) ==
  /\ NextSignal(s)
  /\ s \notin handlers
  /\ masks' = WithInnermost([Innermost EXCEPT !.todo = @ \ {s}])
  /\ UNCHANGED <<pending, caught, handlers, call, alive, owed, delivered, runs>>

\* A handler returns, or fails: its error is dropped.
HandlerReturns ==
  /\ ScriptRuns
  /\ masks # <<>>
  /\ masks' = WithInnermost([Innermost EXCEPT !.running = FALSE])
  /\ UNCHANGED <<pending, caught, handlers, call, alive, owed, delivered, runs>>

\* A mutant of DispatchEnds: PENDING is cleared after the handlers.
EndAndClear ==
  /\ Dispatching
  /\ Innermost.todo = {}
  /\ masks' = SubSeq(masks, 1, Len(masks) - 1)
  /\ pending' = {}
  /\ UNCHANGED <<caught, handlers, call, alive, owed, delivered, runs>>

DispatchEnds ==
  /\ Dispatching
  /\ Innermost.todo = {}
  /\ masks' = SubSeq(masks, 1, Len(masks) - 1)
  /\ UNCHANGED <<pending, caught, handlers, call, alive, owed, delivered, runs>>

DispatchStep == (\E s \in Sigs : CallHandler(s) \/ DropSignal(s)) \/ DispatchEnds

Next ==
  \/ \E s \in Sigs : Deliver(s) \/ Install(s) \/ Remove(s)
  \/ SetDisposition
  \/ Dispatch
  \/ DispatchStep
  \/ HandlerReturns

Safe == Init /\ [][Next]_vars

\* The interpreter keeps executing; whatever the script does between two forms of
\* a body, it comes to a safe point again and again, and handlers return.
Fairness ==
  /\ WF_vars(SetDisposition)
  /\ WF_vars(DispatchStep)
  /\ SF_vars(Dispatch)
  /\ SF_vars(HandlerReturns)

Spec == Safe /\ Fairness
-----------------------------------------------------------------------------
TypeOK ==
  /\ pending \subseteq Sigs
  /\ caught \subseteq Sigs
  /\ handlers \subseteq Sigs
  /\ masks \in Seq(Mask)
  /\ Len(masks) <= MaxNest
  /\ \A i \in 1..Len(masks) : i < Len(masks) => masks[i].running
  /\ call \in Call
  /\ alive \in BOOLEAN
  /\ owed \subseteq handlers
  /\ delivered \in [Sigs -> 0..MaxDeliveries]
  /\ runs \in [Sigs -> Nat]

\* The dispatches whose mask still holds a signal.
Holding(s) == {i \in 1..Len(masks) : s \in masks[i].todo}

\* A caught signal whose handler is not removed is never lost: until the handler
\* is called it is in PENDING or in the mask of a dispatch under way, also when it
\* arrives during a dispatch, or in a handler (dispatch_signals' swap).
NoSignalLost == \A s \in owed : s \in pending \/ Holding(s) # {}

\* No handler is called more often than its signal was caught, through nested
\* dispatches and handlers that remove and install each other.
NoSpuriousCall ==
  \A s \in Sigs :
    runs[s] + Cardinality(Holding(s)) + (IF s \in pending THEN 1 ELSE 0) <= delivered[s]

\* Between two calls of signal, the kernel catches exactly the signals that have a
\* handler and that it lets anybody catch: none of these ends the process although
\* it is handled, and none is swallowed for good by a handler that is gone.  A
\* handler for a refused signal is accepted and never called: b_signal ignores the
\* failure of libc::signal, and the table then says more than the kernel does.
DispositionAgrees == call = NoCall => caught = handlers \ Refused

\* The handler of a caught signal is called in the end, unless it is removed or
\* the process ends.
SignalHandled == \A s \in Sigs : s \in owed ~> (s \notin owed \/ ~ alive)
=============================================================================
