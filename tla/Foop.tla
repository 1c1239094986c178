-------------------------------- MODULE Foop --------------------------------
(***************************************************************************)
(* Methods and self (colon_dispatch, sf_self of src/src/eval.rs) over the  *)
(* namespace.  self is a place, a symbol and a path into its value, on a   *)
(* stack of its own beside the calls; each call of a method is a frame     *)
(* here, first evaluating its arguments, then running its body.            *)
(***************************************************************************)
EXTENDS Namespace

CONSTANTS
  Menus,      \* programs: how often each operation is used at most
  MaxFrames   \* bound on nested method calls

VARIABLES
  heap,     \* what the interpreter holds
  frames,   \* the method calls under way, innermost last
  raised,   \* an error is unwinding the calls
  left      \* how often the program may still use each operation

foopVars == <<heap, frames, raised, left>>

Begin(op) ==
  /\ ~raised
  /\ op \in DOMAIN left /\ left[op] > 0
  /\ left' = [left EXCEPT ![op] = @ - 1]

SelfTmp == Main("$self-tmp")

Bodies == SelectSeq(frames, LAMBDA f : f.phase = "body")

(* What the calls' receivers should be: "root" is the value of the         *)
(* receiver's symbol as the calls' own changes to self make it, until a    *)
(* step assigns that symbol in another way (lost).                         *)

Lost(fs, syms) == [k \in DOMAIN fs |-> [fs[k] EXCEPT !.lost = @ \/ fs[k].at.root \in syms]]

Settled(h) == [h EXCEPT !.assigned = {}]

\* An operation that leaves this heap, or fails.
Leaves(result) ==
  \E r \in {result} :
    /\ heap' = Settled(r.h)
    /\ raised' = ~r.ok
    /\ frames' = Lost(frames, r.h.assigned)
-----------------------------------------------------------------------------
(* (:m obj args): the receiver, then the arguments, then the body. *)

\* The receiver is read and its method looked up before the arguments.
Dispatch(h, p, m) ==
  LET obj   == ReadPlace(h, p)
      class == ClassOf(obj)
      read  == Entered(h, p.root)
      func  == IF class[1].ctx = "MAIN" THEN Lookup(read, Member(class[1].term, m))
               ELSE Nil
  IN  IF obj = Missing \/ class = <<>> THEN Leaves(Fails(read))
      ELSE /\ heap' = Settled(read)
           /\ frames' = Append(Lost(frames, read.assigned),
                [phase |-> "args", at |-> p, root |-> Lookup(read, p.root),
                 func |-> func, param |-> <<>>, old |-> <<>>, lost |-> FALSE])
           /\ UNCHANGED raised

\* The receiver is the place that the expression leads to, for the method to
\* write to; when it leads to none it is evaluated, after what resolving it
\* did, and its value put in the one temporary symbol.
DispatchOn(expr, m) ==
  /\ Begin("dispatch") /\ Len(frames) < MaxFrames
  /\ \E p \in {ResolvePlace(expr, heap)} :
       \/ p.ok /\ Dispatch(p.h, p.v, m)
       \/ /\ ~p.ok
          /\ \E r \in {Eval(expr, p.h)} :
               IF r.ok THEN Dispatch(SetGlobal(r.h, SelfTmp, r.v), Place(SelfTmp, <<>>), m)
               ELSE Leaves(r)

Innermost == frames[Len(frames)]

InnermostIs(phase) ==
  /\ ~raised
  /\ frames # <<>> /\ Innermost.phase = phase

\* The arguments have their values: self is bound, then the parameter.
EnterMethod(arg) ==
  LET f     == Innermost
      s     == f.func.param
      bound == SetGlobal([heap EXCEPT !.selfs = Append(@, f.at)], s, arg)
      body  == [f EXCEPT !.phase = "body", !.param = <<s>>,
                         !.old = IF s \in DOMAIN heap.val THEN <<heap.val[s]>> ELSE <<>>]
  IN  /\ InnermostIs("args") /\ f.func.t = "lambda"
      /\ heap' = Settled(bound)
      /\ frames' = Lost(Append(Front(frames), body), bound.assigned)
      /\ UNCHANGED <<raised, left>>

\* No such method: self was bound for nothing.
NoMethod ==
  /\ InnermostIs("args") /\ Innermost.func.t # "lambda"
  /\ frames' = Front(frames) /\ raised' = TRUE
  /\ UNCHANGED <<heap, left>>

\* A call ends: its parameter gets back what it was, self is taken away.
Restored(f, h) ==
  IF f.param = <<>> THEN h
  ELSE IF f.old # <<>> THEN SetGlobal(h, f.param[1], f.old[1])
  ELSE [h EXCEPT !.val = [s \in DOMAIN @ \ {f.param[1]} |-> @[s]],
                 !.assigned = @ \cup {f.param[1]}]

Popped(f, h) == IF f.phase = "body" THEN [h EXCEPT !.selfs = Front(@)] ELSE h

\* What is left when the innermost call is.
CallLeaves(h) ==
  /\ heap' = Settled(h)
  /\ frames' = Lost(Front(frames), h.assigned)

EndMethod ==
  /\ InnermostIs("body")
  /\ CallLeaves(Popped(Innermost, Restored(Innermost, heap)))
  /\ UNCHANGED <<raised, left>>

\* An error leaves the call like any other end of it.
Unwind ==
  /\ raised /\ frames # <<>>
  /\ CallLeaves(Popped(Innermost, Restored(Innermost, heap)))
  /\ UNCHANGED <<raised, left>>

\* (throw v), from a method; a catch may be around any call.
Throw ==
  /\ Begin("throw") /\ frames # <<>>
  /\ raised' = TRUE
  /\ UNCHANGED <<heap, frames>>

Catch ==
  /\ raised
  /\ raised' = FALSE
  /\ UNCHANGED <<heap, frames, left>>
-----------------------------------------------------------------------------
(* (setf (self i ...) v) *)

\* The receiver's symbol, as it should be once that part of it is v.
Written(fs, own, path, v) ==
  [k \in DOMAIN fs |->
     IF fs[k].at.root = own.root /\ ~fs[k].lost
       THEN [fs[k] EXCEPT !.root = WithPart(@, own.path \o path, v)] ELSE fs[k]]

SelfAt(path) == List(<<Symbol(Main("self"))>> \o [k \in DOMAIN path |-> Integer(path[k])])

SetSelf(path, v) ==
  /\ Begin("setf-self")
  /\ \E r \in {Eval(List(<<Symbol(Main("setf")), SelfAt(path), v>>), heap)} :
       IF r.ok THEN /\ heap' = Settled(r.h)
                    /\ frames' = Written(frames, Last(Bodies).at, path, v)
                    /\ UNCHANGED raised
       ELSE Leaves(r)

\* Assignments of the program, which also a method's arguments and body make.
Assign(s, form)   == Begin("set") /\ Leaves(SetForm(heap, s, form))
Protect(s, form)  == Begin("constant") /\ Leaves(ConstantForm(heap, s, form))
Define(s, l)      == Begin("define") /\ Leaves(DefineForm(heap, s, l))
NewContext(p, c)  == Begin("new") /\ Leaves(NewForm(heap, p, c))
DeleteSymbol(s)   == Begin("delete") /\ Leaves(DeleteForm(heap, s))
MakeMember(c, t, form) == Begin("member") /\ Leaves(MemberForm(heap, c, t, form))
Switch(c)         == Begin("context") /\ Leaves(Returns(Context(c), SwitchTo(heap, c)))
Evaluate(form)    == Begin("eval") /\ Leaves(Eval(form, heap))
-----------------------------------------------------------------------------
\* Between the running methods and self_stack: each has its receiver there,
\* and reads in it what it and the methods it calls have made of it, whatever
\* calls came between and however they ended (colon_dispatch pushes and pops;
\* errors unwind).  Three things assign the receiver's symbol otherwise, and
\* nothing is said of the value after them: an assignment of the program, a
\* parameter that is the receiver's own symbol, and a nested call on another
\* temporary, which takes the same symbol $self-tmp, although ADR-0010 has self
\* behave correctly under nested method calls.
SelfIsReceiver ==
  /\ Len(heap.selfs) = Len(Bodies)
  /\ \A k \in DOMAIN Bodies :
       /\ heap.selfs[k] = Bodies[k].at
       /\ ~Bodies[k].lost =>
            ReadPlace(heap, heap.selfs[k]) = Part(Bodies[k].root, Bodies[k].at.path)
=============================================================================
