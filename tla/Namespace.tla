----------------------------- MODULE Namespace ------------------------------
(***************************************************************************)
(* The forms that change the namespace (src/src/eval.rs, new and delete of *)
(* builtins.rs).  Each returns a value and the heap it leaves, or fails.   *)
(***************************************************************************)
EXTENDS Expressions

\* (set 's form): protection is looked at first, the form evaluated next.
SetForm(h, s, form) ==
  IF ~CheckWritable(h, s) THEN Fails(h)
  ELSE Then(Eval(form, h), LAMBDA v, g : Returns(v, SetGlobal(g, s, v)))

\* (constant 's form): sets a protected symbol too.
ConstantForm(h, s, form) ==
  Then(Eval(form, h), LAMBDA v, g :
    Returns(v, [SetGlobal(g, s, v) EXCEPT !.prot = @ \cup {s}]))

\* (define (s param) ...)
DefineForm(h, s, lambda) == Returns(lambda, SetGlobal(EnsureContext(h, s), s, lambda))

\* (context 'c "term" form)
MemberForm(h, c, term, form) ==
  Then(Eval(form, [SwitchTo(h, c) EXCEPT !.current = h.current]), LAMBDA v, g :
    Returns(Symbol(Member(c, term)), SetGlobal(g, Member(c, term), v)))

\* (new proto 'c): the live members are copied, the functor under the new
\* name.
NewForm(h, proto, c) ==
  LET named == SetGlobal(h, Main(c), Context(c))
      from  == IF proto = c THEN <<>> ELSE Members(named, proto)
      New(s) == IF s = Member(proto, proto) THEN Member(c, c) ELSE [s EXCEPT !.ctx = c]
      copied[k \in 0..Len(from)] ==
        IF k = 0 THEN named
        ELSE SetGlobal(copied[k - 1], New(from[k]), Lookup(named, from[k]))
  IN  Returns(Context(c), copied[Len(from)])

\* What dies with a symbol: of a MAIN symbol, the members of its context.
Dead(s, m) == m = s \/ (s.ctx = "MAIN" /\ m.ctx = s.term)

\* delete that takes the symbols out of globals.
DeleteUnbinds(h, s) ==
  Returns(Nil, [h EXCEPT !.val = [m \in {n \in DOMAIN @ : ~Dead(s, n)} |-> @[m]]])

\* (delete 's): they stay bound, to nil, constants among them too.
DeleteForm(h, s) ==
  Returns(Nil, [h EXCEPT
    !.val = [m \in DOMAIN @ \cup {s} |-> IF Dead(s, m) THEN Nil ELSE @[m]],
    !.assigned = @ \cup {m \in DOMAIN h.val : Dead(s, m)}])
=============================================================================
