---------------------------- MODULE Expressions -----------------------------
(***************************************************************************)
(* Evaluating a form, and resolving it to the place it leads to            *)
(* (src/src/eval.rs).  A form is a value; either returns a result and the  *)
(* heap it leaves, or fails.  The branching forms are written twice in the *)
(* code, once for each: what a branch evaluates to, and what place it is.  *)
(***************************************************************************)
EXTENDS Heap

RECURSIVE Run(_, _, _), ValuesEqual(_, _), IfForm(_, _)

Eval(form, h)         == Run("value", form, h)
ResolvePlace(expr, h) == Run("place", expr, h)

Returns(v, h) == [ok |-> TRUE, v |-> v, h |-> h]
Fails(h)      == [ok |-> FALSE, v |-> Nil, h |-> h]

\* What it is for v, which is evaluated once.
With(v, It(_)) == CHOOSE it \in {It(x) : x \in {v}} : TRUE

\* What follows where this succeeds.
Then(result, Rest(_, _)) == With(result, LAMBDA r : IF r.ok THEN Rest(r.v, r.h) ELSE r)

Truthy(v) == v # Nil /\ v # List(<<>>)

\* A context and the symbol of its name are equal, so objects match literals.
ValuesEqual(a, b) ==
  CASE a.t \in {"int", "float"} /\ b.t \in {"int", "float"} -> a.n = b.n
    [] a.t = "ctx" /\ b.t = "sym" -> Main(a.of) = b.sym
    [] a.t = "sym" /\ b.t = "ctx" -> a.sym = Main(b.of)
    [] a.t = "list" /\ b.t = "list" ->
         /\ Len(a.items) = Len(b.items)
         /\ \A k \in DOMAIN a.items : ValuesEqual(a.items[k], b.items[k])
    [] OTHER -> a = b /\ a.t \notin {"lambda", "builtin"}

\* Evaluated one after the other, as long as the values are accepted.
EvalEach(args, Accepts(_), h) ==
  LET done[k \in 0..Len(args)] ==
        IF k = 0 THEN Returns(<<>>, h)
        ELSE Then(done[k - 1], LAMBDA vs, g :
               Then(Eval(args[k], g), LAMBDA v, g2 :
                 IF Accepts(v) THEN Returns(Append(vs, v), g2) ELSE Fails(g2)))
  IN  done[Len(args)]

EvalArgs(args, h) == EvalEach(args, LAMBDA v : TRUE, h)

\* eval_index, of several indices.
EvalIndices(args, h) ==
  Then(EvalEach(args, LAMBDA v : v.t = "int", h),
       LAMBDA vs, g : Returns([k \in DOMAIN vs |-> vs[k].n], g))

EvalBody(body, h) ==
  Then(EvalArgs(body, h), LAMBDA vs, g : Returns(IF vs = <<>> THEN Nil ELSE Last(vs), g))

\* The first that Tries finds something in, <<>> when there is none.
FirstFound(items, Tries(_, _), h) ==
  LET at[k \in 0..Len(items)] ==
        IF k = 0 THEN Returns(<<>>, h)
        ELSE Then(at[k - 1], LAMBDA found, g :
               IF found = <<>> THEN Tries(items[k], g) ELSE at[k - 1])
  IN  at[Len(items)]
-----------------------------------------------------------------------------
(* What the branching forms look for; each is used by the form and by its  *)
(* place.                                                                  *)

\* or: the first expression that is true, and its value.
FirstTrue(args, h) ==
  LET Tries(e, g) == Then(Eval(e, g), LAMBDA v, g2 :
                       Returns(IF Truthy(v) THEN <<[form |-> e, v |-> v]>> ELSE <<>>, g2))
  IN  FirstFound(args, Tries, h)

\* and: a false one before the last.
FirstFalse(args, h) ==
  LET Tries(e, g) == Then(Eval(e, g), LAMBDA v, g2 :
                       Returns(IF Truthy(v) THEN <<>> ELSE <<v>>, g2))
  IN  FirstFound(Front(args), Tries, h)

\* cond: the body of the first clause whose test is true.
CondBody(clauses, h) ==
  LET Tries(c, g) == Then(Eval(c.items[1], g), LAMBDA v, g2 :
                       Returns(IF Truthy(v) THEN <<Tail(c.items)>> ELSE <<>>, g2))
  IN  FirstFound(clauses, Tries, h)

CaseLabelMatches(label, key) == label \in {True, Symbol(Main("t"))} \/ ValuesEqual(label, key)

\* case: the body of the first clause whose label is the key.
CaseBody(args, h) ==
  Then(Eval(args[1], h), LAMBDA key, g :
    LET Tries(c, g2) ==
          Returns(IF CaseLabelMatches(c.items[1], key) THEN <<Tail(c.items)>> ELSE <<>>, g2)
    IN  FirstFound(Tail(args), Tries, g))

\* The first pair of an association list that has this key.
PairWith(key, v) ==
  LET Matches(k) == /\ v.items[k].t = "list" /\ v.items[k].items # <<>>
                    /\ ValuesEqual(v.items[k].items[1], key)
      found == IF v.t = "list" THEN {k \in DOMAIN v.items : Matches(k)} ELSE {}
  IN  IF found = {} THEN <<>> ELSE <<CHOOSE k \in found : \A other \in found : k <= other>>
-----------------------------------------------------------------------------
(* Values of the special forms and of the builtins that name an element. *)

IfForm(args, h) ==
  IF args = <<>> THEN Returns(Nil, h)
  ELSE IF Len(args) = 1 THEN Eval(args[1], h)
  ELSE Then(Eval(args[1], h), LAMBDA c, g :
         IF Truthy(c) THEN Eval(args[2], g) ELSE IfForm(SubSeq(args, 3, Len(args)), g))

IfNotForm(args, h) ==
  Then(Eval(args[1], h), LAMBDA c, g :
    LET k == IF Truthy(c) THEN 3 ELSE 2
    IN  IF k \in DOMAIN args THEN Eval(args[k], g) ELSE Returns(Nil, g))

WhenForm(args, positive, h) ==
  Then(Eval(args[1], h), LAMBDA c, g :
    IF Truthy(c) = positive THEN EvalBody(Tail(args), g) ELSE Returns(Nil, g))

AndForm(args, h) ==
  IF args = <<>> THEN Returns(True, h)
  ELSE Then(FirstFalse(args, h), LAMBDA stop, g :
         IF stop # <<>> THEN Returns(Nil, g)
         ELSE Then(Eval(Last(args), g), LAMBDA v, g2 :
                Returns(IF Truthy(v) THEN v ELSE Nil, g2)))

OrForm(args, h) ==
  Then(FirstTrue(args, h), LAMBDA found, g :
    Returns(IF found = <<>> THEN Nil ELSE found[1].v, g))

\* The body that cond or case takes, or nil.
BodyTaken(chosen) ==
  Then(chosen, LAMBDA body, g : IF body = <<>> THEN Returns(Nil, g) ELSE EvalBody(body[1], g))

Read(h, p) ==
  IF ReadPlace(h, p) = Missing THEN Fails(Entered(h, p.root))
  ELSE Returns(ReadPlace(h, p), Entered(h, p.root))

\* (self i ...)
SelfForm(args, h) ==
  IF h.selfs = <<>> THEN Fails(h)
  ELSE Then(EvalIndices(args, h), LAMBDA path, g :
         Read(g, Within(Last(h.selfs), path)))

CheckWritable(h, s) == s \notin h.prot

\* A place is written where its path still leads.
WithPlaceMut(h, p, v) ==
  IF ~CheckWritable(h, p.root) THEN Fails(h)
  ELSE IF ReadPlace(h, p) = Missing THEN Fails(Entered(h, p.root))
  ELSE Returns(v, SetGlobal(h, p.root, WithPart(Lookup(h, p.root), p.path, v)))

\* (setf place form ...); the programs' forms do not name $it.
SetfForm(args, h) ==
  LET done[k \in 0..(Len(args) \div 2)] ==
        IF k = 0 THEN Returns(Nil, h)
        ELSE Then(done[k - 1], LAMBDA last, g :
               Then(ResolvePlace(args[2 * k - 1], g), LAMBDA p, g2 :
                 Then(Read(g2, p), LAMBDA old, g3 :
                   Then(Eval(args[2 * k], g3), LAMBDA v, g4 : WithPlaceMut(g4, p, v)))))
  IN  IF Len(args) % 2 = 0 THEN done[Len(args) \div 2] ELSE Fails(h)

NthOf(i, v, h) == IF v.t \in {"list", "str"} THEN Returns(IndexOne(i, v), h) ELSE Fails(h)

\* first and last, which fail where there is nothing.
EndOf(i, v, h) == IF v \in {List(<<>>), Str(<<>>)} THEN Fails(h) ELSE NthOf(i, v, h)

AssocOf(key, v, h) ==
  LET at == PairWith(key, v)
  IN  Returns(IF at = <<>> THEN Nil ELSE v.items[at[1]], h)

LookupOf(key, v, i, h) ==
  LET at == PairWith(key, v)
  IN  Returns(IF at = <<>> THEN Nil ELSE IndexOne(i, v.items[at[1]]), h)

\* The last element of the pair, when no index is given.
PairIndex(vs) == IF Len(vs) = 3 /\ vs[3].t = "int" THEN vs[3].n ELSE -1

Builtin(op, vs, h) ==
  CASE op = "nth"    -> IF vs[1].t = "int" THEN NthOf(vs[1].n, vs[2], h) ELSE Fails(h)
    [] op = "first"  -> EndOf(0, vs[1], h)
    [] op = "last"   -> EndOf(-1, vs[1], h)
    [] op = "assoc"  -> AssocOf(vs[1], vs[2], h)
    [] op = "lookup" -> LookupOf(vs[1], vs[2], PairIndex(vs), h)

Builtins == {"nth", "first", "last", "assoc", "lookup"}

SpecialForm(op, args, h) ==
  CASE op = "if"     -> IfForm(args, h)
    [] op = "if-not" -> IfNotForm(args, h)
    [] op = "when"   -> WhenForm(args, TRUE, h)
    [] op = "unless" -> WhenForm(args, FALSE, h)
    [] op = "begin"  -> EvalBody(args, h)
    [] op = "and"    -> AndForm(args, h)
    [] op = "or"     -> OrForm(args, h)
    [] op = "cond"   -> BodyTaken(CondBody(args, h))
    [] op = "case"   -> BodyTaken(CaseBody(args, h))
    [] op = "setf"   -> SetfForm(args, h)
    [] op = "self"   -> SelfForm(args, h)

SpecialForms == {"if", "if-not", "when", "unless", "begin", "and", "or", "cond", "case",
                 "setf", "self"}

\* The name in functor position, if there is one.
Operator(items) ==
  IF items[1].t = "sym" /\ items[1].sym = Main(items[1].sym.term) THEN items[1].sym.term
  ELSE ""
-----------------------------------------------------------------------------
(* Contexts and lambdas applied, sequences that index themselves. *)

\* A key that is a number is the key of its digits.
KeyText(v) == IF v.t = "str" THEN v.text ELSE <<Digit(v.n)>>

\* The entries of a dictionary as (key value) pairs.
Associations(h, c) ==
  LET entries == SelectSeq(Members(h, c), IsEntry)
  IN  List([k \in DOMAIN entries |->
              List(<<Str(entries[k].key[1]), Lookup(h, entries[k])>>)])

\* A list of pairs sets one entry after the other.
BulkLoad(h, c, pairs) ==
  LET IsPair(v) == v.t = "list" /\ Len(v.items) >= 2
      loaded[k \in 0..Len(pairs)] ==
        IF k = 0 THEN h
        ELSE IF ~IsPair(pairs[k]) THEN loaded[k - 1]
        ELSE SetGlobal(loaded[k - 1], Entry(c, KeyText(pairs[k].items[1])),
                       pairs[k].items[2])
  IN  loaded[Len(pairs)]

\* A context applied, when its functor is nil: a dictionary.
NamespaceHash(c, args, h) ==
  IF args = <<>> THEN Returns(Associations(h, c), h)
  ELSE Then(Eval(args[1], h), LAMBDA key, g :
         CASE key.t \in {"str", "int", "float"} ->
                LET s == Entry(c, KeyText(key))
                IN  IF Len(args) = 1 THEN Returns(Lookup(g, s), g)
                    ELSE Then(Eval(args[2], g), LAMBDA v, g2 :
                           Returns(v, SetGlobal(g2, s, v)))
           [] key.t = "list" -> Returns(Context(c), BulkLoad(g, c, key.items))
           [] key.t = "nil"  -> Returns(Associations(g, c), g)
           [] OTHER          -> Fails(g))

\* What a lambda's body is with its parameter bound; the heap is as before.
Called(l, args, h) ==
  LET arg   == IF args = <<>> THEN Nil ELSE args[1]
      bound == SetGlobal(h, l.param, arg)
  IN  IF l.makes = "" THEN arg
      ELSE List(<<Lookup(bound, Main(l.makes)), Lookup(bound, l.param)>>)

Apply(l, args, h) ==
  Then(EvalArgs(args, h), LAMBDA given, g : Returns(Called(l, given, g), g))

\* A context applied: the constructor that is its functor, a dictionary
\* without one, and a list tagged with the class for any other functor.
Construct(c, args, h) ==
  LET functor == Lookup(h, Member(c, c))
  IN  CASE functor.t = "lambda" -> Apply(functor, args, h)
        [] functor.t = "nil" -> NamespaceHash(c, args, h)
        [] OTHER -> Then(EvalArgs(args, h), LAMBDA given, g :
                      Returns(List(<<Symbol(Main(c))>> \o given), g))

\* (i seq) and (i len seq).
ImplicitIndex(i, args, h) ==
  Then(EvalArgs(args, h), LAMBDA given, g :
    CASE Len(args) = 1 -> Returns(SliceSeq(i, <<>>, given[1]), g)
      [] Len(args) = 2 /\ given[1].t = "int" ->
           Returns(SliceSeq(i, <<given[1].n>>, given[2]), g)
      [] OTHER -> Fails(g))

\* (seq i j ...): every index is evaluated, and must be a number.
Indexed(v, args, h) ==
  Then(EvalIndices(args, h), LAMBDA path, g :
    LET at[k \in 0..Len(path)] == IF k = 0 THEN v ELSE IndexOne(path[k], at[k - 1])
    IN  Returns(at[Len(path)], g))

\* The head of any other list is evaluated, and applied.
ApplyHead(items, h) ==
  Then(Eval(items[1], h), LAMBDA head, g :
    CASE head.t = "int" -> ImplicitIndex(head.n, Tail(items), g)
      [] head.t \in {"list", "str"} -> Indexed(head, Tail(items), g)
      [] head.t = "ctx" -> Construct(head.of, Tail(items), g)
      [] head.t = "lambda" -> Apply(head, Tail(items), g)
      [] OTHER -> Fails(g))

EvalList(items, h) ==
  LET op   == Operator(items)
      args == Tail(items)
  IN  CASE items = <<>> -> Returns(Nil, h)
        [] items # <<>> /\ op \in SpecialForms -> SpecialForm(op, args, h)
        [] items # <<>> /\ op \in Builtins ->
             Then(EvalArgs(args, h), LAMBDA vs, g : Builtin(op, vs, g))
        [] OTHER -> ApplyHead(items, h)

\* A special form named as a value is its name.
ValueOf(form, h) ==
  CASE form.t = "sym" ->
         IF Lookup(h, form.sym) = Nil /\ form.sym \in {Main(f) : f \in SpecialForms}
           THEN Returns(form, h) ELSE Returns(Lookup(h, form.sym), h)
    [] form.t = "quote" -> Returns(form.of, h)
    [] form.t = "list"  -> EvalList(form.items, h)
    [] OTHER            -> Returns(form, h)
-----------------------------------------------------------------------------
(* Places. *)

\* The part at i of a place.
At(place, i) ==
  Then(place, LAMBDA p, g : Returns(Within(p, <<i>>), g))

PlaceLast(forms, h) ==
  IF forms = <<>> THEN Fails(h)
  ELSE Then(EvalArgs(Front(forms), h), LAMBDA vs, g : ResolvePlace(Last(forms), g))

\* The second argument or the third, whatever follows.
PlaceIf(args, inverted, h) ==
  Then(Eval(args[1], h), LAMBDA c, g :
    LET k == IF Truthy(c) # inverted THEN 2 ELSE 3
    IN  IF k \in DOMAIN args THEN ResolvePlace(args[k], g) ELSE Fails(g))

PlaceGuard(args, positive, h) ==
  Then(Eval(args[1], h), LAMBDA c, g :
    IF Truthy(c) = positive THEN PlaceLast(Tail(args), g) ELSE Fails(g))

PlaceAnd(args, h) ==
  IF args = <<>> THEN Fails(h)
  ELSE Then(FirstFalse(args, h), LAMBDA stop, g :
         IF stop # <<>> THEN Fails(g) ELSE ResolvePlace(Last(args), g))

\* An or whose place is that of its first expression.
PlaceOrFirst(args, h) == Then(FirstTrue(args, h), LAMBDA found, g :
    IF found = <<>> THEN Fails(g) ELSE ResolvePlace(args[1], g))

\* The expression that is true is evaluated again, for its place.
PlaceOr(args, h) ==
  Then(FirstTrue(args, h), LAMBDA found, g :
    IF found = <<>> THEN Fails(g) ELSE ResolvePlace(found[1].form, g))

PlaceOfBody(chosen) ==
  Then(chosen, LAMBDA body, g : IF body = <<>> THEN Fails(g) ELSE PlaceLast(body[1], g))

PlaceAfterSet(args, h) ==
  Then(SetfForm(args, h), LAMBDA v, g : ResolvePlace(args[1], g))

\* The pair of this key in what a place holds.
PlaceOfPair(key, p, h) ==
  Then(Read(h, p), LAMBDA v, g :
    LET at == PairWith(key, v)
    IN  IF at = <<>> THEN Fails(g) ELSE At(Returns(p, g), at[1] - 1))

PlaceAssoc(args, h) ==
  Then(Eval(args[1], h), LAMBDA key, g :
    Then(ResolvePlace(args[2], g), LAMBDA p, g2 : PlaceOfPair(key, p, g2)))

PlaceLookup(args, h) ==
  Then(Eval(args[1], h), LAMBDA key, g :
    Then(ResolvePlace(args[2], g), LAMBDA p, g2 :
      Then(EvalIndices(SubSeq(args, 3, Len(args)), g2), LAMBDA given, g3 :
        At(PlaceOfPair(key, p, g3), IF given = <<>> THEN -1 ELSE given[1]))))

\* (place i ...): what the place holds must be indexable, which rules calls
\* out; looking enters its symbol.
ImplicitPlace(items, h) ==
  Then(ResolvePlace(items[1], h), LAMBDA p, g :
    LET g2 == Entered(g, p.root)
    IN  IF Len(items) = 1 THEN Returns(p, g)
        ELSE IF ReadPlace(g, p).t \notin {"list", "str"} THEN Fails(g2)
        ELSE Then(EvalIndices(Tail(items), g2), LAMBDA path, g3 :
               Returns(Within(p, path), g3)))

PlaceOfSymbol(s, h) ==
  IF s # Main("self") THEN Returns(Place(s, <<>>), h)
  ELSE IF h.selfs = <<>> THEN Fails(h) ELSE Returns(Last(h.selfs), h)

PlaceOfForm(items, h) ==
  LET op   == Operator(items)
      args == Tail(items)
  IN  CASE op = "nth" /\ Len(args) = 2 ->
             Then(EvalIndices(<<args[1]>>, h), LAMBDA path, g :
               At(ResolvePlace(args[2], g), path[1]))
        [] op = "first" /\ Len(args) = 1 -> At(ResolvePlace(args[1], h), 0)
        [] op = "last" /\ Len(args) = 1  -> At(ResolvePlace(args[1], h), -1)
        [] op = "if"     -> PlaceIf(args, FALSE, h)
        [] op = "if-not" -> PlaceIf(args, TRUE, h)
        [] op = "when"   -> PlaceGuard(args, TRUE, h)
        [] op = "unless" -> PlaceGuard(args, FALSE, h)
        [] op = "begin"  -> PlaceLast(args, h)
        [] op = "and"    -> PlaceAnd(args, h)
        [] op = "or"     -> PlaceOr(args, h)
        [] op = "cond"   -> PlaceOfBody(CondBody(args, h))
        [] op = "case"   -> PlaceOfBody(CaseBody(args, h))
        [] op = "setf"   -> PlaceAfterSet(args, h)
        [] op = "assoc" /\ Len(args) >= 2  -> PlaceAssoc(args, h)
        [] op = "lookup" /\ Len(args) >= 2 -> PlaceLookup(args, h)
        [] OTHER -> ImplicitPlace(items, h)

\* A quoted form is a call of quote, whose symbol the look enters.
PlaceOf(expr, h) ==
  CASE expr.t = "sym"   -> PlaceOfSymbol(expr.sym, h)
    [] expr.t = "list" /\ expr.items # <<>> -> PlaceOfForm(expr.items, h)
    [] expr.t = "quote" -> Fails(Entered(h, Main("quote")))
    [] OTHER            -> Fails(h)

Run(what, form, h) == IF what = "value" THEN ValueOf(form, h) ELSE PlaceOf(form, h)
=============================================================================
