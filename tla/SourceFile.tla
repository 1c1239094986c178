----------------------------- MODULE SourceFile -----------------------------
(***************************************************************************)
(* Saving the namespace as source and loading it (source_of, read_and_eval *)
(* of src/src/eval.rs; save, load of fileio.rs; the reader's contexts).  A *)
(* file is a sequence of top-level forms: (context 'c) and (set 's form),  *)
(* strings in them as the bytes of their literals.                         *)
(***************************************************************************)
EXTENDS Namespace

CONSTANTS
  Globals,      \* names declared global: the reader leaves them as they are
  Delimiters    \* the bytes that end a symbol's name

ContextLine(c)   == [line |-> "context", ctx |-> c]
SetLine(s, form) == [line |-> "set", sym |-> s, form |-> form]

(* Printing. *)

Literal(bytes) == [t |-> "literal", bytes |-> bytes]

\* What a value that is no list prints as, and so reads as.
ReprAtom(v) ==
  CASE v.t = "str"   -> Literal(ReprString(v.text))
    [] v.t = "float" -> Integer(v.n)
    [] v.t = "ctx"   -> Symbol(Main(v.of))
    [] v.t = "builtin" -> Nil           \* <builtin:...>, a symbol with no value
    [] OTHER         -> v

ReprInner(v) ==
  IF v.t = "list" THEN List([k \in DOMAIN v.items |-> ReprAtom(v.items[k])])
  ELSE ReprAtom(v)

\* A list prints as itself: the form that would call it.
Repr(v) ==
  IF v.t = "list" THEN List([k \in DOMAIN v.items |-> ReprInner(v.items[k])])
  ELSE ReprAtom(v)

SetOf(h, s) == SetLine(s, Repr(Lookup(h, s)))

\* The source of a context that is left open for what follows.
SourceWithoutMain(h, s) ==
  LET members == SelectSeq(Members(h, s.term), LAMBDA m : m # Member(s.term, s.term))
  IN  IF s.ctx = "MAIN" /\ Lookup(h, s).t = "ctx"
        THEN <<ContextLine(s.term)>> \o [k \in DOMAIN members |-> SetOf(h, members[k])]
        ELSE <<SetOf(h, s)>>

\* A symbol bound to a context is dumped as the context of its own name: the
\* members but for the functor, after a return to MAIN.
SourceOf(h, s) ==
  LET members == SelectSeq(Members(h, s.term), LAMBDA m : m # Member(s.term, s.term))
  IN  IF s.ctx = "MAIN" /\ Lookup(h, s).t = "ctx"
        THEN <<ContextLine(s.term), ContextLine("MAIN")>>
             \o [k \in DOMAIN members |-> SetOf(h, members[k])]
        ELSE <<SetOf(h, s)>>

Source(h, syms) == FlattenSeq([k \in DOMAIN syms |-> SourceOf(h, syms[k])])

\* The symbols a whole-workspace save writes: those that begin with $ and the
\* builtins are left out.
Dumped(h) ==
  SelectSeq(NameOrder,
    LAMBDA s : /\ s.ctx = "MAIN" /\ s.term # "$self-tmp"
               /\ Lookup(h, s) \notin {Nil, Marker})

\* What a save of these symbols holds a value for.
SavedValues(h, syms) ==
  LET Holds(s) == \/ s \in Range(syms) /\ Lookup(h, s).t # "ctx"
                  \/ s \in Range(syms) /\ s.ctx = "MAIN"
                  \/ /\ Main(s.ctx) \in Range(syms) /\ Lookup(h, Main(s.ctx)).t = "ctx"
                     /\ s \in Range(Members(h, s.ctx)) /\ s # Member(s.ctx, s.ctx)
  IN  [s \in {n \in Range(NameOrder) : Holds(n)} |-> Lookup(h, s)]

(* Reading. *)

\* The names bound in MAIN, and the global ones, are not qualified.
PrimitiveNames(h) == {s.term : s \in {g \in DOMAIN h.val : g.ctx = "MAIN"}} \cup Globals

InternSymbol(s, ctx, known) ==
  IF ctx # "MAIN" /\ s.ctx = "MAIN" /\ s.term \notin known
    THEN Member(ctx, s.term) ELSE s

ReadAtom(form, ctx, known) ==
  CASE form.t = "sym"     -> Symbol(InternSymbol(form.sym, ctx, known))
    [] form.t = "literal" -> Str(ReadLiteral(form.bytes).text)
    [] form.t = "lambda"  -> [form EXCEPT !.param = InternSymbol(@, ctx, known)]
    [] OTHER              -> form

ReadInner(form, ctx, known) ==
  IF form.t = "list"
    THEN List([k \in DOMAIN form.items |-> ReadAtom(form.items[k], ctx, known)])
    ELSE ReadAtom(form, ctx, known)

ReadForm(form, ctx, known) ==
  IF form.t = "list"
    THEN List([k \in DOMAIN form.items |-> ReadInner(form.items[k], ctx, known)])
    ELSE ReadAtom(form, ctx, known)

\* The name of an entry ends at the first delimiter of its key.
Plain(s) == IsEntry(s) => Range(s.key[1]) \cap Delimiters = {}

NameUpTo(s) ==
  LET text == s.key[1]
      ends == {i \in DOMAIN text : text[i] \in Delimiters}
      end  == CHOOSE i \in ends : \A other \in ends : i <= other
  IN  Entry(s.ctx, SubSeq(text, 1, end - 1))

\* What is left of the name is read as the form, and names nothing; the value
\* comes too late.
ReadLine(line, ctx, known) ==
  CASE line.line = "context" -> line
    [] line.line = "set" /\ Plain(line.sym) ->
         SetLine(InternSymbol(line.sym, ctx, known), ReadForm(line.form, ctx, known))
    [] line.line = "set" /\ ~Plain(line.sym) -> SetLine(NameUpTo(line.sym), Nil)

\* All forms are read before one is evaluated; a context form switches the
\* context for the names in those that follow.
ReadAll(file, known) ==
  LET ctxBefore[k \in 1..Len(file) + 1] ==
        IF k = 1 THEN "MAIN"
        ELSE IF file[k - 1].line = "context" THEN file[k - 1].ctx
        ELSE ctxBefore[k - 1]
  IN  [k \in DOMAIN file |-> ReadLine(file[k], ctxBefore[k], known)]

\* Evaluating the forms stops at the first error; what was done is done.
ReadAndEval(file, h) ==
  LET forms == ReadAll(file, PrimitiveNames(h))
      EvalLine(l, at) == IF l.line = "context" THEN Returns(Context(l.ctx), SwitchTo(at, l.ctx))
                         ELSE SetForm(at, l.sym, l.form)
      done[k \in 0..Len(forms)] ==
        IF k = 0 THEN Returns(Nil, h)
        ELSE Then(done[k - 1], LAMBDA last, at : EvalLine(forms[k], at))
  IN  done[Len(forms)]
=============================================================================
