---------------------------- MODULE MCWorkspace -----------------------------
EXTENDS Workspace, TLC

K       == <<107>>
Spaced  == <<107, 32, 107>>
\* A quote, a control character, a digit, half a UTF-8 character.
Awkward == <<34, 7, 49, 195>>

x == Main("x")
p == Main("p")

MCNameOrder == <<
  SelfTmp, Main("Class"), Member("Class", "Class"),
  Main("D"), Member("D", "Class"), Member("D", "D"), Member("D", "P"),
  Entry("D", <<49>>), Entry("D", K), Entry("D", Spaced), Member("D", "m"), Member("D", "p"),
  Member("D", "x"),
  Main("P"), Member("P", "Class"), Member("P", "D"), Member("P", "P"),
  Entry("P", <<49>>), Entry("P", K), Entry("P", Spaced), Member("P", "m"), Member("P", "p"),
  Member("P", "x"), p, Main("quote"), x>>

Call(f, args) == List(<<Symbol(Main(f))>> \o args)

One == Integer(1)
Two == Integer(2)
X   == Symbol(x)
Unbound == Symbol(p)

\* Objects, one within another.
Nested == Quoted(Call("P", <<Integer(1), Call("P", <<Integer(2)>>)>>))

MCForms == {
  Integer(1), Float(2), Str(Awkward), Symbol(Main("D")),
  Quoted(List(<<List(<<One, Integer(0)>>)>>)), Nested, Call("P", <<Integer(1)>>)}

MCApplications == {
  Call("D", <<Str(K), Integer(2)>>), Call("D", <<Str(Spaced), Integer(2)>>),
  Call("D", <<Quoted(List(<<List(<<Str(K), Integer(3)>>)>>))>>),
  Call("D", <<Symbol(x)>>),
  List(<<Symbol(x), Integer(-1)>>), List(<<Integer(1), Symbol(x)>>),
  List(<<Integer(0), Integer(1), Symbol(x)>>) }

MCArguments == {Nil, Integer(3)}

MCTargets == {x, Main("P"), Member("D", "x")}

\* Places; what is none, some of it evaluated twice; and both, by a condition.
MCReceivers == {
  X, List(<<X, Two>>), Symbol(Main("self")), Call("self", <<Two>>),
  Call("P", <<One>>), Nested,
  Call("and", <<Call("D", <<Str(K), Two>>), Call("P", <<One>>)>>),
  Call("if", <<Call("self", <<Two>>), Call("last", <<Call("self", <<>>)>>), X>>) }

\* Over x, a list of one pair, an object, or no list.
MCPlaceExprs == {
  List(<<X, Two, One>>), Call("self", <<One>>),
  Call("nth", <<Integer(-1), Call("if", <<Unbound, Call("first", <<X>>), X>>)>>),
  Call("first", <<Call("if-not", <<Unbound, Call("last", <<X>>), X>>)>>),
  Call("when", <<X, Unbound, List(<<X, Integer(0)>>)>>),
  Call("unless", <<Unbound, Call("or", <<Unbound, Call("last", <<X>>), X>>)>>),
  Call("begin", <<Call("setf", <<Call("last", <<X>>), Two>>), X>>),
  Call("and", <<X, Call("setf", <<X, Quoted(List(<<>>))>>)>>),
  Call("cond", <<List(<<Unbound, Unbound>>), List(<<X, Call("and", <<One, Call("last", <<X>>)>>)>>)>>),
  Call("case", <<Call("last", <<X>>),
    List(<<One, X>>), List(<<List(<<One, Integer(0)>>), Unbound, Call("first", <<X>>)>>),
    List(<<True, Call("setf", <<X, One>>)>>)>>),
  Call("first", <<Call("assoc", <<One, X>>)>>),
  Call("lookup", <<One, X>>), Call("lookup", <<One, Call("if", <<X, X, Unbound>>), Integer(0)>>) }

MCLambdas == {
  [name |-> Member("P", "m"), lambda |-> Lambda("", p)],
  [name |-> Member("P", "m"), lambda |-> Lambda("", x)],
  [name |-> Member("P", "P"), lambda |-> Lambda("P", p)] }

MCSaves == {<<Main("D"), x>>, <<Member("P", "P")>>, <<Main("P"), x>>}

MCScripts == {
  <<ContextLine("D"), SetLine(x, Integer(1)), ContextLine("MAIN"), SetLine(x, Symbol(p))>> }

MCGlobals    == {"p"}
MCDelimiters == {32}

\* One program per record: how often it uses each operation at most.
MCMenus == {
  "set" :> 2 @@ "delete" :> 1 @@ "save-all" :> 1 @@ "load" :> 1 @@ "restart" :> 1,
  "new" :> 1 @@ "set" :> 1 @@ "save" :> 1 @@ "delete" :> 1 @@ "load" :> 1 @@ "restart" :> 1,
  "new" :> 1 @@ "eval" :> 3 @@ "save-all" :> 1 @@ "restart" :> 1 @@ "load" :> 1,
  "member" :> 1 @@ "constant" :> 1 @@ "set" :> 1 @@ "save-all" :> 1 @@ "load" :> 1,
  "script" :> 1 @@ "define" :> 1 @@ "set" :> 1 @@ "load" :> 1 @@ "save-all" :> 1,
  "context" :> 1 @@ "eval" :> 1 @@ "new" :> 2 @@ "delete" :> 1,
  "define" :> 1 @@ "set" :> 1 @@ "dispatch" :> 2 @@ "setf-self" :> 2 @@ "throw" :> 1,
  "define" :> 1 @@ "set" :> 1 @@ "constant" :> 1 @@ "dispatch" :> 1 @@ "setf-self" :> 1,
  "define" :> 1 @@ "set" :> 1 @@ "delete" :> 1 @@ "dispatch" :> 1 @@ "setf-self" :> 1
}
=============================================================================
