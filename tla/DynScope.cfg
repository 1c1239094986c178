\* Two symbols and two values; forms and bindings up to five together: three
\* forms around two bindings, or two forms around three, so that one symbol is
\* bound twice in one scope and again inside, with or without a catch between.
CONSTANTS
  Symbols = {x, y}
  Values = {nil, one}
  Nil = nil
  Unbound = unbound
  MaxDepth = 5
SPECIFICATION Spec
INVARIANTS TypeOK ScopesNest ArgsMatchCalls
PROPERTY ImplementsEnvStack
SYMMETRY MCSymmetry
