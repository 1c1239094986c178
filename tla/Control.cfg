\* Every form, four deep with the host's own, three steps between two resets.
CONSTANTS
  Limit = 3
  MaxDepth = 4
  Nested = 1
  Forms = {"body", "catch", "catchInto", "evalString", "evalStringElse", "place", "handler", "callback"}
SPECIFICATION Spec
INVARIANTS TypeOK RunBudget
PROPERTIES ExitUnwinds RunEnds
