\* A script that exits inside a catch with a target.
CONSTANTS
  Limit = 6
  MaxDepth = 3
  Nested = 0
  Forms = {"body", "catch", "catchInto"}
SPECIFICATION Spec
INVARIANT ExitNotSuppressed
