\* A script that calls eval-string.
CONSTANTS
  Limit = 3
  MaxDepth = 3
  Nested = 1
  Forms = {"body", "evalString"}
SPECIFICATION Spec
INVARIANT LimitBoundsRun
