\* An inlet that aborts the children still running once a result is in.
CONSTANTS
  N = 2
  NumFds = 3
  MaxNest = 1
  Large = {}
  Forking = {}
  Fragile = {}
  Waitable = {}
  InletOps = {"abort"}
  Unbound = unbound
  Nil = nil
  Partial = partial
SPECIFICATION Safe
PROPERTY NothingAfterAbort
