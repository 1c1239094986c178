\* Three children, one of each difficult kind, and an inlet that spawns and reaps.
CONSTANTS
  N = 3
  NumFds = 4
  MaxNest = 1
  Large = {2}
  Forking = {1}
  Fragile = {2, 3}
  Waitable = {1, 3}
  InletOps = {"spawn", "wait-pid"}
  Unbound = unbound
  Nil = nil
  Partial = partial
SPECIFICATION Spec
INVARIANTS TypeOK RegistryOwnsFds NoZombieForgotten OwnResult
PROPERTIES KeepsPromise PatientSyncReturns WaitPidReturns
