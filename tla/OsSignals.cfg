\* Two signals, each caught three times, and a dispatch inside a handler of another;
\* SIGKILL, which the kernel lets nobody catch, and a number past the bits of PENDING.
\* The run stops where a signal ended the process, so deadlock is not an error.
CONSTANTS
  Sigs = {9, 10, 12, 64}
  Refused = {9}
  MaxDeliveries = 3
  MaxNest = 3
SPECIFICATION Spec
INVARIANTS TypeOK NoSignalLost NoSpuriousCall DispositionAgrees
PROPERTY SignalHandled
CHECK_DEADLOCK FALSE
