\* Three requests handled at the same time.
SPECIFICATION Spec
CONSTANTS
  Connection = {h1, h2, h3}
  File = {f1, f2}
  UnknownFile = UnknownFile
  NoEntry = NoEntry
  NotStarted = NotStarted
SYMMETRY Symmetry
INVARIANTS
  TypeOK
  SerialRequestsAreServed
  LoneRequestIsServed
\* Every connection asks once.
CHECK_DEADLOCK FALSE
