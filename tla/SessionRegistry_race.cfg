\* Two requests handled at the same time.
SPECIFICATION Spec
CONSTANTS
  Connection = {h1, h2}
  File = {f1, f2}
  UnknownFile = UnknownFile
  NoEntry = NoEntry
  NotStarted = NotStarted
SYMMETRY Symmetry
INVARIANTS
  SessionServesItsFile
\* Every connection asks once.
CHECK_DEADLOCK FALSE
