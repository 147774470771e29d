\* Counters of up to 4 in a word of 3 values: they wrap; a window of two.
SPECIFICATION FairSpec
CONSTANTS
  Word = 3
  Window = 2
  Delta = {1}
  MaxBytes = 4
  MaxTime = 1
INVARIANTS
  TypeOK
  AggregateIsExact
  WindowWithinTotals
PROPERTY JoinReturns
\* The object is gone.
CHECK_DEADLOCK FALSE
