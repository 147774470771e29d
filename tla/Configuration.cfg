\* Up to three arguments, two of them files of up to two lines.
SPECIFICATION Spec
CONSTANTS
  Number = {"1", "2"}
  Default = Default
  Missing = Missing
  Line <- MCLine
  Argument <- MCArgument
  MaxArguments = 3
  File <- MCFile
INVARIANTS
  CommandLineWins
\* The program goes on, or ends.
CHECK_DEADLOCK FALSE
