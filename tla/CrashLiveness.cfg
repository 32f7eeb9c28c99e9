\* Ranks 0 and 1; the operator types anything, and the thread reads up to twice.
CONSTANTS
  COORDINATOR_ID = 0
  Cohort = {1}
  Killable = {0, 1}
  Line <- AnyLine
  WORD = word
  HUGE = huge
  EOF = eof
  NOTHING = nothing
  MAX_READS = 2
SPECIFICATION ControlSpec
PROPERTIES ProgramExits
