\* Ranks 0 and 1; the operator types 1 or a word.
CONSTANTS
  COORDINATOR_ID = 0
  Cohort = {1}
  Killable = {0, 1}
  Line <- NumberOrWord
  WORD = word
  HUGE = huge
  EOF = eof
  NOTHING = nothing
  MAX_READS = 2
SPECIFICATION ControlSafetySpec
INVARIANTS OnlyTheNamedCrash
