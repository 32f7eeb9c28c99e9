\* Ranks 0..2; the operator types 0 or 1, up to twice.
CONSTANTS
  COORDINATOR_ID = 0
  Cohort = {1, 2}
  Killable = {0, 1}
  Line <- Ranks
  WORD = word
  HUGE = huge
  EOF = eof
  NOTHING = nothing
  MAX_READS = 2
SPECIFICATION ControlSafetySpec
INVARIANTS ControlTypeOK NoKillIsLost SendsAreBuffered
PROPERTIES ImplementsThreePC
