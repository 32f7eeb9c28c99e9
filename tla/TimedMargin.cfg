\* A slow and unsteady environment with the least margin that is enough:
\* MAX_SLEEP_TIME_COORDINATOR + 2 * CLOCK_STEP + DELAY = MIN_SLEEP_TIME - 1.
\* A sleep that is late is one of MAX_SLEEP_TIME, a receive that is late one
\* with a CLOCK_STEP.  The skew lets one member vote long after the other.
CONSTANTS
  COORDINATOR_ID = c
  Cohort = {m1, m2}
  Killable = {c, m1, m2}
  ROUND_TIME = 8
  MIN_SLEEP_TIME = 6
  MAX_SLEEP_TIME = 7
  MIN_SLEEP_TIME_COORDINATOR = 2
  MAX_SLEEP_TIME_COORDINATOR = 2
  LATENESS = 0
  DELAY = 1
  SKEW = 4
  CLOCK_STEP = 1
SPECIFICATION TimedSafetySpec
SYMMETRY CohortSymmetry
INVARIANTS TimedTypeOK Agreement TimedIndInv AcksInTime
PROPERTIES AccurateTimeouts ImplementsAtomicCommit
