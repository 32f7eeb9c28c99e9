\* Define.h in seconds, two members, nobody is killed, and the processes start
\* up to ten seconds apart.
CONSTANTS
  COORDINATOR_ID = c
  Cohort = {m1, m2}
  Killable = {}
  ROUND_TIME = 10
  MIN_SLEEP_TIME = 6
  MAX_SLEEP_TIME = 7
  MIN_SLEEP_TIME_COORDINATOR = 4
  MAX_SLEEP_TIME_COORDINATOR = 5
  LATENESS = 0
  DELAY = 0
  SKEW = 10
  CLOCK_STEP = 0
SPECIFICATION TimedSpec
PROPERTIES EverybodyCommits
