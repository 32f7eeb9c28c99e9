\* Two members, any of the three processes may be killed.
CONSTANTS
  COORDINATOR_ID = c
  Cohort = {m1, m2}
  Killable = {c, m1, m2}
SPECIFICATION Spec
PROPERTIES NonBlocking
