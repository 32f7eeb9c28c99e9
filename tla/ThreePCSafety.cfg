\* Three members, any of the four processes may be killed.
CONSTANTS
  COORDINATOR_ID = c
  Cohort = {m1, m2, m3}
  Killable = {c, m1, m2, m3}
SPECIFICATION SafetySpec
SYMMETRY CohortSymmetry
INVARIANTS TypeOK NoUnexpectedPacket PreparedNeedsEveryVote CoordinatorCommitIsSafe EarlyAbortIsSafe ProtocolIsBuffered IndInv
