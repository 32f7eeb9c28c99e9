--------------------------- MODULE MCTimedThreePC ---------------------------
(***************************************************************************)
(* TimedThreePC on small cohorts, the members being interchangeable.       *)
(***************************************************************************)
EXTENDS TimedThreePC, TLC

CohortSymmetry == Permutations(Cohort)

=============================================================================
