------------------------------ MODULE MCThreePC ------------------------------
(***************************************************************************)
(* ThreePC on small cohorts, the cohort members being interchangeable.     *)
(***************************************************************************)
EXTENDS ThreePC, TLC

CohortSymmetry == Permutations(Cohort)

=============================================================================
