------------------------------ MODULE MCLogger ------------------------------
(***************************************************************************)
(* Binary numbers of three digits, so that times and counts of one, two    *)
(* and three digits meet.                                                  *)
(***************************************************************************)
EXTENDS Logger, TLC

CONSTANTS main, crash, input   \* the threads of the coordinator

ThreadSymmetry == Permutations({main, crash, input})

=============================================================================
