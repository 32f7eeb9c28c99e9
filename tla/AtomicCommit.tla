---------------------------- MODULE AtomicCommit ----------------------------
(***************************************************************************)
(* What a commit protocol promises: every member votes at most once, a     *)
(* process decides at most once, it commits only when every member voted   *)
(* for it, and no two processes decide differently.                        *)
(***************************************************************************)
CONSTANTS
  Process,   \* everybody who decides
  Cohort     \* those among them who vote

VARIABLES
  vote,      \* vote[m]: what member m has voted
  outcome    \* outcome[p]: what process p has decided

TypeOK ==
  /\ vote \in [Cohort -> {"none", "yes", "no"}]
  /\ outcome \in [Process -> {"undecided", "committed", "aborted"}]

Init ==
  /\ vote = [m \in Cohort |-> "none"]
  /\ outcome = [p \in Process |-> "undecided"]

NobodyDecided(d) == \A p \in Process : outcome[p] # d

\* Member m votes for the transaction.
Agree(m) ==
  /\ vote[m] = "none"
  /\ vote' = [vote EXCEPT ![m] = "yes"]
  /\ UNCHANGED outcome

\* Member m votes against it, which is its decision, too.
Veto(m) ==
  /\ vote[m] = "none"
  /\ outcome[m] = "undecided"
  /\ NobodyDecided("committed")
  /\ vote' = [vote EXCEPT ![m] = "no"]
  /\ outcome' = [outcome EXCEPT ![m] = "aborted"]

Commit(p) ==
  /\ outcome[p] = "undecided"
  /\ \A m \in Cohort : vote[m] = "yes"
  /\ NobodyDecided("aborted")
  /\ outcome' = [outcome EXCEPT ![p] = "committed"]
  /\ UNCHANGED vote

Abort(p) ==
  /\ outcome[p] = "undecided"
  /\ NobodyDecided("committed")
  /\ outcome' = [outcome EXCEPT ![p] = "aborted"]
  /\ UNCHANGED vote

Next ==
  \/ \E m \in Cohort : Agree(m) \/ Veto(m)
  \/ \E p \in Process : Commit(p) \/ Abort(p)

Spec == Init /\ [][Next]_<<vote, outcome>>

=============================================================================
