--------------------------- MODULE MCCrashControl ---------------------------
(***************************************************************************)
(* CrashControl with ranks: 0 is the coordinator.                          *)
(***************************************************************************)
EXTENDS CrashControl

\* The numbers of the coordinator and of one member.
Ranks == {0, 1}

\* Everything: those, the numbers of nobody, and what is no number.
AnyLine == {-1, 0, 1, numberOfProcesses, WORD, HUGE, EOF}

\* The number of a member, and a word.
NumberOrWord == {1, WORD}

=============================================================================
