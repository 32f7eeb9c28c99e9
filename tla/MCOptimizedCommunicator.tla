---------------------- MODULE MCOptimizedCommunicator -----------------------
(***************************************************************************)
(* The coordinator's main and input threads, and a member's main and crash *)
(* threads.  The coordinator's crash thread never gets a packet, and is    *)
(* left out.                                                               *)
(***************************************************************************)
EXTENDS OptimizedCommunicator, TLC

CONSTANTS c, m,                                \* the processes
          cMain, cInput, mMain, mCrash,        \* their threads
          default, crash                       \* the tags

Processes == {c, m}
Threads == {cMain, cInput, mMain, mCrash}
Tags == {default, crash}
Homes == cMain :> c @@ cInput :> c @@ mMain :> m @@ mCrash :> m
SendTags == cMain :> default @@ cInput :> crash @@ mMain :> default @@ mCrash :> NoTag
RecvTags == cMain :> default @@ cInput :> NoTag @@ mMain :> default @@ mCrash :> crash

\* The input thread sends twice, the main threads once.
InputTwice == cMain :> 1 @@ cInput :> 2 @@ mMain :> 1 @@ mCrash :> 0

=============================================================================
