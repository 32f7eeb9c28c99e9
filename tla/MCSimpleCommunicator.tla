------------------------ MODULE MCSimpleCommunicator ------------------------
(***************************************************************************)
(* Process a has two threads that send, with a tag each; b has one that    *)
(* receives with any tag and a timeout, and sends; c one that receives     *)
(* with the default tag and without a timeout.  So what b makes of a       *)
(* message it mistook reaches c.                                           *)
(***************************************************************************)
EXTENDS SimpleCommunicator, TLC

CONSTANTS a, b, c, a1, a2, b1, c1, default, crash

Homes == a1 :> a @@ a2 :> a @@ b1 :> b @@ c1 :> c
SendTags == a1 :> default @@ a2 :> crash @@ b1 :> default @@ c1 :> NoTag
RecvTags == a1 :> NoTag @@ a2 :> NoTag @@ b1 :> AnyTag @@ c1 :> default
OnceEach == a1 :> 1 @@ a2 :> 1 @@ b1 :> 1 @@ c1 :> 0

AllFaults == {"late body", "late cancel"}

=============================================================================
