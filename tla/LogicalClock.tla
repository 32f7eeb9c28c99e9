---------------------------- MODULE LogicalClock ----------------------------
(***************************************************************************)
(* What a communicator promises of its Lamport clocks: sending and         *)
(* receiving are atomic, each advances the clock of its process, and the   *)
(* receipt of a packet is later than its sending.  Only a faulty process   *)
(* loses packets, and only those sent to itself.                           *)
(*                                                                         *)
(* A clock has a width, and may wrap around: of that process's clock and   *)
(* packets nothing is promised from then on.                               *)
(***************************************************************************)
EXTENDS Naturals

CONSTANT Process

VARIABLES
  clock,      \* clock[p]
  inTransit,  \* the packets sent and neither received nor lost
  faulty,     \* the processes that may lose packets
  wrapped     \* the processes whose clock has wrapped around

Init ==
  /\ clock = [p \in Process |-> 0]
  /\ inTransit = {}
  /\ faulty = {}
  /\ wrapped = {}

\* p sends a packet to each of the recipients R.
Send(p, R) ==
  /\ p \notin wrapped
  /\ clock' = [clock EXCEPT ![p] = @ + 1]
  /\ inTransit' = inTransit \cup {[from |-> p, to |-> q, ts |-> clock[p] + 1] : q \in R}
  /\ UNCHANGED <<faulty, wrapped>>

\* A packet reaches its recipient.
Receive(packet) ==
  /\ packet \in inTransit /\ packet.to \notin wrapped
  /\ \E now \in {clock[packet.to], packet.ts} :
       /\ now >= clock[packet.to] /\ now >= packet.ts
       /\ clock' = [clock EXCEPT ![packet.to] = now + 1]
  /\ inTransit' = inTransit \ {packet}
  /\ UNCHANGED <<faulty, wrapped>>

\* p is faulty, or turns so, and loses packets sent to it.
Lose(p) ==
  /\ faulty' = faulty \cup {p}
  /\ \E lost \in SUBSET {packet \in inTransit : packet.to = p} : inTransit' = inTransit \ lost
  /\ UNCHANGED <<clock, wrapped>>

\* The clock of p moves forward, by a time that a faulty receive took for a
\* timestamp or a process sent whose clock has wrapped around.
Skip(p) ==
  /\ p \notin wrapped /\ (p \in faulty \/ wrapped # {})
  /\ clock' = [clock EXCEPT ![p] = clock'[p]] /\ clock'[p] > clock[p]
  /\ UNCHANGED <<inTransit, faulty, wrapped>>

\* The clock of p wraps around, or has: it shows anything.  The packets p has
\* sent count no longer, and one sent to it may be received.
Wrap(p) ==
  /\ wrapped' = wrapped \cup {p}
  /\ clock' = [clock EXCEPT ![p] = clock'[p]]
  /\ \E received \in SUBSET {packet \in inTransit : packet.to = p} :
       inTransit' = {packet \in inTransit \ received : packet.from # p}
  /\ UNCHANGED faulty

Next ==
  \/ \E p \in Process : \/ Lose(p) \/ Skip(p) \/ Wrap(p)
                        \/ \E R \in SUBSET (Process \ {p}) : Send(p, R)
  \/ \E packet \in inTransit : Receive(packet)

Spec == Init /\ [][Next]_<<clock, inTransit, faulty, wrapped>>

=============================================================================
