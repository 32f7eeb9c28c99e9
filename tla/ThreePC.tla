------------------------------- MODULE ThreePC -------------------------------
(***************************************************************************)
(* The three-phase commit run of src/processes: one coordinator, any       *)
(* number of cohort members, and an operator who may kill any of them.     *)
(*                                                                         *)
(* Time is abstracted away: a receive with a timeout may time out at any   *)
(* moment, even when a packet is on its way or has just arrived.  Module   *)
(* TimedThreePC adds the sleeps and the round time back.  What holds here  *)
(* holds however slow the network and the scheduler are.                   *)
(*                                                                         *)
(* MPI delivers the packets between two ranks, for one tag, reliably and   *)
(* in order.  Everything a member is sent is a sendOthers of the           *)
(* coordinator, so the packets on their way to member m are the suffix of  *)
(* the log `sent' that m has not received; the packets on their way back   *)
(* are the suffix of the log replies[m] the coordinator has not taken.     *)
(***************************************************************************)
EXTENDS Naturals, Sequences, FiniteSets

CONSTANTS
  COORDINATOR_ID,   \* the rank that runs Coordinator
  Cohort,           \* the ranks that run CohortMember
  Killable          \* the processes the operator may name on standard input

Process == Cohort \cup {COORDINATOR_ID}

ASSUME CohortAssumption == /\ IsFiniteSet(Cohort)
                           /\ COORDINATOR_ID \notin Cohort
                           /\ Killable \subseteq Process

VARIABLES
  state,                \* state[p]: the State of AbstractProcess
  pc,                   \* pc[p]: where run() of p is
  crashSignalReceived,  \* crashSignalReceived[p]: the atomic flag of p
  sent,                 \* the types of the coordinator's broadcasts, in order
  received,             \* received[m]: how many of them m has received
  replies,              \* replies[m]: the packets m sent the coordinator
  taken,                \* taken[m]: how many of them it has received
  responders, packets   \* the two local sets of receiveFromAll

coordinatorVars == <<sent, taken, responders, packets>>
memberVars == <<received, replies>>
vars == <<state, pc, crashSignalReceived, coordinatorVars, memberVars>>

State == {"Q", "W", "A", "P", "C"}

\* Asleep before crashIfSignalled, inside the switch, or out of run(): the last
\* is when `terminate' holds.
Location == {"sleep", "switch", "exited"}

Broadcast == {"CAN_COMMIT", "PREPARE_COMMIT", "DO_COMMIT", "DO_ABORT"}

\* What a member sends: its vote, its acknowledgement, and the veto it sends
\* when no CAN_COMMIT came in time.
Agree == [messageType |-> "COMMIT_AGREE", message |-> "Y"]
Ack   == [messageType |-> "COMMIT_ACK", message |-> ""]
Veto  == [messageType |-> "DO_ABORT", message |-> ""]
Reply == {Agree, Ack, Veto}

\* Packet equality ignores lamportTime, so a packet is its source and content.
Packet(m, reply) == [source |-> m, messageType |-> reply.messageType,
                     message |-> reply.message]

Init ==
  /\ state = [p \in Process |-> "Q"]
  /\ pc = [p \in Process |-> "sleep"]
  /\ crashSignalReceived = [p \in Process |-> FALSE]
  /\ sent = <<>>
  /\ received = [m \in Cohort |-> 0]
  /\ replies = [m \in Cohort |-> <<>>]
  /\ taken = [m \in Cohort |-> 0]
  /\ responders = {}
  /\ packets = {}

-----------------------------------------------------------------------------
(***************************************************************************)
(* Every process: the operator's signal, the checkpoint, the end of run(). *)
(***************************************************************************)

\* The operator's signal reaches p: its crash thread, or the input thread of
\* the coordinator, raises the flag, which may be too late to matter.  Module
\* CrashControl details the way there.
Signal(p) ==
  /\ p \in Killable
  /\ ~crashSignalReceived[p]
  /\ crashSignalReceived' = [crashSignalReceived EXCEPT ![p] = TRUE]
  /\ UNCHANGED <<state, pc, coordinatorVars, memberVars>>

\* p wakes, runs crashIfSignalled and tests the loop condition: it enters the
\* switch, or leaves run() when it has been signalled.
Wake(p) ==
  /\ pc[p] = "sleep"
  /\ pc' = [pc EXCEPT ![p] = IF crashSignalReceived[p] THEN "exited" ELSE "switch"]
  /\ UNCHANGED <<state, crashSignalReceived, coordinatorVars, memberVars>>

\* The cases A and C of both switches: p logs its decision and returns.
Finish(p) ==
  /\ pc[p] = "switch"
  /\ state[p] \in {"A", "C"}
  /\ pc' = [pc EXCEPT ![p] = "exited"]
  /\ UNCHANGED <<state, crashSignalReceived, coordinatorVars, memberVars>>

-----------------------------------------------------------------------------
(***************************************************************************)
(* The coordinator.                                                        *)
(***************************************************************************)

\* Case Q: ask for the votes.
CoordinatorBegin ==
  /\ pc[COORDINATOR_ID] = "switch"
  /\ state[COORDINATOR_ID] = "Q"
  /\ sent' = Append(sent, "CAN_COMMIT")
  /\ state' = [state EXCEPT ![COORDINATOR_ID] = "W"]
  /\ pc' = [pc EXCEPT ![COORDINATOR_ID] = "sleep"]
  /\ UNCHANGED <<crashSignalReceived, taken, responders, packets, memberVars>>

\* The coordinator is inside receiveFromAll, in state W or P.
Gathering == pc[COORDINATOR_ID] = "switch" /\ state[COORDINATOR_ID] \in {"W", "P"}

\* Mutant: any_of for all_of.
CheckPacketsAny(gathered, expected) ==
  \E p \in gathered : p.messageType = expected.messageType /\ p.message = expected.message

\* checkPackets: every packet gathered is the one the round expects.
CheckPackets(gathered, expected) ==
  \A p \in gathered : /\ p.messageType = expected.messageType
                      /\ p.message = expected.message

ExpectedReply(s) == IF s = "W" THEN Agree ELSE Ack

\* What receiveFromAll's caller does with the outcome of round s.
RoundMessage(s, ok) ==
  IF ok THEN IF s = "W" THEN "PREPARE_COMMIT" ELSE "DO_COMMIT" ELSE "DO_ABORT"

RoundState(s, ok) == IF ok THEN IF s = "W" THEN "P" ELSE "C" ELSE "A"

\* Mutant: the two sets outlive the call, as members of the class would.
CloseRoundKeepsSets(ok) ==
  /\ sent' = Append(sent, RoundMessage(state[COORDINATOR_ID], ok))
  /\ state' = [state EXCEPT ![COORDINATOR_ID] = RoundState(@, ok)]
  /\ pc' = [pc EXCEPT ![COORDINATOR_ID] = "sleep"]
  /\ UNCHANGED <<responders, packets>>

\* The round ends: broadcast its outcome, move on, go to sleep.
CloseRound(ok) ==
  /\ sent' = Append(sent, RoundMessage(state[COORDINATOR_ID], ok))
  /\ state' = [state EXCEPT ![COORDINATOR_ID] = RoundState(@, ok)]
  /\ pc' = [pc EXCEPT ![COORDINATOR_ID] = "sleep"]
  /\ responders' = {}
  /\ packets' = {}

ReplyPending(m) == taken[m] < Len(replies[m])

\* Mutants: one reply too few is enough, or the coordinator waits for its own.
AllRespondedButOne(R) == Cardinality(R) >= Cardinality(Process) - 2
AllRespondedAndSelf(R) == Cardinality(R) = Cardinality(Process)

\* responders.size() == getNumberOfProcesses() - 1
AllResponded(R) == Cardinality(R) = Cardinality(Process) - 1

\* One turn of receiveFromAll's loop: a packet from m.  The set is returned
\* and judged once every other process is among the responders.
CoordinatorReceive(m) ==
  LET packet == Packet(m, replies[m][taken[m] + 1])
      gathered == packets \cup {packet}
      heard == responders \cup {m}
  IN
  /\ Gathering
  /\ ReplyPending(m)
  /\ taken' = [taken EXCEPT ![m] = @ + 1]
  /\ \/ /\ ~AllResponded(heard)
        /\ responders' = heard
        /\ packets' = gathered
        /\ UNCHANGED <<sent, state, pc>>
     \/ /\ AllResponded(heard)
        /\ CloseRound(CheckPackets(gathered, ExpectedReply(state[COORDINATOR_ID])))
  /\ UNCHANGED <<crashSignalReceived, memberVars>>

\* receiveFromAll returns nullopt; the packets it had gathered are lost.
CoordinatorTimeout ==
  /\ Gathering
  /\ CloseRound(FALSE)
  /\ UNCHANGED <<crashSignalReceived, taken, memberVars>>

-----------------------------------------------------------------------------
(***************************************************************************)
(* A cohort member.                                                        *)
(***************************************************************************)

\* m is inside receive(ROUND_TIME, defaultTag), in state Q, W or P.
Listening(m) == pc[m] = "switch" /\ state[m] \in {"Q", "W", "P"}

Pending(m) == received[m] < Len(sent)

\* Mutant: the member in P has no case for DO_ABORT.
MemberNextDeafInP(s, t) ==
  CASE s = "Q" /\ t = "CAN_COMMIT"     -> "W"
    [] s = "W" /\ t = "PREPARE_COMMIT" -> "P"
    [] s = "P" /\ t = "DO_COMMIT"      -> "C"
    [] s = "W" /\ t = "DO_ABORT"       -> "A"
    [] OTHER                           -> s

\* The state a member in state s goes to when it receives a packet of type t.
\* Any other packet is logged as unexpected, and the member stays where it is.
MemberNext(s, t) ==
  CASE s = "Q" /\ t = "CAN_COMMIT"           -> "W"
    [] s = "W" /\ t = "PREPARE_COMMIT"       -> "P"
    [] s = "P" /\ t = "DO_COMMIT"            -> "C"
    [] s \in {"W", "P"} /\ t = "DO_ABORT"    -> "A"
    [] OTHER                                 -> s

\* Mutant: the vote says nothing.
MemberReplyEmptyVote(s, t) ==
  CASE s = "Q" /\ t = "CAN_COMMIT"     -> <<[Agree EXCEPT !.message = ""]>>
    [] s = "W" /\ t = "PREPARE_COMMIT" -> <<Ack>>
    [] OTHER                           -> <<>>

\* Its answer.
MemberReply(s, t) ==
  CASE s = "Q" /\ t = "CAN_COMMIT"     -> <<Agree>>
    [] s = "W" /\ t = "PREPARE_COMMIT" -> <<Ack>>
    [] OTHER                           -> <<>>

\* Mutants: a member that has voted commits; it goes on waiting.
TimeoutNextEager(s) == IF s \in {"W", "P"} THEN "C" ELSE "A"
TimeoutNextPatient(s) == IF s = "P" THEN "C" ELSE IF s = "W" THEN "W" ELSE "A"

\* The same for a receive that times out.
TimeoutNext(s) == IF s = "P" THEN "C" ELSE "A"

\* Mutant: a member vetoes after its vote, too.
TimeoutReplyTwice(s) == IF s \in {"Q", "W"} THEN <<Veto>> ELSE <<>>

TimeoutReply(s) == IF s = "Q" THEN <<Veto>> ELSE <<>>

\* The receive returns the next packet of the coordinator.
MemberReceive(m) ==
  LET type == sent[received[m] + 1] IN
  /\ Listening(m)
  /\ Pending(m)
  /\ received' = [received EXCEPT ![m] = @ + 1]
  /\ replies' = [replies EXCEPT ![m] = @ \o MemberReply(state[m], type)]
  /\ state' = [state EXCEPT ![m] = MemberNext(@, type)]
  /\ pc' = [pc EXCEPT ![m] = "sleep"]
  /\ UNCHANGED <<crashSignalReceived, coordinatorVars>>

\* The receive returns nullopt.
MemberTimeout(m) ==
  /\ Listening(m)
  /\ replies' = [replies EXCEPT ![m] = @ \o TimeoutReply(state[m])]
  /\ state' = [state EXCEPT ![m] = TimeoutNext(@)]
  /\ pc' = [pc EXCEPT ![m] = "sleep"]
  /\ UNCHANGED <<crashSignalReceived, received, coordinatorVars>>

-----------------------------------------------------------------------------
CoordinatorStep ==
  \/ CoordinatorBegin
  \/ CoordinatorTimeout
  \/ \E m \in Cohort : CoordinatorReceive(m)

MemberStep(m) == MemberReceive(m) \/ MemberTimeout(m)

\* What the main thread of p does.
Step(p) ==
  \/ Wake(p)
  \/ Finish(p)
  \/ p = COORDINATOR_ID /\ CoordinatorStep
  \/ p \in Cohort /\ MemberStep(p)

\* Every main thread has left run(): nothing happens any more.
Terminated == (\A p \in Process : pc[p] = "exited") /\ UNCHANGED vars

Next ==
  \/ \E p \in Process : Step(p) \/ Signal(p)
  \/ Terminated

\* No receive blocks for ever and no sleep is endless, so a main thread that
\* has not left run() takes another step; the operator need not signal anybody.
Fairness == \A p \in Process : WF_vars(Step(p))

SafetySpec == Init /\ [][Next]_vars

Spec == Init /\ [][Next]_vars /\ Fairness

-----------------------------------------------------------------------------
(***************************************************************************)
(* Properties.                                                             *)
(***************************************************************************)

\* Every variable has its type.  In particular nobody receives more packets
\* than it was sent, and a member sends no packet but its vote, its veto and
\* its acknowledgement.
TypeOK ==
  /\ state \in [Process -> State]
  /\ pc \in [Process -> Location]
  /\ crashSignalReceived \in [Process -> BOOLEAN]
  /\ sent \in Seq(Broadcast)
  /\ received \in [Cohort -> Nat]
  /\ replies \in [Cohort -> Seq(Reply)]
  /\ taken \in [Cohort -> Nat]
  /\ responders \subseteq Cohort
  /\ packets \subseteq {Packet(m, r) : m \in Cohort, r \in Reply}
  /\ \A m \in Cohort : received[m] <= Len(sent) /\ taken[m] <= Len(replies[m])

\* The branches for an unexpected packet (logUnexpectedPacket in the cohort,
\* "Some cohort members sent an unexpected message" in state P of the
\* coordinator) are never taken: whatever times out or is killed, the packet a
\* member receives is one its state handles, and no vote, veto or earlier
\* reply is left over to be counted as an acknowledgement.
NoUnexpectedPacket ==
  /\ \A m \in Cohort :
       Listening(m) /\ Pending(m)
         => MemberNext(state[m], sent[received[m] + 1]) # state[m]
  /\ state[COORDINATOR_ID] = "P"
       => /\ CheckPackets(packets, Ack)
          /\ \A m \in Cohort : ReplyPending(m) => replies[m][taken[m] + 1] = Ack

\* Once anybody is prepared or has committed, every member has voted for it:
\* no member can still veto, and none ever did.
PreparedNeedsEveryVote ==
  (\E p \in Process : state[p] \in {"P", "C"})
     => \A m \in Cohort : replies[m] # <<>> /\ replies[m][1] = Agree

\* When the coordinator commits, every member is prepared or has committed and
\* has acknowledged it: none aborted, and none ever will, even one whose
\* receive times out or that is killed before DO_COMMIT reaches it.
CoordinatorCommitIsSafe ==
  state[COORDINATOR_ID] = "C"
     => \A m \in Cohort : /\ state[m] \in {"P", "C"}
                          /\ replies[m] = <<Agree, Ack>>

\* If the coordinator aborts before anybody was prepared, nobody ever commits:
\* from then on the second broadcast is a DO_ABORT and no member leaves for P.
EarlyAbortIsSafe ==
  Len(sent) >= 2 /\ sent[2] = "DO_ABORT"
     => \A p \in Process : state[p] \notin {"P", "C"}

\* The protocol itself never has more than two packets of the coordinator on
\* their way to a member, killed or not, and one of a member to it: an MPI_Send
\* that found no room for its packet would wait with the communicator's mutex
\* held, for ever if the recipient has left run().  The CRASH packets, which go
\* the same way, are not counted here: CrashControl's SendsAreBuffered does.
ProtocolIsBuffered ==
  \A m \in Cohort : /\ Len(sent) - received[m] <= 2
                    /\ Len(replies[m]) - taken[m] <= 1

\* The protocol does not block: every process leaves run(), and the ones the
\* operator did not signal have decided by then.
NonBlocking ==
  \A p \in Process :
    <>(pc[p] = "exited" /\ (crashSignalReceived[p] \/ state[p] \in {"A", "C"}))

-----------------------------------------------------------------------------
(***************************************************************************)
(* The inductive invariant behind them.                                    *)
(***************************************************************************)

\* The coordinator's state says what it has broadcast, up to the round in
\* which it gave up.
BroadcastHistory ==
  LET s == state[COORDINATOR_ID] IN
  /\ s = "Q" => sent = <<>>
  /\ s = "W" => sent = <<"CAN_COMMIT">>
  /\ s = "P" => sent = <<"CAN_COMMIT", "PREPARE_COMMIT">>
  /\ s = "C" => sent = <<"CAN_COMMIT", "PREPARE_COMMIT", "DO_COMMIT">>
  /\ s = "A" => \/ sent = <<"CAN_COMMIT", "DO_ABORT">>
                \/ sent = <<"CAN_COMMIT", "PREPARE_COMMIT", "DO_ABORT">>

PrepareSent == Len(sent) >= 2 /\ sent[2] = "PREPARE_COMMIT"

\* A member's state says what it has received and replied.  The four ways into
\* state A: no CAN_COMMIT came, nothing came after it, the coordinator aborted
\* the vote, it aborted for want of an acknowledgement.
MemberHistory(m) ==
  /\ state[m] = "Q" => received[m] = 0 /\ replies[m] = <<>>
  /\ state[m] = "W" => received[m] = 1 /\ replies[m] = <<Agree>>
  /\ state[m] = "P" => received[m] = 2 /\ PrepareSent /\ replies[m] = <<Agree, Ack>>
  /\ state[m] = "C" => received[m] \in {2, 3} /\ PrepareSent /\ replies[m] = <<Agree, Ack>>
  /\ state[m] = "A" =>
       \/ received[m] = 0 /\ replies[m] = <<Veto>>
       \/ received[m] = 1 /\ replies[m] = <<Agree>>
       \/ received[m] = 2 /\ replies[m] = <<Agree>> /\ ~PrepareSent
       \/ received[m] = 3 /\ replies[m] = <<Agree, Ack>> /\ sent[3] = "DO_ABORT"

\* The replies of the rounds that are over.
RoundsDone == IF state[COORDINATOR_ID] = "P" THEN 1 ELSE 0

\* In each round the coordinator takes one reply from each member, and gathers
\* exactly those.
GatherHistory ==
  /\ ~Gathering => responders = {}
  /\ packets = {Packet(m, replies[m][taken[m]]) : m \in responders}
  /\ state[COORDINATOR_ID] \in {"Q", "W", "P"}
       => \A m \in Cohort : taken[m] = IF m \in responders THEN RoundsDone + 1
                                                           ELSE RoundsDone

\* The second broadcast is PREPARE_COMMIT only after every vote has been taken,
\* the third DO_COMMIT only after every acknowledgement.
RoundsUnanimous ==
  /\ PrepareSent => \A m \in Cohort : replies[m] # <<>> /\ replies[m][1] = Agree
  /\ PrepareSent => \A m \in Cohort : taken[m] >= 1
  /\ state[COORDINATOR_ID] = "C" => \A m \in Cohort : Len(replies[m]) = 2

\* The strengthening of TypeOK that every step preserves and that implies the
\* safety properties above: it ties what each process did to its state.
IndInv ==
  /\ TypeOK
  /\ BroadcastHistory
  /\ \A m \in Cohort : MemberHistory(m)
  /\ GatherHistory
  /\ RoundsUnanimous

=============================================================================
