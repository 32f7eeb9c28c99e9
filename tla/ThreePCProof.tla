---------------------------- MODULE ThreePCProof ----------------------------
(***************************************************************************)
(* The safety properties of ThreePC hold for every finite cohort and every *)
(* set of processes the operator may kill.  The argument: IndInv holds     *)
(* initially, every step preserves it (one lemma per kind of step), and it *)
(* implies the properties.                                                 *)
(***************************************************************************)
EXTENDS ThreePC, FiniteSetTheorems, SequenceTheorems, TLAPS

USE DEF Process

\* The invariant holds before anybody has sent anything.
LEMMA InitIndInv == Init => IndInv
<1> SUFFICES ASSUME Init PROVE IndInv
  OBVIOUS
<1> USE CohortAssumption DEF Init
<1>1. TypeOK
  BY DEF TypeOK, State, Location
<1>2. BroadcastHistory
  BY DEF BroadcastHistory
<1>3. \A m \in Cohort : MemberHistory(m)
  BY DEF MemberHistory
<1>4. GatherHistory
  BY DEF GatherHistory, Gathering, RoundsDone
<1>5. RoundsUnanimous
  BY DEF RoundsUnanimous, PrepareSent
<1>6. QED
  BY <1>1, <1>2, <1>3, <1>4, <1>5 DEF IndInv

\* The steps that leave the protocol's own state alone: a signal, a checkpoint,
\* the end of run(), and a stuttering step.
LEMMA ControlStep ==
  ASSUME IndInv, NEW p \in Process,
         Signal(p) \/ Wake(p) \/ Finish(p) \/ UNCHANGED vars
  PROVE  IndInv'
<1> USE CohortAssumption
<1>1. UNCHANGED <<state, sent, received, replies, taken, responders, packets>>
  BY DEF Signal, Wake, Finish, vars, coordinatorVars, memberVars
<1>2. TypeOK'
  <2>1. TypeOK
    BY DEF IndInv
  <2>2. /\ pc' \in [Process -> Location]
        /\ crashSignalReceived' \in [Process -> BOOLEAN]
    <3>1. CASE Signal(p)
      BY <2>1, <3>1 DEF TypeOK, Signal
    <3>2. CASE Wake(p)
      BY <2>1, <3>2 DEF TypeOK, Location, Wake
    <3>3. CASE Finish(p)
      BY <2>1, <3>3 DEF TypeOK, Location, Finish
    <3>4. CASE UNCHANGED vars
      BY <2>1, <3>4 DEF TypeOK, vars
    <3>5. QED
      BY <3>1, <3>2, <3>3, <3>4
  <2>3. QED
    BY <1>1, <2>1, <2>2 DEF TypeOK
<1>3. BroadcastHistory'
  BY <1>1 DEF IndInv, BroadcastHistory
<1>4. ASSUME NEW m \in Cohort PROVE MemberHistory(m)'
  BY <1>1 DEF IndInv, MemberHistory, PrepareSent
<1>5. GatherHistory'
  <2>1. ~Gathering' => responders' = {}
    BY <1>1 DEF IndInv, TypeOK, GatherHistory, Gathering, Signal, Wake, Finish, vars
  <2>2. QED
    BY <1>1, <2>1 DEF IndInv, GatherHistory, RoundsDone
<1>6. RoundsUnanimous'
  BY <1>1 DEF IndInv, RoundsUnanimous, PrepareSent
<1>7. QED
  BY <1>2, <1>3, <1>4, <1>5, <1>6 DEF IndInv

-----------------------------------------------------------------------------
\* The responders have the size of everybody else only when they are everybody
\* else: what receiveFromAll's counting is worth.
LEMMA AllRespondedIsAll ==
  ASSUME NEW R \in SUBSET Cohort
  PROVE  AllResponded(R) <=> R = Cohort
<1> USE CohortAssumption
<1>1. Cardinality(Cohort) \in Nat
  BY FS_CardinalityType
<1>2. Cardinality(Process) = Cardinality(Cohort) + 1
  BY FS_AddElement
<1>3. Cardinality(R) = Cardinality(Cohort) => R = Cohort
  BY FS_Subset
<1>4. QED
  BY <1>1, <1>2, <1>3 DEF AllResponded

\* The coordinator asks for the votes.
LEMMA BeginStep ==
  ASSUME IndInv, CoordinatorBegin
  PROVE  IndInv'
<1> USE CohortAssumption DEF CoordinatorBegin, memberVars
<1>1. TypeOK /\ sent = <<>> /\ sent' = <<"CAN_COMMIT">>
  BY DEF IndInv, BroadcastHistory
<1>2. \A m \in Cohort : state'[m] = state[m]
  BY <1>1 DEF TypeOK
<1>3. state'[COORDINATOR_ID] = "W" /\ pc'[COORDINATOR_ID] = "sleep"
  BY <1>1 DEF TypeOK
<1>4. TypeOK'
  BY <1>1 DEF TypeOK, State, Location, Broadcast
<1>5. BroadcastHistory'
  BY <1>1, <1>3 DEF BroadcastHistory
<1>6. ASSUME NEW m \in Cohort PROVE MemberHistory(m)'
  <2>1. MemberHistory(m) /\ received[m] = 0
    BY <1>1 DEF IndInv, TypeOK
  <2>2. QED
    BY <1>1, <1>2, <2>1 DEF MemberHistory, PrepareSent
<1>7. GatherHistory'
  BY <1>3 DEF IndInv, GatherHistory, Gathering, RoundsDone
<1>8. RoundsUnanimous'
  BY <1>1, <1>3 DEF RoundsUnanimous, PrepareSent
<1>9. QED
  BY <1>4, <1>5, <1>6, <1>7, <1>8 DEF IndInv

\* Two facts about the length of short logs, which the arithmetic of the
\* provers needs spelled out one log at a time.
LEMMA ShortReplies ==
  ASSUME NEW r, NEW a, NEW b, NEW c, r \in {<<>>, <<a>>, <<b>>, <<b, c>>},
         NEW n \in Nat, n <= Len(r)
  PROVE  n <= 2 /\ (n = 2 => r = <<b, c>>)
<1>1. CASE r = <<>>
  <2>1. Len(r) = 0
    BY <1>1
  <2>2. QED
    BY <2>1
<1>2. CASE r = <<a>>
  <2>1. Len(r) = 1
    BY <1>2
  <2>2. QED
    BY <2>1
<1>3. CASE r = <<b>>
  <2>1. Len(r) = 1
    BY <1>3
  <2>2. QED
    BY <2>1
<1>4. CASE r = <<b, c>>
  <2>1. Len(r) = 2
    BY <1>4
  <2>2. QED
    BY <1>4, <2>1
<1>5. QED
  BY <1>1, <1>2, <1>3, <1>4

\* Of the logs the coordinator may have, only those with a PREPARE_COMMIT have
\* three broadcasts.
LEMMA ThirdBroadcast ==
  ASSUME NEW log, 3 <= Len(log), NEW x, NEW y, NEW z, NEW u,
         log \in {<<>>, <<x>>, <<x, y>>, <<x, z>>, <<x, y, u>>, <<x, y, z>>}
  PROVE  Len(log) = 3 /\ log[2] = y
<1>1. CASE log \in {<<x, y, u>>, <<x, y, z>>}
  BY <1>1
<1>2. CASE log = <<>>
  <2>1. Len(log) = 0
    BY <1>2
  <2>2. QED
    BY <2>1
<1>3. CASE log = <<x>>
  <2>1. Len(log) = 1
    BY <1>3
  <2>2. QED
    BY <2>1
<1>4. CASE log = <<x, y>> \/ log = <<x, z>>
  <2>1. Len(log) = 2
    BY <1>4
  <2>2. QED
    BY <2>1
<1>5. QED
  BY <1>1, <1>2, <1>3, <1>4

\* Appending to a log of at most one packet.
LEMMA ShortConcat ==
  ASSUME NEW a, NEW b
  PROVE  <<a>> \o <<b>> = <<a, b>> /\ <<>> \o <<a>> = <<a>>
<1>1. <<a>> \o <<b>> = <<a, b>>
  <2>1. <<a>> \in Seq({a, b}) /\ b \in {a, b}
    OBVIOUS
  <2>2. Append(<<a>>, b) = <<a>> \o <<b>>
    BY <2>1, AppendIsConcat
  <2> DEFINE s == Append(<<a>>, b)
             t == <<a, b>>
  <2>3. s = t
    <3>1. s \in Seq({a, b}) /\ t \in Seq({a, b})
      OBVIOUS
    <3>2. Len(s) = 2 /\ Len(t) = 2
      OBVIOUS
    <3>3. s[1] = a /\ s[2] = b /\ t[1] = a /\ t[2] = b
      OBVIOUS
    <3> HIDE DEF s, t
    <3>4. \A i \in 1 .. Len(s) : s[i] = t[i]
      BY <3>2, <3>3
    <3>5. QED
      BY <3>1, <3>2, <3>4, SeqEqual
  <2>4. QED
    BY <2>2, <2>3
<1>2. <<>> \o <<a>> = <<a>>
  OBVIOUS
<1>3. QED
  BY <1>1, <1>2

\* What the coordinator has broadcast, one log after another.
LEMMA SentLog ==
  ASSUME IndInv
  PROVE  sent \in {<<>>, <<"CAN_COMMIT">>, <<"CAN_COMMIT", "PREPARE_COMMIT">>,
                   <<"CAN_COMMIT", "DO_ABORT">>,
                   <<"CAN_COMMIT", "PREPARE_COMMIT", "DO_COMMIT">>,
                   <<"CAN_COMMIT", "PREPARE_COMMIT", "DO_ABORT">>}
<1>1. state[COORDINATOR_ID] \in {"Q", "W", "A", "P", "C"}
  BY DEF IndInv, TypeOK, State
<1>2. QED
  BY <1>1 DEF IndInv, BroadcastHistory

\* A member sends at most two packets, and the second is the acknowledgement
\* of a PREPARE_COMMIT.
LEMMA ReplyLog ==
  ASSUME IndInv, NEW m \in Cohort
  PROVE  /\ replies[m] \in {<<>>, <<Veto>>, <<Agree>>, <<Agree, Ack>>}
         /\ replies[m] = <<Agree, Ack>> => PrepareSent
<1>1. MemberHistory(m) /\ TypeOK
  BY DEF IndInv
<1>2. state[m] \in {"Q", "W", "A", "P", "C"}
  BY <1>1 DEF TypeOK, State
<1>3. <<Agree>> # <<Agree, Ack>> /\ <<Veto>> # <<Agree, Ack>> /\ <<>> # <<Agree, Ack>>
  OBVIOUS
<1>4. CASE state[m] \in {"Q", "W", "P", "C"}
  BY <1>1, <1>3, <1>4 DEF MemberHistory
<1>5. CASE state[m] = "A"
  <2>1. CASE replies[m] \in {<<Veto>>, <<Agree>>}
    BY <1>3, <2>1
  <2>2. CASE received[m] = 3 /\ replies[m] = <<Agree, Ack>>
    <3>1. 3 <= Len(sent)
      BY <1>1, <2>2 DEF TypeOK
    <3>2. PrepareSent
      <4>1. Len(sent) = 3 /\ sent[2] = "PREPARE_COMMIT"
        BY <3>1, SentLog, ThirdBroadcast
      <4>2. QED
        BY <4>1 DEF PrepareSent
    <3>3. QED
      BY <2>2, <3>2
  <2>3. QED
    BY <1>1, <1>5, <2>1, <2>2 DEF MemberHistory
<1>6. QED
  BY <1>2, <1>4, <1>5

\* The same, counted.
LEMMA ReplyCount ==
  ASSUME IndInv, NEW m \in Cohort, NEW k \in Nat, k <= Len(replies[m])
  PROVE  k <= 2 /\ (k = 2 => replies[m] = <<Agree, Ack>> /\ PrepareSent)
<1>1. replies[m] \in {<<>>, <<Veto>>, <<Agree>>, <<Agree, Ack>>}
  BY ReplyLog
<1>2. k <= 2 /\ (k = 2 => replies[m] = <<Agree, Ack>>)
  BY <1>1, ShortReplies
<1>3. QED
  BY <1>2, ReplyLog

\* A round ends.  It ends well only when every member gave the reply expected.
LEMMA CloseRoundStep ==
  ASSUME IndInv, Gathering, NEW ok \in BOOLEAN, CloseRound(ok),
         UNCHANGED <<crashSignalReceived, memberVars>>,
         taken' \in [Cohort -> Nat],
         \A m \in Cohort : taken[m] <= taken'[m] /\ taken'[m] <= Len(replies[m]),
         ok => \A m \in Cohort : /\ taken'[m] = RoundsDone + 1
                                 /\ replies[m][taken'[m]]
                                      = ExpectedReply(state[COORDINATOR_ID])
  PROVE  IndInv'
<1> USE CohortAssumption DEF CloseRound, memberVars
<1> DEFINE s == state[COORDINATOR_ID]
<1>1. TypeOK /\ s \in {"W", "P"}
  BY DEF IndInv, Gathering
<1>2. sent = IF s = "W" THEN <<"CAN_COMMIT">> ELSE <<"CAN_COMMIT", "PREPARE_COMMIT">>
  BY <1>1 DEF IndInv, BroadcastHistory
<1>3. \A m \in Cohort : state'[m] = state[m]
  BY <1>1 DEF TypeOK
<1>4. state'[COORDINATOR_ID] = RoundState(s, ok) /\ pc'[COORDINATOR_ID] = "sleep"
  BY <1>1 DEF TypeOK
<1>5. RoundMessage(s, ok) \in Broadcast /\ RoundState(s, ok) \in {"P", "C", "A"}
  BY DEF RoundMessage, RoundState, Broadcast
<1>6. /\ sent' \in Seq(Broadcast)
      /\ Len(sent') = Len(sent) + 1
      /\ \A i \in 1 .. Len(sent) : sent'[i] = sent[i]
  BY <1>1, <1>5 DEF TypeOK
<1>7. TypeOK'
  <2>1. state' \in [Process -> State] /\ pc' \in [Process -> Location]
    BY <1>1, <1>5 DEF TypeOK, State, Location
  <2>2. \A m \in Cohort : received'[m] <= Len(sent') /\ taken'[m] <= Len(replies'[m])
    BY <1>1, <1>6 DEF TypeOK
  <2>3. QED
    BY <1>1, <1>6, <2>1, <2>2 DEF TypeOK
<1>8. BroadcastHistory'
  <2>1. CASE s = "W"
    <3>1. sent' = IF ok THEN <<"CAN_COMMIT", "PREPARE_COMMIT">>
                        ELSE <<"CAN_COMMIT", "DO_ABORT">>
      BY <1>2, <2>1 DEF RoundMessage
    <3>2. state'[COORDINATOR_ID] = IF ok THEN "P" ELSE "A"
      BY <1>4, <2>1 DEF RoundState
    <3>3. QED
      BY <3>1, <3>2 DEF BroadcastHistory
  <2>2. CASE s = "P"
    <3>1. sent' = IF ok THEN <<"CAN_COMMIT", "PREPARE_COMMIT", "DO_COMMIT">>
                        ELSE <<"CAN_COMMIT", "PREPARE_COMMIT", "DO_ABORT">>
      BY <1>2, <2>2 DEF RoundMessage
    <3>2. state'[COORDINATOR_ID] = IF ok THEN "C" ELSE "A"
      BY <1>4, <2>2 DEF RoundState
    <3>3. QED
      BY <3>1, <3>2 DEF BroadcastHistory
  <2>3. QED
    BY <1>1, <2>1, <2>2
<1>9. ASSUME NEW m \in Cohort PROVE MemberHistory(m)'
  <2>1. MemberHistory(m) /\ received[m] <= Len(sent) /\ Len(sent) \in {1, 2}
    BY <1>1, <1>2 DEF IndInv, TypeOK
  <2>2. Len(sent) = 2 => (PrepareSent' <=> PrepareSent)
    BY <1>1, <1>6 DEF PrepareSent, TypeOK
  <2>3. QED
    BY <1>1, <1>3, <1>6, <2>1, <2>2 DEF MemberHistory, PrepareSent, TypeOK
<1>10. GatherHistory'
  <2>1. responders' = {} /\ packets' = {}
    OBVIOUS
  <2>2. state'[COORDINATOR_ID] = "P" => \A m \in Cohort : taken'[m] = 1
    BY <1>1, <1>4 DEF RoundState, RoundsDone
  <2>3. QED
    BY <1>4, <1>5, <2>1, <2>2 DEF GatherHistory, Gathering, RoundsDone
<1>11. RoundsUnanimous'
  <2>1. CASE s = "W"
    <3>1. sent'[2] = "PREPARE_COMMIT" => ok
      BY <1>2, <2>1 DEF RoundMessage
    <3>2. ok => \A m \in Cohort : replies[m] # <<>> /\ replies[m][1] = Agree
      BY <1>1, <2>1 DEF RoundsDone, ExpectedReply, TypeOK
    <3>3. state'[COORDINATOR_ID] # "C"
      BY <1>4, <2>1 DEF RoundState
    <3>4. ok => \A m \in Cohort : taken'[m] >= 1
      BY <2>1 DEF RoundsDone
    <3>5. QED
      BY <3>1, <3>2, <3>3, <3>4 DEF RoundsUnanimous, PrepareSent
  <2>2. CASE s = "P"
    <3>1. PrepareSent
      BY <1>2, <2>2 DEF PrepareSent
    <3>2. \A m \in Cohort : replies[m] # <<>> /\ replies[m][1] = Agree
      BY <3>1 DEF IndInv, RoundsUnanimous
    <3>3. ASSUME ok, NEW m \in Cohort PROVE Len(replies[m]) = 2
      <4>1. 2 <= Len(replies[m])
        BY <2>2, <3>3 DEF RoundsDone
      <4>2. replies[m] = <<Agree, Ack>>
        BY <4>1, ReplyCount
      <4>3. QED
        BY <4>2
    <3>4. state'[COORDINATOR_ID] = "C" => ok
      BY <1>4, <2>2 DEF RoundState
    <3>5. \A m \in Cohort : taken'[m] >= 1
      BY <1>1, <3>1 DEF IndInv, RoundsUnanimous, TypeOK
    <3>6. QED
      BY <3>2, <3>3, <3>4, <3>5 DEF RoundsUnanimous
  <2>3. QED
    BY <1>1, <2>1, <2>2
<1>12. QED
  BY <1>7, <1>8, <1>9, <1>10, <1>11 DEF IndInv

\* A turn of receiveFromAll's loop.
LEMMA ReceiveStep ==
  ASSUME IndInv, NEW m \in Cohort, CoordinatorReceive(m)
  PROVE  IndInv'
<1> USE CohortAssumption DEF memberVars
<1> DEFINE n == taken[m] + 1
           packet == Packet(m, replies[m][n])
           gathered == packets \cup {packet}
           heard == responders \cup {m}
<1>1. /\ TypeOK
      /\ Gathering
      /\ taken' = [taken EXCEPT ![m] = n]
      /\ n \in 1 .. Len(replies[m])
      /\ UNCHANGED <<crashSignalReceived, received, replies>>
  BY DEF IndInv, TypeOK, CoordinatorReceive, ReplyPending
<1>2. /\ taken' \in [Cohort -> Nat]
      /\ \A k \in Cohort : taken[k] <= taken'[k] /\ taken'[k] <= Len(replies[k])
  BY <1>1 DEF TypeOK
<1>3. replies[m] \in Seq(Reply) /\ replies[m][n] \in Reply
  BY <1>1 DEF TypeOK
<1>4. m \notin responders
  \* a second reply of the same round would be a third of m's, or its
  \* acknowledgement before it was asked for one
  <2>1. SUFFICES ASSUME m \in responders PROVE FALSE
    OBVIOUS
  <2>2. taken[m] = RoundsDone + 1 /\ n = RoundsDone + 2
    BY <1>1, <2>1 DEF IndInv, GatherHistory, Gathering, RoundsDone
  <2>3. n <= Len(replies[m]) /\ RoundsDone \in {0, 1}
    BY <1>1 DEF RoundsDone
  <2>4. n \in Nat
    BY <2>2, <2>3
  <2> HIDE DEF n
  <2>5. n <= 2 /\ (n = 2 => PrepareSent)
    BY <2>3, <2>4, ReplyCount
  <2>6. RoundsDone = 0 /\ PrepareSent
    BY <2>2, <2>3, <2>5
  <2>7. QED
    BY <1>1, <2>6 DEF IndInv, BroadcastHistory, Gathering, RoundsDone, PrepareSent
<1>5. \A k \in Cohort : taken'[k] = IF k \in heard THEN RoundsDone + 1 ELSE RoundsDone
  BY <1>1, <1>4 DEF IndInv, GatherHistory, Gathering, RoundsDone, TypeOK
<1>6. gathered = {Packet(k, replies[k][taken'[k]]) : k \in heard}
  <2>1. \A k \in responders : taken'[k] = taken[k]
    BY <1>1, <1>4 DEF TypeOK
  <2>2. taken'[m] = n
    BY <1>1 DEF TypeOK
  <2>3. packets = {Packet(k, replies[k][taken[k]]) : k \in responders}
    BY DEF IndInv, GatherHistory
  <2>4. QED
    BY <2>1, <2>2, <2>3
<1>7. CASE ~AllResponded(heard)
  <2>1. responders' = heard /\ packets' = gathered /\ UNCHANGED <<sent, state, pc>>
    BY <1>7 DEF CoordinatorReceive
  <2>2. TypeOK'
    <3>1. packets' \subseteq {Packet(k, r) : k \in Cohort, r \in Reply}
      BY <1>1, <1>3, <2>1 DEF TypeOK
    <3>2. responders' \subseteq Cohort
      BY <1>1, <2>1 DEF TypeOK
    <3>3. QED
      BY <1>1, <1>2, <2>1, <3>1, <3>2 DEF TypeOK
  <2>3. BroadcastHistory' /\ RoundsUnanimous'
    BY <1>1, <1>2, <2>1 DEF IndInv, TypeOK, BroadcastHistory, RoundsUnanimous, PrepareSent
  <2>4. ASSUME NEW k \in Cohort PROVE MemberHistory(k)'
    BY <1>1, <2>1 DEF IndInv, MemberHistory, PrepareSent
  <2>5. GatherHistory'
    BY <1>1, <1>5, <1>6, <2>1 DEF GatherHistory, Gathering, RoundsDone
  <2>6. QED
    BY <2>2, <2>3, <2>4, <2>5 DEF IndInv
<1>8. CASE AllResponded(heard)
  <2> DEFINE s == state[COORDINATOR_ID]
             ok == CheckPackets(gathered, ExpectedReply(s))
  <2>1. CloseRound(ok) /\ UNCHANGED <<crashSignalReceived, memberVars>>
    BY <1>8 DEF CoordinatorReceive
  <2>2. heard = Cohort
    <3>1. heard \in SUBSET Cohort
      BY <1>1 DEF TypeOK
    <3>2. QED
      BY <1>8, <3>1, AllRespondedIsAll
  <2>3. ASSUME ok, NEW k \in Cohort
        PROVE  taken'[k] = RoundsDone + 1 /\ replies[k][taken'[k]] = ExpectedReply(s)
    <3>1. taken'[k] = RoundsDone + 1 /\ taken'[k] \in 1 .. Len(replies[k])
      BY <1>2, <1>5, <2>2 DEF RoundsDone
    <3>2. replies[k][taken'[k]] \in Reply
      BY <1>1, <3>1 DEF TypeOK
    <3>3. Packet(k, replies[k][taken'[k]]) \in gathered
      BY <1>6, <2>2
    <3>4. /\ replies[k][taken'[k]].messageType = ExpectedReply(s).messageType
          /\ replies[k][taken'[k]].message = ExpectedReply(s).message
      BY <2>3, <3>3 DEF CheckPackets, Packet
    <3>5. QED
      BY <3>1, <3>2, <3>4 DEF Reply, Agree, Ack, Veto, ExpectedReply
  <2>4. ok \in BOOLEAN
    BY DEF CheckPackets
  <2> HIDE DEF ok
  <2>5. QED
    BY <1>1, <1>2, <2>1, <2>3, <2>4, CloseRoundStep
<1>9. QED
  BY <1>7, <1>8

\* receiveFromAll times out: the round ends badly, whatever was gathered.
LEMMA CoordinatorTimeoutStep ==
  ASSUME IndInv, CoordinatorTimeout
  PROVE  IndInv'
<1>1. TypeOK /\ Gathering /\ CloseRound(FALSE)
      /\ UNCHANGED <<crashSignalReceived, taken, memberVars>>
  BY DEF IndInv, CoordinatorTimeout
<1>2. /\ taken' \in [Cohort -> Nat]
      /\ \A m \in Cohort : taken[m] <= taken'[m] /\ taken'[m] <= Len(replies[m])
  BY <1>1 DEF TypeOK
<1>3. QED
  BY <1>1, <1>2, CloseRoundStep

-----------------------------------------------------------------------------
\* What a step of member m may do to the rest: it appends to m's replies, and
\* the coordinator's bookkeeping of the earlier ones stays right.
LEMMA MemberEffect ==
  ASSUME IndInv, NEW m \in Cohort, NEW s \in State, NEW n \in Nat, n <= Len(sent),
         NEW log \in Seq(Reply), Len(replies[m]) <= Len(log),
         \A i \in 1 .. Len(replies[m]) : log[i] = replies[m][i],
         state[COORDINATOR_ID] = "C" => log = replies[m],
         state' = [state EXCEPT ![m] = s],
         pc' = [pc EXCEPT ![m] = "sleep"],
         received' = [received EXCEPT ![m] = n],
         replies' = [replies EXCEPT ![m] = log],
         UNCHANGED <<crashSignalReceived, coordinatorVars>>,
         MemberHistory(m)'
  PROVE  IndInv'
<1> USE CohortAssumption DEF coordinatorVars
<1>1. TypeOK
  BY DEF IndInv
<1>2. /\ state'[COORDINATOR_ID] = state[COORDINATOR_ID]
      /\ pc'[COORDINATOR_ID] = pc[COORDINATOR_ID]
  BY <1>1 DEF TypeOK
<1>3. replies'[m] = log /\ \A k \in Cohort \ {m} : replies'[k] = replies[k]
  BY <1>1 DEF TypeOK
<1>4. TypeOK'
  <2>1. taken[m] <= Len(replies'[m])
    <3>1. /\ taken[m] \in Nat /\ taken[m] <= Len(replies[m])
          /\ Len(replies[m]) \in Nat /\ Len(log) \in Nat
      BY <1>1 DEF TypeOK
    <3>2. QED
      BY <1>3, <3>1
  <2>2. \A k \in Cohort : received'[k] <= Len(sent') /\ taken'[k] <= Len(replies'[k])
    BY <1>1, <1>3, <2>1 DEF TypeOK
  <2>3. /\ state' \in [Process -> State]
        /\ pc' \in [Process -> Location]
        /\ received' \in [Cohort -> Nat]
        /\ replies' \in [Cohort -> Seq(Reply)]
    BY <1>1 DEF TypeOK, Location
  <2>4. QED
    BY <1>1, <2>2, <2>3 DEF TypeOK
<1>5. BroadcastHistory'
  BY <1>2 DEF IndInv, BroadcastHistory
<1>6. ASSUME NEW k \in Cohort PROVE MemberHistory(k)'
  <2>1. CASE k = m
    BY <2>1
  <2>2. CASE k # m
    <3>1. UNCHANGED <<state[k], received[k], replies[k]>>
      BY <1>1, <2>2 DEF TypeOK
    <3>2. QED
      BY <3>1 DEF IndInv, MemberHistory, PrepareSent
  <2>3. QED
    BY <2>1, <2>2
<1>7. GatherHistory'
  <2>1. ASSUME NEW k \in responders PROVE replies'[k][taken'[k]] = replies[k][taken[k]]
    <3>1. k \in Cohort /\ taken[k] \in 1 .. Len(replies[k])
      BY <1>1, <2>1 DEF IndInv, TypeOK, GatherHistory, Gathering, RoundsDone
    <3>2. QED
      BY <1>3, <3>1
  <2>2. packets' = {Packet(k, replies'[k][taken'[k]]) : k \in responders}
    BY <2>1 DEF IndInv, GatherHistory
  <2>3. Gathering' <=> Gathering
    BY <1>2 DEF Gathering
  <2>4. QED
    BY <1>2, <2>2, <2>3 DEF IndInv, GatherHistory, RoundsDone
<1>8. RoundsUnanimous'
  <2>1. PrepareSent => \A k \in Cohort : replies'[k] # <<>> /\ replies'[k][1] = Agree
    <3>1. SUFFICES ASSUME PrepareSent, NEW k \in Cohort
                   PROVE  replies'[k] # <<>> /\ replies'[k][1] = Agree
      OBVIOUS
    <3>2. replies[k] # <<>> /\ replies[k][1] = Agree
      BY <3>1 DEF IndInv, RoundsUnanimous
    <3>3. CASE k = m
      <4>1. replies[m] \in Seq(Reply) /\ 1 \in 1 .. Len(replies[m])
        BY <1>1, <3>2, <3>3 DEF TypeOK
      <4>2. log # <<>>
        BY <4>1
      <4>3. QED
        BY <1>3, <3>2, <3>3, <4>1, <4>2
    <3>4. QED
      BY <1>3, <3>2, <3>3
  <2>2. state[COORDINATOR_ID] = "C" => replies' = replies
    BY <1>1 DEF TypeOK
  <2>3. QED
    BY <1>2, <2>1, <2>2 DEF IndInv, RoundsUnanimous, PrepareSent
<1>9. QED
  BY <1>4, <1>5, <1>6, <1>7, <1>8 DEF IndInv

\* While a member waits, its state says which broadcast it waits for.
LEMMA NextBroadcast ==
  ASSUME IndInv, NEW m \in Cohort, Listening(m), Pending(m)
  PROVE  \/ /\ state[m] = "Q" /\ received[m] = 0 /\ replies[m] = <<>>
            /\ sent[1] = "CAN_COMMIT"
         \/ /\ state[m] = "W" /\ received[m] = 1 /\ replies[m] = <<Agree>>
            /\ sent[2] \in {"PREPARE_COMMIT", "DO_ABORT"}
            /\ PrepareSent <=> sent[2] = "PREPARE_COMMIT"
         \/ /\ state[m] = "P" /\ received[m] = 2 /\ replies[m] = <<Agree, Ack>>
            /\ PrepareSent
            /\ sent[3] \in {"DO_COMMIT", "DO_ABORT"}
<1>1. MemberHistory(m) /\ TypeOK
  BY DEF IndInv
<1>2. received[m] + 1 <= Len(sent) /\ Len(sent) \in Nat
  BY <1>1 DEF TypeOK, Pending
<1>3. CASE state[m] = "Q"
  <2>1. received[m] = 0 /\ replies[m] = <<>>
    BY <1>1, <1>3 DEF MemberHistory
  <2>2. sent # <<>>
    BY <1>2, <2>1
  <2>3. sent[1] = "CAN_COMMIT"
    BY <2>2, SentLog
  <2>4. QED
    BY <1>3, <2>1, <2>3
<1>4. CASE state[m] = "W"
  <2>1. received[m] = 1 /\ replies[m] = <<Agree>>
    BY <1>1, <1>4 DEF MemberHistory
  <2>2. 2 <= Len(sent)
    BY <1>2, <2>1
  <2>3. sent # <<>> /\ sent # <<"CAN_COMMIT">>
    <3>1. CASE sent = <<>>
      <4>1. Len(sent) = 0
        BY <3>1
      <4>2. QED
        BY <2>2, <4>1
    <3>2. CASE sent = <<"CAN_COMMIT">>
      <4>1. Len(sent) = 1
        BY <3>2
      <4>2. QED
        BY <2>2, <4>1
    <3>3. QED
      BY <3>1, <3>2
  <2>4. sent[2] \in {"PREPARE_COMMIT", "DO_ABORT"}
    BY <2>3, SentLog
  <2>5. PrepareSent <=> sent[2] = "PREPARE_COMMIT"
    BY <2>2 DEF PrepareSent
  <2>6. QED
    BY <1>4, <2>1, <2>4, <2>5
<1>5. CASE state[m] = "P"
  <2>1. received[m] = 2 /\ replies[m] = <<Agree, Ack>> /\ PrepareSent
    BY <1>1, <1>5 DEF MemberHistory
  <2>2. 3 <= Len(sent)
    BY <1>2, <2>1
  <2>3. Len(sent) = 3
    BY <2>2, SentLog, ThirdBroadcast
  <2>4. sent[3] \in {"DO_COMMIT", "DO_ABORT"}
    BY <2>3, SentLog
  <2>5. QED
    BY <1>5, <2>1, <2>4
<1>6. QED
  BY <1>3, <1>4, <1>5 DEF Listening

\* A member receives a packet.
LEMMA MemberReceiveStep ==
  ASSUME IndInv, NEW m \in Cohort, MemberReceive(m)
  PROVE  IndInv'
<1> DEFINE type == sent[received[m] + 1]
           s == MemberNext(state[m], type)
           n == received[m] + 1
           log == replies[m] \o MemberReply(state[m], type)
<1>1. TypeOK /\ Listening(m) /\ Pending(m) /\ n \in Nat /\ n <= Len(sent)
  BY DEF IndInv, TypeOK, MemberReceive, Pending
<1>2. /\ state' = [state EXCEPT ![m] = s]
      /\ pc' = [pc EXCEPT ![m] = "sleep"]
      /\ received' = [received EXCEPT ![m] = n]
      /\ replies' = [replies EXCEPT ![m] = log]
      /\ UNCHANGED <<crashSignalReceived, coordinatorVars>>
  BY DEF MemberReceive
<1>3. /\ state'[m] = s /\ received'[m] = n /\ replies'[m] = log
      /\ sent' = sent
  BY <1>1, <1>2 DEF TypeOK, coordinatorVars
<1>4. CASE /\ state[m] = "Q" /\ received[m] = 0 /\ replies[m] = <<>>
           /\ sent[1] = "CAN_COMMIT"
  <2>1. s = "W" /\ n = 1 /\ log = <<Agree>>
    BY <1>4 DEF MemberNext, MemberReply
  <2>2. MemberHistory(m)'
    BY <1>3, <2>1 DEF MemberHistory
  <2>3. state[COORDINATOR_ID] # "C"
    <3>1. state[COORDINATOR_ID] = "C" => Len(replies[m]) = 2
      BY DEF IndInv, RoundsUnanimous
    <3>2. QED
      BY <1>4, <3>1
  <2>4. log \in Seq(Reply) /\ s \in State
    BY <2>1 DEF Reply, State
  <2>5. Len(replies[m]) = 0 /\ Len(log) = 1
    BY <1>4, <2>1
  <2>6. Len(replies[m]) <= Len(log) /\ \A i \in 1 .. Len(replies[m]) : log[i] = replies[m][i]
    BY <2>5
  <2>7. QED
    BY <1>1, <1>2, <2>2, <2>3, <2>4, <2>6, MemberEffect
<1>5. CASE /\ state[m] = "W" /\ received[m] = 1 /\ replies[m] = <<Agree>>
           /\ sent[2] \in {"PREPARE_COMMIT", "DO_ABORT"}
           /\ PrepareSent <=> sent[2] = "PREPARE_COMMIT"
  <2> n = 2 /\ type = sent[2]
    BY <1>5
  <2>1. CASE sent[2] = "PREPARE_COMMIT"
    <3>1. s = "P" /\ log = <<Agree, Ack>>
      <4>1. MemberNext("W", "PREPARE_COMMIT") = "P"
        BY DEF MemberNext
      <4>2. MemberReply("W", "PREPARE_COMMIT") = <<Ack>>
        BY DEF MemberReply
      <4>3. s = "P" /\ MemberReply(state[m], type) = <<Ack>>
        BY <1>5, <2>1, <4>1, <4>2
      <4>4. replies[m] \o <<Ack>> = <<Agree, Ack>>
        BY <1>5, ShortConcat
      <4>5. QED
        BY <4>3, <4>4
    <3>2. MemberHistory(m)'
      BY <1>3, <1>5, <2>1, <3>1 DEF MemberHistory, PrepareSent
    <3>3. state[COORDINATOR_ID] # "C"
      BY <1>5 DEF IndInv, RoundsUnanimous
    <3>4. log \in Seq(Reply) /\ s \in State
      BY <3>1 DEF Reply, State
    <3>5. Len(replies[m]) = 1 /\ Len(log) = 2 /\ log[1] = replies[m][1]
      BY <1>5, <3>1
    <3> HIDE DEF log
    <3>6. Len(replies[m]) <= Len(log) /\ \A i \in 1 .. Len(replies[m]) : log[i] = replies[m][i]
      BY <3>5
    <3>7. QED
      BY <1>1, <1>2, <3>1, <3>2, <3>3, <3>4, <3>6, MemberEffect
  <2>2. CASE sent[2] = "DO_ABORT"
    <3>1. s = "A" /\ log = replies[m]
      <4>1. MemberNext("W", "DO_ABORT") = "A"
        BY DEF MemberNext
      <4>2. MemberReply("W", "DO_ABORT") = <<>>
        BY DEF MemberReply
      <4>3. s = "A" /\ MemberReply(state[m], type) = <<>>
        BY <1>5, <2>2, <4>1, <4>2
      <4>4. replies[m] \o <<>> = replies[m]
        BY <1>5
      <4>5. QED
        BY <4>3, <4>4
    <3>2. MemberHistory(m)'
      BY <1>3, <1>5, <2>2, <3>1 DEF MemberHistory, PrepareSent
    <3>3. s \in State /\ log \in Seq(Reply) /\ Len(replies[m]) <= Len(log)
      BY <1>1, <3>1 DEF State, TypeOK
    <3>4. QED
      BY <1>1, <1>2, <3>1, <3>2, <3>3, MemberEffect
  <2>3. QED
    BY <1>5, <2>1, <2>2
<1>6. CASE /\ state[m] = "P" /\ received[m] = 2 /\ replies[m] = <<Agree, Ack>>
           /\ PrepareSent
           /\ sent[3] \in {"DO_COMMIT", "DO_ABORT"}
  <2>1. /\ s = (IF sent[3] = "DO_COMMIT" THEN "C" ELSE "A")
        /\ n = 3 /\ log = replies[m]
    BY <1>6 DEF MemberNext, MemberReply
  <2>2. MemberHistory(m)'
    BY <1>3, <1>6, <2>1 DEF MemberHistory, PrepareSent
  <2>3. s \in State /\ log \in Seq(Reply) /\ Len(replies[m]) <= Len(log)
    BY <1>1, <2>1 DEF State, TypeOK
  <2>4. QED
    BY <1>1, <1>2, <2>1, <2>2, <2>3, MemberEffect
<1>7. QED
  BY <1>1, <1>4, <1>5, <1>6, NextBroadcast

\* The receive of a member times out.
LEMMA MemberTimeoutStep ==
  ASSUME IndInv, NEW m \in Cohort, MemberTimeout(m)
  PROVE  IndInv'
<1> DEFINE s == TimeoutNext(state[m])
           n == received[m]
           log == replies[m] \o TimeoutReply(state[m])
<1>1. TypeOK /\ state[m] \in {"Q", "W", "P"} /\ n \in Nat /\ n <= Len(sent)
  BY DEF IndInv, TypeOK, MemberTimeout, Listening
<1>2. /\ state' = [state EXCEPT ![m] = s]
      /\ pc' = [pc EXCEPT ![m] = "sleep"]
      /\ received' = [received EXCEPT ![m] = n]
      /\ replies' = [replies EXCEPT ![m] = log]
      /\ UNCHANGED <<crashSignalReceived, coordinatorVars>>
  BY <1>1 DEF MemberTimeout, TypeOK
<1>3. /\ state'[m] = s /\ received'[m] = n /\ replies'[m] = log
      /\ sent' = sent
  BY <1>1, <1>2 DEF TypeOK, coordinatorVars
<1>4. MemberHistory(m)
  BY DEF IndInv
<1>5. CASE state[m] = "Q"
  <2>1. s = "A" /\ n = 0 /\ replies[m] = <<>> /\ log = <<Veto>>
    <3>1. s = "A" /\ n = 0 /\ replies[m] = <<>> /\ TimeoutReply(state[m]) = <<Veto>>
      BY <1>4, <1>5 DEF MemberHistory, TimeoutNext, TimeoutReply
    <3>2. QED
      BY <3>1, ShortConcat
  <2>2. MemberHistory(m)'
    BY <1>3, <2>1 DEF MemberHistory
  <2>3. state[COORDINATOR_ID] # "C"
    BY <2>1 DEF IndInv, RoundsUnanimous
  <2> HIDE DEF log, s, n
  <2>4. log \in Seq(Reply) /\ s \in State
    BY <2>1 DEF Reply, State
  <2>5. Len(replies[m]) = 0 /\ Len(log) = 1
    BY <2>1
  <2>6. Len(replies[m]) <= Len(log) /\ \A i \in 1 .. Len(replies[m]) : log[i] = replies[m][i]
    BY <2>5
  <2>7. QED
    BY <1>1, <1>2, <2>2, <2>3, <2>4, <2>6, MemberEffect
<1>6. CASE state[m] \in {"W", "P"}
  <2>1. s = (IF state[m] = "P" THEN "C" ELSE "A") /\ log = replies[m]
    BY <1>1, <1>6 DEF TimeoutNext, TimeoutReply, TypeOK
  <2>2. MemberHistory(m)'
    BY <1>3, <1>4, <1>6, <2>1 DEF MemberHistory, PrepareSent
  <2>3. s \in State /\ log \in Seq(Reply) /\ Len(replies[m]) <= Len(log)
    BY <1>1, <2>1 DEF State, TypeOK
  <2>4. QED
    BY <1>1, <1>2, <2>1, <2>2, <2>3, MemberEffect
<1>7. QED
  BY <1>1, <1>5, <1>6

-----------------------------------------------------------------------------
\* Every step preserves the inductive invariant.
LEMMA NextIndInv == IndInv /\ [Next]_vars => IndInv'
<1> SUFFICES ASSUME IndInv, [Next]_vars PROVE IndInv'
  OBVIOUS
<1>1. ASSUME NEW p \in Process, Step(p) PROVE IndInv'
  <2>1. CASE Wake(p) \/ Finish(p)
    BY <2>1, ControlStep
  <2>2. CASE CoordinatorBegin
    BY <2>2, BeginStep
  <2>3. CASE CoordinatorTimeout
    BY <2>3, CoordinatorTimeoutStep
  <2>4. CASE \E m \in Cohort : CoordinatorReceive(m)
    BY <2>4, ReceiveStep
  <2>5. CASE p \in Cohort /\ MemberReceive(p)
    BY <2>5, MemberReceiveStep
  <2>6. CASE p \in Cohort /\ MemberTimeout(p)
    BY <2>6, MemberTimeoutStep
  <2>7. QED
    BY <1>1, <2>1, <2>2, <2>3, <2>4, <2>5, <2>6 DEF Step, CoordinatorStep, MemberStep
<1>2. ASSUME NEW p \in Process, Signal(p) PROVE IndInv'
  BY <1>2, ControlStep
<1>3. CASE UNCHANGED vars
  BY <1>3, ControlStep
<1>4. QED
  BY <1>1, <1>2, <1>3 DEF Next, Terminated

\* The inductive invariant holds in every reachable state, whatever the order
\* of the steps of coordinator, members and operator, and whoever times out.
THEOREM Invariance == SafetySpec => []IndInv
<1>1. Init => IndInv
  BY InitIndInv
<1>2. IndInv /\ [Next]_vars => IndInv'
  BY NextIndInv
<1>3. QED
  BY <1>1, <1>2, PTL DEF SafetySpec

-----------------------------------------------------------------------------
\* What the invariant says of the packets on their way to a member, and of the
\* acknowledgements on their way to the coordinator.
LEMMA IndInvNoUnexpectedPacket == IndInv => NoUnexpectedPacket
<1> SUFFICES ASSUME IndInv PROVE NoUnexpectedPacket
  OBVIOUS
<1>1. ASSUME NEW m \in Cohort, Listening(m), Pending(m)
      PROVE  MemberNext(state[m], sent[received[m] + 1]) # state[m]
  <2> DEFINE type == sent[received[m] + 1]
  <2>1. \/ state[m] = "Q" /\ type = "CAN_COMMIT"
        \/ state[m] = "W" /\ type \in {"PREPARE_COMMIT", "DO_ABORT"}
        \/ state[m] = "P" /\ type \in {"DO_COMMIT", "DO_ABORT"}
    BY <1>1, NextBroadcast
  <2>2. QED
    BY <2>1 DEF MemberNext
<1>2. ASSUME state[COORDINATOR_ID] = "P"
      PROVE  /\ CheckPackets(packets, Ack)
             /\ \A m \in Cohort : ReplyPending(m) => replies[m][taken[m] + 1] = Ack
  <2>1. /\ TypeOK
        /\ \A m \in Cohort : taken[m] = IF m \in responders THEN 2 ELSE 1
        /\ packets = {Packet(m, replies[m][taken[m]]) : m \in responders}
    BY <1>2 DEF IndInv, GatherHistory, RoundsDone
  <2>2. ASSUME NEW m \in Cohort, NEW k \in Nat, k >= 2, k <= Len(replies[m])
        PROVE  k = 2 /\ replies[m][k] = Ack
    <3>1. k = 2 /\ replies[m] = <<Agree, Ack>>
      BY <2>2, ReplyCount
    <3>2. QED
      BY <3>1
  <2>3. ASSUME NEW m \in responders PROVE replies[m][taken[m]] = Ack
    <3>1. m \in Cohort /\ taken[m] = 2 /\ taken[m] <= Len(replies[m])
      BY <2>1 DEF TypeOK
    <3>2. QED
      BY <2>2, <3>1
  <2>4. CheckPackets(packets, Ack)
    <3>1. packets = {Packet(m, Ack) : m \in responders}
      BY <2>1, <2>3
    <3>2. QED
      BY <3>1 DEF CheckPackets, Packet
  <2>5. ASSUME NEW m \in Cohort, ReplyPending(m) PROVE replies[m][taken[m] + 1] = Ack
    <3>1. /\ taken[m] + 1 \in Nat
          /\ taken[m] + 1 >= 2
          /\ taken[m] + 1 <= Len(replies[m])
      BY <2>1, <2>5 DEF ReplyPending, TypeOK
    <3>2. QED
      BY <2>2, <3>1
  <2>6. QED
    BY <2>4, <2>5
<1>3. QED
  BY <1>1, <1>2 DEF NoUnexpectedPacket

\* A prepared or committed process knows of a PREPARE_COMMIT.
LEMMA IndInvPrepareSent ==
  ASSUME IndInv, NEW p \in Process, state[p] \in {"P", "C"}
  PROVE  PrepareSent
<1>1. CASE p = COORDINATOR_ID
  BY <1>1 DEF IndInv, BroadcastHistory, PrepareSent
<1>2. CASE p \in Cohort
  BY <1>2 DEF IndInv, MemberHistory
<1>3. QED
  BY <1>1, <1>2

\* And PREPARE_COMMIT is sent only after every vote.
LEMMA IndInvNeedsEveryVote == IndInv => PreparedNeedsEveryVote
BY IndInvPrepareSent DEF IndInv, RoundsUnanimous, PreparedNeedsEveryVote

\* When the coordinator has committed, both replies of every member are in its
\* log, and a member with two replies is in P or C unless told to abort.
LEMMA IndInvCommitIsSafe == IndInv => CoordinatorCommitIsSafe
<1> SUFFICES ASSUME IndInv, state[COORDINATOR_ID] = "C", NEW m \in Cohort
             PROVE  state[m] \in {"P", "C"} /\ replies[m] = <<Agree, Ack>>
  BY DEF CoordinatorCommitIsSafe
<1>1. Len(replies[m]) = 2 /\ sent[3] = "DO_COMMIT" /\ TypeOK /\ MemberHistory(m)
  BY DEF IndInv, RoundsUnanimous, BroadcastHistory
<1>2. replies[m] = <<Agree, Ack>>
  BY <1>1, ReplyCount
<1>3. replies[m] # <<>> /\ replies[m] # <<Agree>> /\ replies[m] # <<Veto>>
  BY <1>2
<1>4. state[m] \in {"P", "C"}
  <2>1. state[m] \in {"Q", "W", "A", "P", "C"}
    BY <1>1 DEF TypeOK, State
  <2>2. sent[3] # "DO_ABORT"
    BY <1>1
  <2>3. state[m] # "A" /\ state[m] # "Q" /\ state[m] # "W"
    BY <1>1, <1>3, <2>2 DEF MemberHistory
  <2>4. QED
    BY <2>1, <2>3
<1>5. QED
  BY <1>2, <1>4

-----------------------------------------------------------------------------
\* TypeOK, for every cohort: nobody receives more than it was sent and nobody
\* sends what its handlers do not send.
THEOREM TypeCorrect == SafetySpec => []TypeOK
<1>1. IndInv => TypeOK
  BY DEF IndInv
<1>2. QED
  BY <1>1, Invariance, PTL

\* The code's branches for unexpected packets (CohortMember.h, case W, P and Q,
\* and Coordinator.h, case P) are dead, for every cohort and every crash.
THEOREM UnexpectedPacketsAreImpossible == SafetySpec => []NoUnexpectedPacket
<1>1. QED
  BY IndInvNoUnexpectedPacket, Invariance, PTL

\* Nobody is prepared, and nobody commits, without the vote of every member.
THEOREM CommitNeedsEveryVote == SafetySpec => []PreparedNeedsEveryVote
<1>1. QED
  BY IndInvNeedsEveryVote, Invariance, PTL

\* The commit of the coordinator cannot disagree with any member, whatever
\* times out after it and whoever is killed before DO_COMMIT arrives.
THEOREM CoordinatorCommitSafety == SafetySpec => []CoordinatorCommitIsSafe
<1>1. QED
  BY IndInvCommitIsSafe, Invariance, PTL

\* A coordinator that aborts the vote leaves nobody who could commit.
THEOREM EarlyAbortSafety == SafetySpec => []EarlyAbortIsSafe
<1>1. ASSUME IndInv, Len(sent) >= 2, sent[2] = "DO_ABORT", NEW p \in Process
      PROVE  state[p] \notin {"P", "C"}
  BY <1>1, IndInvPrepareSent DEF PrepareSent
<1>2. IndInv => EarlyAbortIsSafe
  BY <1>1 DEF EarlyAbortIsSafe
<1>3. QED
  BY <1>2, Invariance, PTL

\* Who has replied twice has been prepared, and the coordinator has taken its
\* vote; who has received nothing has not voted for the second broadcast.
LEMMA IndInvBuffered == IndInv => ProtocolIsBuffered
<1> SUFFICES ASSUME IndInv, NEW m \in Cohort
             PROVE  Len(sent) - received[m] <= 2 /\ Len(replies[m]) - taken[m] <= 1
  BY DEF ProtocolIsBuffered
<1>1. TypeOK /\ BroadcastHistory /\ MemberHistory(m) /\ state[m] \in State
  BY DEF IndInv, TypeOK
<1>2. received[m] \in Nat /\ taken[m] \in Nat
  BY <1>1 DEF TypeOK
<1>3. Len(sent) \in 0 .. 3 /\ (Len(sent) = 3 => PrepareSent)
  <2>1. state[COORDINATOR_ID] \in State
    BY <1>1 DEF TypeOK
  <2>2. QED
    BY <1>1, <2>1 DEF BroadcastHistory, PrepareSent, State
<1>4. PrepareSent => replies[m] # <<>> /\ replies[m][1] = Agree /\ taken[m] >= 1
  BY DEF IndInv, RoundsUnanimous
<1>5. received[m] = 0 => ~PrepareSent
  <2>1. received[m] = 0 => replies[m] = <<>> \/ replies[m] = <<Veto>>
    BY <1>1 DEF MemberHistory, State
  <2>2. QED
    <3>1. Agree # Veto
      BY DEF Agree, Veto
    <3>2. replies[m] = <<Veto>> => replies[m][1] # Agree
      BY <3>1
    <3>3. QED
      BY <1>4, <2>1, <3>2
<1>6. Len(replies[m]) \in 0 .. 2 /\ (Len(replies[m]) = 2 => PrepareSent)
  <2>1. Len(replies[m]) \in Nat
    BY <1>1 DEF TypeOK
  <2> DEFINE k == Len(replies[m])
  <2>2. k \in Nat /\ k <= Len(replies[m])
    BY <2>1
  <2> HIDE DEF k
  <2>3. k <= 2 /\ (k = 2 => PrepareSent)
    BY <2>2, ReplyCount
  <2>4. k \in 0 .. 2
    BY <2>2, <2>3
  <2>5. QED
    BY <2>3, <2>4 DEF k
<1>7. Len(sent) - received[m] <= 2
  <2>1. \A n \in 0 .. 3, r \in Nat : (n = 3 => r # 0) => n - r <= 2
    OBVIOUS
  <2>2. QED
    BY <1>2, <1>3, <1>5, <2>1
<1>8. Len(replies[m]) - taken[m] <= 1
  <2>1. \A n \in 0 .. 2, k \in Nat : (n = 2 => k >= 1) => n - k <= 1
    OBVIOUS
  <2>2. QED
    BY <1>2, <1>4, <1>6, <2>1
<1>9. QED
  BY <1>7, <1>8

\* Two packets of buffer to each member and one from it are enough for the
\* packets of the protocol, for every number of members.
THEOREM BufferBound == SafetySpec => []ProtocolIsBuffered
<1>1. QED
  BY IndInvBuffered, Invariance, PTL

=============================================================================
