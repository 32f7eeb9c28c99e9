-------------------------- MODULE TimedThreePCProof -------------------------
(***************************************************************************)
(* The clock only restricts what ThreePC does: what is proved of ThreePC   *)
(* holds of TimedThreePC, for all values of the sleeps, the round time,    *)
(* the lateness, the delay and the skew.                                   *)
(***************************************************************************)
EXTENDS TimedThreePC, ThreePCProof

\* A step with its time is a step without it, and the clock alone changes
\* nothing of the protocol.
LEMMA TimedStepIsStep ==
  ASSUME [TimedNext]_timedVars
  PROVE  [Next]_vars
<1>1. ASSUME NEW p \in Process, TimedStep(p) PROVE Next
  <2>1. Step(p)
    BY <1>1 DEF TimedStep, Step, CoordinatorStep, MemberStep
  <2>2. QED
    BY <2>1 DEF Next
<1>2. ASSUME NEW p \in Process, TimedSignal(p) PROVE Next
  BY <1>2 DEF TimedSignal, Next
<1>3. CASE Tick \/ UNCHANGED timedVars
  BY <1>3 DEF Tick, timedVars
<1>4. CASE Terminated
  BY <1>4 DEF Next
<1>5. QED
  BY <1>1, <1>2, <1>3, <1>4 DEF TimedNext

\* The timed run implements the untimed one.
THEOREM TimedImplementsUntimed == TimedSafetySpec => SafetySpec
<1>1. TimedInit => Init
  BY DEF TimedInit
<1>2. QED
  BY <1>1, TimedStepIsStep, PTL DEF TimedSafetySpec, SafetySpec

\* In particular the coordinator's commit is safe at any speed, even where the
\* time bounds are too tight for Agreement.
THEOREM TimedCommitSafety == TimedSafetySpec => []CoordinatorCommitIsSafe
<1>1. QED
  BY TimedImplementsUntimed, CoordinatorCommitSafety, PTL

-----------------------------------------------------------------------------
(***************************************************************************)
(* Agreement, for all times with a safe margin.                            *)
(***************************************************************************)

USE DEF Process

LEMMA TimesAreNatural ==
  /\ ROUND_TIME \in Nat /\ LATENESS \in Nat /\ DELAY \in Nat /\ SKEW \in Nat
  /\ MIN_SLEEP_TIME \in Nat /\ MAX_SLEEP_TIME \in Nat
  /\ MIN_SLEEP_TIME_COORDINATOR \in Nat /\ MAX_SLEEP_TIME_COORDINATOR \in Nat
  /\ CLOCK_STEP \in Nat /\ CLOCK_STEP <= ROUND_TIME
BY TimeAssumption DEF TimeAssumption

\* The coordinator's state, told by the number of its broadcasts.
LEMMA SentLength ==
  ASSUME IndInv
  PROVE  /\ state[COORDINATOR_ID] = "Q" <=> Len(sent) = 0
         /\ state[COORDINATOR_ID] = "W" <=> Len(sent) = 1
         /\ Len(sent) = 2 <=> \/ state[COORDINATOR_ID] = "P"
                              \/ state[COORDINATOR_ID] = "A" /\ sent = <<"CAN_COMMIT", "DO_ABORT">>
         /\ Len(sent) <= 3
<1> DEFINE s == state[COORDINATOR_ID]
<1>1. s \in {"Q", "W", "A", "P", "C"} /\ BroadcastHistory
  BY DEF IndInv, TypeOK, State
<1>2. CASE s = "Q"
  <2>1. Len(sent) = 0
    BY <1>1, <1>2 DEF BroadcastHistory
  <2>2. QED
    BY <1>2, <2>1
<1>3. CASE s = "W"
  <2>1. Len(sent) = 1
    BY <1>1, <1>3 DEF BroadcastHistory
  <2>2. QED
    BY <1>3, <2>1
<1>4. CASE s = "P"
  <2>1. Len(sent) = 2
    BY <1>1, <1>4 DEF BroadcastHistory
  <2>2. QED
    BY <1>4, <2>1
<1>5. CASE \/ s = "C"
           \/ s = "A" /\ sent = <<"CAN_COMMIT", "PREPARE_COMMIT", "DO_ABORT">>
  <2>1. Len(sent) = 3
    BY <1>1, <1>5 DEF BroadcastHistory
  <2>2. s \notin {"Q", "W", "P"} /\ sent # <<"CAN_COMMIT", "DO_ABORT">>
    BY <1>5, <2>1
  <2>3. QED
    BY <2>1, <2>2
<1>6. CASE s = "A" /\ sent = <<"CAN_COMMIT", "DO_ABORT">>
  <2>1. Len(sent) = 2
    BY <1>6
  <2>2. QED
    BY <1>6, <2>1
<1>7. s = "A" => \/ sent = <<"CAN_COMMIT", "DO_ABORT">>
                 \/ sent = <<"CAN_COMMIT", "PREPARE_COMMIT", "DO_ABORT">>
  BY <1>1 DEF BroadcastHistory
<1>8. QED
  BY <1>1, <1>2, <1>3, <1>4, <1>5, <1>6, <1>7

\* A sleep takes at least its range, and at most its range and the lateness.
LEMMA NapBounds ==
  ASSUME NEW p \in Process, NEW nap \in Nap(p)
  PROVE  /\ nap \in Nat
         /\ p = COORDINATOR_ID => /\ nap >= MIN_SLEEP_TIME_COORDINATOR
                                  /\ nap <= MAX_SLEEP_TIME_COORDINATOR + LATENESS
         /\ p # COORDINATOR_ID => /\ nap >= MIN_SLEEP_TIME
                                  /\ nap <= MAX_SLEEP_TIME + LATENESS
<1> USE TimeAssumption
<1>1. CASE p = COORDINATOR_ID
  <2>1. PICK n \in MIN_SLEEP_TIME_COORDINATOR .. MAX_SLEEP_TIME_COORDINATOR, late \in 0 .. LATENESS :
               nap = n + late
    BY <1>1 DEF Nap, randomBetween
  <2>2. QED
    BY <1>1, <2>1
<1>2. CASE p # COORDINATOR_ID
  <2>1. PICK n \in MIN_SLEEP_TIME .. MAX_SLEEP_TIME, late \in 0 .. LATENESS : nap = n + late
    BY <1>2 DEF Nap, randomBetween
  <2>2. QED
    BY <1>2, <2>1
<1>3. QED
  BY <1>1, <1>2

\* What a step of p does to its deadline.
LEMMA DeadlineBounds ==
  ASSUME TimedTypeOK, NEW p \in Process, NEW d \in Deadlines(p),
         pc' \in [Process -> Location]
  PROVE  /\ d \in Nat
         /\ pc'[p] = pc[p] => d = due[p]
         /\ pc'[p] # pc[p] /\ pc'[p] = "sleep" => \E nap \in Nap(p) : d = now + nap
         /\ pc'[p] # pc[p] /\ pc'[p] = "switch"
              => d >= now + ROUND_TIME - CLOCK_STEP /\ d <= now + ROUND_TIME + CLOCK_STEP
<1> USE TimeAssumption
<1>1. now \in Nat /\ due[p] \in Nat /\ pc'[p] \in {"sleep", "switch", "exited"}
  BY DEF TimedTypeOK, Location
<1>2. CASE pc'[p] = pc[p]
  BY <1>1, <1>2 DEF Deadlines
<1>3. CASE pc'[p] # pc[p] /\ pc'[p] = "sleep"
  <2>1. PICK nap \in Nap(p) : d = now + nap
    BY <1>3 DEF Deadlines
  <2>2. QED
    BY <1>1, <1>3, <2>1, NapBounds
<1>4. CASE pc'[p] # pc[p] /\ pc'[p] = "switch"
  BY <1>1, <1>4 DEF Deadlines
<1>5. CASE pc'[p] # pc[p] /\ pc'[p] = "exited"
  BY <1>1, <1>5 DEF Deadlines
<1>6. QED
  BY <1>1, <1>2, <1>3, <1>4, <1>5

\* What a step of p does to the clock variables.
LEMMA StampEffect ==
  ASSUME TimedTypeOK, TypeOK', NEW p \in Process, Stamp(p)
  PROVE  /\ now' = now
         /\ \A q \in Process : q # p => due'[q] = due[q]
         /\ due'[p] \in Deadlines(p)
         /\ sent' = sent => sentAt' = sentAt
         /\ sent' # sent => sentAt' = now
         /\ TimedTypeOK'
         /\ sentAt <= now => sentAt' <= now'
<1>1. PICK d \in Deadlines(p) : due' = [due EXCEPT ![p] = d]
  BY DEF Stamp
<1>2. pc' \in [Process -> Location]
  BY DEF TypeOK
<1>3. d \in Nat
  BY <1>2, DeadlineBounds
<1>4. due \in [Process -> Nat] /\ now \in Nat /\ sentAt \in Nat /\ repliedAt \in [Cohort -> Nat]
  BY DEF TimedTypeOK
<1>5. due' \in [Process -> Nat] /\ due'[p] = d /\ \A q \in Process : q # p => due'[q] = due[q]
  BY <1>1, <1>3, <1>4
<1>6. /\ now' = now
      /\ sent' = sent => sentAt' = sentAt
      /\ sent' # sent => sentAt' = now
      /\ repliedAt' \in [Cohort -> Nat]
  BY <1>4 DEF Stamp
<1>7. sentAt' \in Nat /\ (sentAt <= now => sentAt' <= now')
  BY <1>4, <1>6
<1>8. QED
  BY <1>4, <1>5, <1>6, <1>7 DEF TimedTypeOK

\* What concerns member m, or the coordinator, is as it was.
LEMMA MemberFrame ==
  ASSUME NEW m \in Cohort, MemberPatient(m),
         UNCHANGED <<state[m], pc[m], due[m], received[m], sent, sentAt>>
  PROVE  MemberPatient(m)'
BY DEF MemberPatient, Waiting, EarliestTimeout

LEMMA CoordinatorFrame ==
  ASSUME CoordinatorInTime,
         UNCHANGED <<state[COORDINATOR_ID], pc[COORDINATOR_ID], due[COORDINATOR_ID], sentAt, now>>
  PROVE  CoordinatorInTime'
BY DEF CoordinatorInTime, Waiting, LatestTimeout

\* Initially everybody is in state Q.
LEMMA TimedInitIndInv == TimedInit => TimedIndInv
<1> SUFFICES ASSUME TimedInit PROVE TimedIndInv
  OBVIOUS
<1> USE TimeAssumption, CohortAssumption DEF TimedInit
<1>1. IndInv
  BY InitIndInv
<1>2. /\ \A p \in Process : state[p] = "Q" /\ pc[p] = "sleep"
      /\ now = 0 /\ sentAt = 0
  BY DEF Init
<1>3. due \in [Process -> Nat]
  OBVIOUS
<1>4. TimedTypeOK
  BY <1>1, <1>3 DEF TimedTypeOK, IndInv
<1>5. CoordinatorInTime /\ \A m \in Cohort : MemberPatient(m)
  BY <1>2 DEF CoordinatorInTime, MemberPatient, Waiting
<1>6. NobodyAhead /\ LeftInTime
  BY <1>2 DEF NobodyAhead, LeftInTime
<1>7. QED
  BY <1>1, <1>2, <1>4, <1>5, <1>6 DEF TimedIndInv

\* The heart of it: a member that has voted times out only when the coordinator
\* has left run() in the very state the member is in.
LEMMA TimeoutMeansCrash ==
  ASSUME SafeMargin, TimedIndInv, NEW m \in Cohort,
         Listening(m), state[m] \in {"W", "P"}, now >= due[m], ~Overdue(m)
  PROVE  /\ ~Pending(m)
         /\ pc[COORDINATOR_ID] = "exited"
         /\ state[COORDINATOR_ID] = state[m]
<1> USE TimesAreNatural, CohortAssumption
<1> DEFINE c == COORDINATOR_ID
<1>1. /\ now \in Nat /\ sentAt \in Nat /\ due[m] \in Nat /\ due[c] \in Nat
      /\ received[m] \in Nat /\ Len(sent) \in Nat /\ received[m] <= Len(sent)
      /\ state[c] \in State
  BY DEF TimedIndInv, TimedTypeOK, TypeOK
<1>2. Waiting(m) /\ EarliestTimeout(m) = due[m]
  BY <1>1 DEF Listening, Waiting, EarliestTimeout
<1>3. received[m] = Len(sent)
  <2>1. CASE received[m] + 1 < Len(sent)
    BY <1>1, <2>1 DEF Overdue, Pending
  <2>2. CASE received[m] + 1 = Len(sent)
    <3>1. due[m] > sentAt + DELAY
      BY <1>2, <2>2 DEF TimedIndInv, MemberPatient
    <3>2. QED
      BY <1>1, <2>2, <3>1 DEF Overdue, Pending
  <2>3. QED
    BY <1>1, <2>1, <2>2
<1>4. due[m] >= sentAt + MIN_SLEEP_TIME + ROUND_TIME - CLOCK_STEP
  BY <1>2, <1>3 DEF TimedIndInv, MemberPatient
<1>5. state[c] = state[m]
  <2>1. CASE state[m] = "W"
    <3>1. Len(sent) = 1
      BY <1>3, <2>1 DEF TimedIndInv, IndInv, MemberHistory
    <3>2. QED
      BY <2>1, <3>1, SentLength DEF TimedIndInv
  <2>2. CASE state[m] = "P"
    <3>1. Len(sent) = 2 /\ sent[2] = "PREPARE_COMMIT"
      BY <1>3, <2>2 DEF TimedIndInv, IndInv, MemberHistory, PrepareSent
    <3>2. sent # <<"CAN_COMMIT", "DO_ABORT">>
      BY <3>1
    <3>3. QED
      BY <2>2, <3>1, <3>2, SentLength DEF TimedIndInv
  <2>3. QED
    BY <2>1, <2>2
<1>6. pc[c] = "exited"
  <2>1. SUFFICES ASSUME pc[c] # "exited" PROVE FALSE
    OBVIOUS
  <2>2. now <= sentAt + MAX_SLEEP_TIME_COORDINATOR + 2 * LATENESS + ROUND_TIME + CLOCK_STEP
    <3>1. Waiting(c)
      BY <1>5, <2>1 DEF Waiting
    <3>2. LatestTimeout(c) \in Nat
      BY <1>1 DEF LatestTimeout
    <3>3. QED
      BY <1>1, <3>1, <3>2 DEF TimedIndInv, CoordinatorInTime
  <2>3. MAX_SLEEP_TIME_COORDINATOR + 2 * LATENESS + CLOCK_STEP < MIN_SLEEP_TIME - CLOCK_STEP
    BY DEF SafeMargin
  <2>4. now >= sentAt + MIN_SLEEP_TIME + ROUND_TIME - CLOCK_STEP
    BY <1>1, <1>4
  <2>5. QED
    BY <1>1, <2>2, <2>3, <2>4
<1>7. QED
  BY <1>1, <1>3, <1>5, <1>6 DEF Pending

-----------------------------------------------------------------------------
\* Time passes, a signal arrives, or nothing happens.
LEMMA PassiveStep ==
  ASSUME TimedIndInv, IndInv',
         \/ Tick
         \/ \E p \in Process : TimedSignal(p)
         \/ UNCHANGED timedVars
  PROVE  TimedIndInv'
<1> USE TimesAreNatural, CohortAssumption
<1> DEFINE c == COORDINATOR_ID
<1>1. /\ UNCHANGED <<state, pc, sent, received, replies, due, sentAt, repliedAt>>
      /\ now' = now \/ (now' = now + 1 /\ \A p \in Process : ~Urgent(p))
  BY DEF Tick, TimedSignal, Signal, timedVars, clockVars, vars, coordinatorVars, memberVars
<1>2. now \in Nat /\ sentAt \in Nat /\ due \in [Process -> Nat] /\ TypeOK
  BY DEF TimedIndInv, TimedTypeOK
<1>3. TimedTypeOK' /\ sentAt' <= now'
  BY <1>1, <1>2 DEF TimedIndInv, TimedTypeOK, IndInv
<1>4. CoordinatorInTime'
  <2>1. CASE now' = now
    BY <1>1, <2>1, CoordinatorFrame DEF TimedIndInv
  <2>2. CASE now' = now + 1 /\ \A p \in Process : ~Urgent(p)
    <3>1. SUFFICES ASSUME Waiting(c) PROVE now + 1 <= LatestTimeout(c)
      BY <1>1, <2>2 DEF TimedIndInv, CoordinatorInTime, Waiting, LatestTimeout
    <3>2. ~Urgent(c) /\ pc[c] \in {"sleep", "switch"} /\ state[c] \in {"W", "P"}
      BY <1>2, <2>2, <3>1 DEF Waiting, TypeOK, Location
    <3>3. due[c] \in Nat
      BY <1>2
    <3>4. CASE pc[c] = "sleep"
      BY <1>2, <3>2, <3>3, <3>4 DEF Urgent, LatestTimeout
    <3>5. CASE pc[c] = "switch"
      BY <1>2, <3>2, <3>3, <3>5 DEF Urgent, LatestTimeout, Receiving, Gathering
    <3>6. QED
      BY <3>2, <3>4, <3>5
  <2>3. QED
    BY <1>1, <2>1, <2>2
<1>5. ASSUME NEW m \in Cohort PROVE MemberPatient(m)'
  BY <1>1, MemberFrame DEF TimedIndInv
<1>6. NobodyAhead'
  BY <1>1 DEF TimedIndInv, NobodyAhead
<1>7. LeftInTime'
  <2>1. \A p \in Process : crashSignalReceived[p] => crashSignalReceived'[p]
    BY <1>2 DEF Tick, TimedSignal, Signal, timedVars, vars, TypeOK
  <2>2. QED
    BY <1>1, <2>1 DEF TimedIndInv, LeftInTime
<1>8. QED
  BY <1>3, <1>4, <1>5, <1>6, <1>7 DEF TimedIndInv

\* What a step of p leaves alone: the program counter, state and deadline of
\* everybody else.
LEMMA OthersFrame ==
  ASSUME TimedIndInv, IndInv', NEW p \in Process, Stamp(p),
         \A q \in Process : q # p => state'[q] = state[q] /\ pc'[q] = pc[q],
         crashSignalReceived' = crashSignalReceived,
         pc'[p] = "exited" => crashSignalReceived[p] \/ state'[p] \in {"A", "C"}
  PROVE  /\ TimedTypeOK' /\ sentAt' <= now' /\ LeftInTime'
         /\ p # COORDINATOR_ID /\ sent' = sent => CoordinatorInTime'
         /\ \A m \in Cohort : m # p /\ sent' = sent /\ received'[m] = received[m]
                                => MemberPatient(m)'
<1>1. /\ TimedTypeOK /\ TypeOK' /\ sentAt <= now
  BY DEF TimedIndInv, IndInv
<1>2. /\ now' = now
      /\ \A q \in Process : q # p => due'[q] = due[q]
      /\ sent' = sent => sentAt' = sentAt
      /\ TimedTypeOK' /\ sentAt' <= now'
  BY <1>1, StampEffect
<1>3. LeftInTime'
  BY DEF TimedIndInv, LeftInTime
<1>4. p # COORDINATOR_ID /\ sent' = sent => CoordinatorInTime'
  BY <1>2, CoordinatorFrame DEF TimedIndInv
<1>5. ASSUME NEW m \in Cohort, m # p, sent' = sent, received'[m] = received[m]
      PROVE  MemberPatient(m)'
  BY <1>2, <1>5, MemberFrame DEF TimedIndInv
<1>6. QED
  BY <1>2, <1>3, <1>4, <1>5

\* A process wakes, or leaves run() decided.
LEMMA TimedControlStep ==
  ASSUME TimedIndInv, IndInv', NEW p \in Process, Stamp(p),
         (Wake(p) /\ now = due[p]) \/ Finish(p)
  PROVE  TimedIndInv'
<1> USE TimesAreNatural, CohortAssumption
<1>1. /\ TypeOK /\ TimedTypeOK /\ TypeOK' /\ sentAt <= now
      /\ now \in Nat /\ sentAt \in Nat /\ due[p] \in Nat
  BY DEF TimedIndInv, TimedTypeOK, IndInv
<1>2. /\ UNCHANGED <<state, sent, received, replies, crashSignalReceived>>
      /\ \A q \in Process : q # p => pc'[q] = pc[q]
      /\ pc'[p] = "exited" => crashSignalReceived[p] \/ state'[p] \in {"A", "C"}
      /\ pc'[p] = "exited" \/ (pc[p] = "sleep" /\ pc'[p] = "switch" /\ now = due[p])
  BY <1>1 DEF Wake, Finish, coordinatorVars, memberVars, TypeOK
<1>3. /\ TimedTypeOK' /\ sentAt' <= now' /\ LeftInTime'
      /\ p # COORDINATOR_ID => CoordinatorInTime'
      /\ \A m \in Cohort : m # p => MemberPatient(m)'
  BY <1>2, OthersFrame
<1>4. /\ now' = now /\ sentAt' = sentAt /\ due'[p] \in Deadlines(p)
  BY <1>1, <1>2, StampEffect
<1>5. CASE pc'[p] = "exited"
  <2>1. CoordinatorInTime' /\ \A m \in Cohort : MemberPatient(m)'
    BY <1>3, <1>5 DEF CoordinatorInTime, MemberPatient, Waiting
  <2>2. NobodyAhead'
    <3>1. pc[COORDINATOR_ID] = "exited" => pc'[COORDINATOR_ID] = "exited"
      BY <1>2, <1>5
    <3>2. QED
      BY <1>2, <3>1 DEF TimedIndInv, NobodyAhead
  <2>3. QED
    BY <1>3, <2>1, <2>2 DEF TimedIndInv
<1>6. CASE pc[p] = "sleep" /\ pc'[p] = "switch" /\ now = due[p]
  <2>1. /\ due'[p] >= due[p] + ROUND_TIME - CLOCK_STEP
        /\ due'[p] <= due[p] + ROUND_TIME + CLOCK_STEP
        /\ due'[p] \in Nat
    BY <1>1, <1>4, <1>6, DeadlineBounds DEF TypeOK
  <2>2. CoordinatorInTime'
    <3>1. CASE p = COORDINATOR_ID
      <4>1. SUFFICES ASSUME Waiting(p)
                     PROVE  /\ now <= LatestTimeout(p)'
                            /\ LatestTimeout(p)' <= sentAt + MAX_SLEEP_TIME_COORDINATOR
                                                      + 2 * LATENESS + ROUND_TIME + CLOCK_STEP
        BY <1>2, <1>4, <1>6, <3>1 DEF CoordinatorInTime, Waiting
      <4>2. /\ LatestTimeout(p)' = due'[p] + LATENESS
            /\ LatestTimeout(p) = due[p] + LATENESS + ROUND_TIME + CLOCK_STEP
        BY <1>1, <1>6, <2>1 DEF LatestTimeout
      <4>3. LatestTimeout(p) <= sentAt + MAX_SLEEP_TIME_COORDINATOR
                                  + 2 * LATENESS + ROUND_TIME + CLOCK_STEP
        BY <3>1, <4>1 DEF TimedIndInv, CoordinatorInTime
      <4>4. QED
        BY <1>1, <1>6, <2>1, <4>2, <4>3
    <3>2. QED
      BY <1>3, <3>1
  <2>3. ASSUME NEW m \in Cohort PROVE MemberPatient(m)'
    <3>1. CASE m = p
      <4>1. EarliestTimeout(p) = due[p] + ROUND_TIME - CLOCK_STEP
        BY <1>1, <1>6 DEF EarliestTimeout
      <4>2. EarliestTimeout(p)' = due'[p]
        BY <1>6, <2>1 DEF EarliestTimeout
      <4>3. EarliestTimeout(p)' >= EarliestTimeout(p)
        BY <1>1, <2>1, <4>1, <4>2
      <4>4. EarliestTimeout(p) \in Int /\ EarliestTimeout(p)' \in Int
        BY <1>1, <2>1, <4>1, <4>2
      <4>5. (Waiting(p)' => Waiting(p)) /\ MemberPatient(p)
        BY <1>2, <1>6, <3>1 DEF TimedIndInv, Waiting
      <4> HIDE DEF EarliestTimeout
      <4>6. MemberPatient(p)'
        BY <1>1, <1>2, <1>4, <4>3, <4>4, <4>5 DEF MemberPatient
      <4>7. QED
        BY <3>1, <4>6
    <3>2. QED
      BY <1>3, <3>1
  <2>4. NobodyAhead'
    BY <1>2, <1>6 DEF TimedIndInv, NobodyAhead
  <2>5. QED
    BY <1>3, <2>2, <2>3, <2>4 DEF TimedIndInv
<1>7. QED
  BY <1>2, <1>5, <1>6

\* The coordinator asks for the votes: the members have not heard of it yet.
LEMMA TimedBeginStep ==
  ASSUME SafeMargin, TimedIndInv, IndInv', CoordinatorBegin, Stamp(COORDINATOR_ID)
  PROVE  TimedIndInv'
<1> USE TimesAreNatural, CohortAssumption
<1> DEFINE c == COORDINATOR_ID
<1>1. /\ TypeOK /\ TimedTypeOK /\ TypeOK' /\ IndInv /\ now \in Nat
      /\ pc[c] = "switch" /\ state[c] = "Q" /\ sent = <<>> /\ sent' = <<"CAN_COMMIT">>
      /\ UNCHANGED <<received, replies, crashSignalReceived>>
  BY DEF TimedIndInv, TimedTypeOK, IndInv, CoordinatorBegin, BroadcastHistory, memberVars
<1>2. /\ state'[c] = "W" /\ pc'[c] = "sleep"
      /\ \A q \in Process : q # c => state'[q] = state[q] /\ pc'[q] = pc[q]
  BY <1>1 DEF CoordinatorBegin, TypeOK
<1>3. TimedTypeOK' /\ sentAt' <= now' /\ LeftInTime'
  BY <1>1, <1>2, OthersFrame
<1>4. PICK nap \in Nap(c) : due'[c] = now + nap
  <2>1. due'[c] \in Deadlines(c) /\ pc' \in [Process -> Location]
    BY <1>1, StampEffect DEF TypeOK
  <2>2. QED
    BY <1>1, <1>2, <2>1, DeadlineBounds
<1>5. nap \in Nat /\ nap <= MAX_SLEEP_TIME_COORDINATOR + LATENESS /\ now' = now /\ sentAt' = now
  BY <1>1, StampEffect, NapBounds
<1>6. CoordinatorInTime'
  BY <1>1, <1>2, <1>4, <1>5 DEF CoordinatorInTime, LatestTimeout
<1>7. ASSUME NEW m \in Cohort PROVE received[m] = 0 /\ state[m] \in {"Q", "A"}
  <2>1. received[m] \in Nat /\ received[m] <= Len(sent) /\ Len(sent) = 0
    BY <1>1, SentLength DEF TypeOK
  <2>2. received[m] = 0
    BY <2>1
  <2>3. state[m] \in {"Q", "W", "A", "P", "C"} /\ MemberHistory(m)
    BY <1>1 DEF IndInv, TypeOK, State
  <2>4. QED
    BY <2>2, <2>3 DEF MemberHistory
<1>8. ASSUME NEW m \in Cohort PROVE MemberPatient(m)'
  BY <1>2, <1>7 DEF MemberPatient, Waiting
<1>9. NobodyAhead'
  <2>1. SUFFICES ASSUME NEW m \in Cohort, replies[m] # <<>>, replies[m][1] = Agree
                 PROVE  state[m] # "A"
    BY <1>1, <1>2 DEF NobodyAhead
  <2>2. SUFFICES ASSUME state[m] = "A" PROVE FALSE
    OBVIOUS
  <2>3. replies[m] = <<Veto>>
    BY <1>1, <1>7, <2>2 DEF IndInv, MemberHistory
  <2>4. replies[m][1] = Veto
    BY <2>3
  <2>5. Agree # Veto
    BY DEF Agree, Veto
  <2>6. QED
    BY <2>1, <2>4, <2>5
<1>10. QED
  BY <1>3, <1>6, <1>8, <1>9 DEF TimedIndInv

\* A round ends while every member that awaits its outcome still has time.
LEMMA TimedCloseRound ==
  ASSUME SafeMargin, TimedIndInv, IndInv', Gathering, NEW ok \in BOOLEAN, CloseRound(ok),
         Stamp(COORDINATOR_ID), UNCHANGED <<crashSignalReceived, memberVars>>
  PROVE  TimedIndInv'
<1> USE TimesAreNatural, CohortAssumption
<1> DEFINE c == COORDINATOR_ID
           s == state[c]
<1>1. /\ TypeOK /\ TimedTypeOK /\ TypeOK' /\ IndInv /\ now \in Nat /\ sentAt \in Nat
      /\ due[c] \in Nat /\ pc[c] = "switch" /\ s \in {"W", "P"}
      /\ UNCHANGED <<received, replies, crashSignalReceived>>
  BY DEF TimedIndInv, TimedTypeOK, IndInv, Gathering, memberVars
<1>2. /\ state'[c] = RoundState(s, ok) /\ pc'[c] = "sleep"
      /\ \A q \in Process : q # c => state'[q] = state[q] /\ pc'[q] = pc[q]
      /\ Len(sent') = Len(sent) + 1 /\ sent' # sent
  BY <1>1 DEF CloseRound, TypeOK, RoundMessage, Broadcast
<1>3. TimedTypeOK' /\ sentAt' <= now' /\ LeftInTime'
  BY <1>1, <1>2, OthersFrame
<1>4. PICK nap \in Nap(c) : due'[c] = now + nap
  <2>1. due'[c] \in Deadlines(c) /\ pc' \in [Process -> Location]
    BY <1>1, StampEffect DEF TypeOK
  <2>2. QED
    BY <1>1, <1>2, <2>1, DeadlineBounds
<1>5. nap \in Nat /\ nap <= MAX_SLEEP_TIME_COORDINATOR + LATENESS /\ now' = now /\ sentAt' = now
  BY <1>1, <1>2, StampEffect, NapBounds
<1>6. CoordinatorInTime'
  <2>1. LatestTimeout(c)' = now + nap + LATENESS + (ROUND_TIME + CLOCK_STEP)
    BY <1>2, <1>4 DEF LatestTimeout
  <2>2. QED
    BY <1>1, <1>5, <2>1 DEF CoordinatorInTime
<1>7. now <= sentAt + MAX_SLEEP_TIME_COORDINATOR + 2 * LATENESS + ROUND_TIME + CLOCK_STEP
  <2>1. LatestTimeout(c) \in Nat
    BY <1>1 DEF LatestTimeout
  <2>2. QED
    BY <1>1, <2>1 DEF TimedIndInv, CoordinatorInTime, Waiting
<1>8. ASSUME NEW m \in Cohort PROVE MemberPatient(m)'
  <2>1. /\ UNCHANGED <<state[m], pc[m], due[m], received[m]>>
        /\ received[m] \in Nat /\ received[m] <= Len(sent) /\ Len(sent) \in Nat
        /\ due[m] \in Nat
    BY <1>1, <1>2, StampEffect DEF TypeOK, TimedTypeOK
  <2>2. SUFFICES ASSUME Waiting(m), received[m] = Len(sent)
                 PROVE  EarliestTimeout(m) > now + DELAY
    BY <1>2, <1>5, <2>1 DEF MemberPatient, Waiting, EarliestTimeout
  <2>3. EarliestTimeout(m) >= sentAt + MIN_SLEEP_TIME + ROUND_TIME - CLOCK_STEP
    BY <2>2 DEF TimedIndInv, MemberPatient
  <2>4. EarliestTimeout(m) \in Int
    BY <2>1 DEF EarliestTimeout
  <2>5. MAX_SLEEP_TIME_COORDINATOR + 2 * LATENESS + CLOCK_STEP + DELAY
          < MIN_SLEEP_TIME - CLOCK_STEP
    BY DEF SafeMargin
  <2>6. QED
    BY <1>1, <1>7, <2>3, <2>4, <2>5
<1>9. ASSUME NEW m \in Cohort
      PROVE  /\ state'[c] \in {"P", "C"} => state[m] # "A"
             /\ state'[c] \in {"A", "P"} => state[m] # "C"
  <2>1. CASE s = "W"
    <3>1. ~PrepareSent /\ state[m] # "C"
      BY <1>1, <2>1, SentLength DEF IndInv, MemberHistory, PrepareSent
    <3>2. ASSUME state'[c] \in {"P", "C"} PROVE state[m] # "A"
      <4>1. PrepareSent'
        BY <3>2, IndInvPrepareSent DEF IndInv, BroadcastHistory, PrepareSent
      <4>2. replies[m] # <<>> /\ replies[m][1] = Agree
        BY <1>1, <4>1 DEF IndInv, RoundsUnanimous
      <4>3. QED
        BY <1>1, <2>1, <4>2 DEF TimedIndInv, NobodyAhead
    <3>3. QED
      BY <3>1, <3>2
  <2>2. CASE s = "P"
    BY <1>1, <2>2 DEF TimedIndInv, NobodyAhead
  <2>3. QED
    BY <1>1, <2>1, <2>2
<1>10. NobodyAhead'
  <2>1. state'[c] # "W" /\ \A m \in Cohort : state'[m] = state[m]
    BY <1>1, <1>2 DEF RoundState
  <2>2. QED
    BY <1>9, <2>1 DEF NobodyAhead
<1>11. QED
  BY <1>3, <1>6, <1>8, <1>10 DEF TimedIndInv

\* A turn of receiveFromAll's loop, or its timeout.
LEMMA TimedGatherStep ==
  ASSUME SafeMargin, TimedIndInv, IndInv', Stamp(COORDINATOR_ID),
         CoordinatorTimeout \/ \E m \in Cohort : CoordinatorReceive(m)
  PROVE  TimedIndInv'
<1> USE CohortAssumption
<1> DEFINE c == COORDINATOR_ID
<1>1. Gathering /\ UNCHANGED <<crashSignalReceived, memberVars>>
  BY DEF CoordinatorTimeout, CoordinatorReceive
<1>2. CASE \E ok \in BOOLEAN : CloseRound(ok)
  BY <1>1, <1>2, TimedCloseRound
<1>3. CASE UNCHANGED <<sent, state, pc>>
  <2>1. /\ TypeOK /\ TimedTypeOK /\ TypeOK' /\ UNCHANGED <<received, replies, crashSignalReceived>>
    BY <1>1 DEF TimedIndInv, IndInv, memberVars
  <2>2. TimedTypeOK' /\ sentAt' <= now' /\ LeftInTime'
    BY <1>3, <2>1, OthersFrame DEF Gathering, TimedIndInv, LeftInTime
  <2>3. now' = now /\ sentAt' = sentAt /\ \A q \in Process : due'[q] = due[q]
    <3>1. due'[c] \in Deadlines(c) /\ pc' \in [Process -> Location] /\ pc'[c] = pc[c]
      BY <1>3, <2>1, StampEffect DEF TypeOK
    <3>2. due'[c] = due[c]
      BY <2>1, <3>1, DeadlineBounds
    <3>3. QED
      BY <1>3, <2>1, <3>2, StampEffect
  <2>4. CoordinatorInTime'
    BY <1>3, <2>3, CoordinatorFrame DEF TimedIndInv
  <2>5. ASSUME NEW m \in Cohort PROVE MemberPatient(m)'
    BY <1>3, <2>1, <2>3, MemberFrame DEF TimedIndInv
  <2>6. NobodyAhead'
    BY <1>3, <2>1 DEF TimedIndInv, NobodyAhead
  <2>7. QED
    BY <2>2, <2>4, <2>5, <2>6 DEF TimedIndInv
<1>4. QED
  BY <1>2, <1>3 DEF CoordinatorTimeout, CoordinatorReceive, CheckPackets

\* What the steps of a member have in common: it goes to sleep, and what it has
\* left to wait for is a sleep and a round away.
LEMMA TimedMemberEffect ==
  ASSUME SafeMargin, TimedIndInv, IndInv', NEW m \in Cohort, Stamp(m),
         pc' = [pc EXCEPT ![m] = "sleep"], pc[m] = "switch",
         NEW s, state' = [state EXCEPT ![m] = s],
         \A k \in Cohort : k # m => received'[k] = received[k] /\ replies'[k] = replies[k],
         UNCHANGED <<crashSignalReceived, coordinatorVars>>,
         LET sc == state[COORDINATOR_ID]
             gone == pc[COORDINATOR_ID] = "exited"
         IN /\ s = "A" => \/ sc = "A"
                          \/ gone /\ sc = "W"
                          \/ sc \in {"Q", "W"} /\ replies'[m][1] = Veto
            /\ s = "C" => sc = "C" \/ (gone /\ sc = "P")
  PROVE  TimedIndInv'
<1> USE TimesAreNatural, CohortAssumption
<1> DEFINE c == COORDINATOR_ID
<1>1. /\ TypeOK /\ TimedTypeOK /\ TypeOK' /\ sent' = sent /\ sentAt <= now
      /\ now \in Nat /\ sentAt \in Nat /\ due[m] \in Nat
  BY DEF TimedIndInv, TimedTypeOK, IndInv, coordinatorVars
<1>2. /\ \A q \in Process : q # m => state'[q] = state[q] /\ pc'[q] = pc[q]
      /\ pc'[m] = "sleep" /\ state'[m] = s /\ m # c
  BY <1>1 DEF TypeOK
<1>3. /\ TimedTypeOK' /\ sentAt' <= now' /\ LeftInTime' /\ CoordinatorInTime'
      /\ \A k \in Cohort : k # m => MemberPatient(k)'
  BY <1>1, <1>2, OthersFrame
<1>4. PICK nap \in Nap(m) : due'[m] = now + nap
  <2>1. due'[m] \in Deadlines(m) /\ pc' \in [Process -> Location]
    BY <1>1, StampEffect DEF TypeOK
  <2>2. QED
    BY <1>1, <1>2, <2>1, DeadlineBounds
<1>5. nap \in Nat /\ nap >= MIN_SLEEP_TIME /\ sentAt' = sentAt
  BY <1>1, <1>2, StampEffect, NapBounds
<1>6. MemberPatient(m)'
  <2>1. EarliestTimeout(m)' = now + nap + ROUND_TIME - CLOCK_STEP
    BY <1>1, <1>2, <1>4, <1>5 DEF EarliestTimeout
  <2>2. EarliestTimeout(m)' >= sentAt + MIN_SLEEP_TIME + ROUND_TIME - CLOCK_STEP
    BY <1>1, <1>5, <2>1
  <2>3. DELAY < MIN_SLEEP_TIME
    BY DEF SafeMargin
  <2>4. EarliestTimeout(m)' > sentAt + DELAY
    BY <1>1, <1>5, <2>1, <2>3
  <2>5. QED
    BY <1>5, <2>2, <2>4 DEF MemberPatient
<1>7. NobodyAhead'
  <2>1. Agree # Veto
    BY DEF Agree, Veto
  <2>2. state'[c] = state[c] /\ pc'[c] = pc[c]
    BY <1>2
  <2>3. ASSUME NEW k \in Cohort, k # m
        PROVE  state'[k] = state[k] /\ replies'[k] = replies[k]
    BY <1>2, <2>3
  <2>4. QED
    BY <1>2, <2>1, <2>2, <2>3 DEF TimedIndInv, NobodyAhead
<1>8. QED
  BY <1>3, <1>6, <1>7 DEF TimedIndInv

\* A member receives a packet: it decides only what the coordinator has decided.
LEMMA TimedMemberReceive ==
  ASSUME SafeMargin, TimedIndInv, IndInv', NEW m \in Cohort, MemberReceive(m), Stamp(m)
  PROVE  TimedIndInv'
<1> USE CohortAssumption
<1> DEFINE c == COORDINATOR_ID
           type == sent[received[m] + 1]
           s == MemberNext(state[m], type)
<1>1. /\ TypeOK /\ IndInv /\ BroadcastHistory /\ Listening(m) /\ Pending(m) /\ pc[m] = "switch"
      /\ pc' = [pc EXCEPT ![m] = "sleep"] /\ state' = [state EXCEPT ![m] = s]
      /\ UNCHANGED <<crashSignalReceived, coordinatorVars>>
      /\ state[c] \in {"Q", "W", "A", "P", "C"}
      /\ received[m] + 1 <= Len(sent) /\ Len(sent) \in Nat
  <2>1. IndInv /\ TypeOK /\ BroadcastHistory
    BY DEF TimedIndInv, IndInv
  <2>2. /\ received[m] + 1 <= Len(sent) /\ Len(sent) \in Nat
        /\ state[c] \in {"Q", "W", "A", "P", "C"}
    BY <2>1 DEF MemberReceive, Pending, TypeOK, State
  <2>3. QED
    BY <2>1, <2>2 DEF MemberReceive, Listening
<1>2. \A k \in Cohort : k # m => received'[k] = received[k] /\ replies'[k] = replies[k]
  BY <1>1 DEF MemberReceive, TypeOK
<1>3. /\ s = "A" => state[c] = "A"
      /\ s = "C" => state[c] = "C"
  <2>1. CASE state[m] = "Q" /\ sent[1] = "CAN_COMMIT" /\ received[m] = 0
    BY <2>1 DEF MemberNext
  <2>2. CASE state[m] = "W" /\ received[m] = 1 /\ sent[2] \in {"PREPARE_COMMIT", "DO_ABORT"}
    <3>1. type = sent[2] /\ 2 <= Len(sent)
      BY <1>1, <2>2
    <3>2. s = "A" => sent[2] = "DO_ABORT"
      BY <2>2, <3>1 DEF MemberNext
    <3>3. s # "C"
      BY <2>2, <3>1 DEF MemberNext
    <3>4. sent[2] = "DO_ABORT" => state[c] = "A"
      BY <1>1, <3>1, SentLength DEF BroadcastHistory
    <3>5. QED
      BY <3>2, <3>3, <3>4
  <2>3. CASE state[m] = "P" /\ received[m] = 2 /\ sent[3] \in {"DO_COMMIT", "DO_ABORT"}
    <3>1. type = sent[3] /\ 3 <= Len(sent)
      BY <1>1, <2>3
    <3>2. (s = "A" => sent[3] = "DO_ABORT") /\ (s = "C" => sent[3] = "DO_COMMIT")
      BY <2>3, <3>1 DEF MemberNext
    <3>3. state[c] \in {"A", "C"}
      BY <1>1, <3>1, SentLength
    <3>4. state[c] = "C" => sent[3] = "DO_COMMIT"
      BY <1>1 DEF BroadcastHistory
    <3>5. state[c] = "A" => sent[3] # "DO_COMMIT"
      <4>1. SUFFICES ASSUME state[c] = "A" PROVE sent[3] # "DO_COMMIT"
        OBVIOUS
      <4>2. sent # <<"CAN_COMMIT", "DO_ABORT">>
        <5>1. Len(<<"CAN_COMMIT", "DO_ABORT">>) = 2
          OBVIOUS
        <5>2. QED
          BY <1>1, <3>1, <5>1
      <4>3. QED
        BY <1>1, <4>1, <4>2 DEF BroadcastHistory
    <3>6. QED
      BY <3>2, <3>3, <3>4, <3>5
  <2>4. QED
    BY <1>1, <2>1, <2>2, <2>3, NextBroadcast
<1> HIDE DEF s
<1>4. QED
  BY <1>1, <1>2, <1>3, TimedMemberEffect

\* A receive times out: before the vote it is a veto; after it, the coordinator
\* has left run().
LEMMA TimedMemberTimeout ==
  ASSUME SafeMargin, TimedIndInv, IndInv', NEW m \in Cohort,
         MemberTimeout(m), now >= due[m], ~Overdue(m), Stamp(m)
  PROVE  TimedIndInv'
<1> USE CohortAssumption
<1> DEFINE c == COORDINATOR_ID
           s == TimeoutNext(state[m])
<1>1. /\ TypeOK /\ IndInv /\ Listening(m) /\ pc[m] = "switch" /\ state[m] \in {"Q", "W", "P"}
      /\ pc' = [pc EXCEPT ![m] = "sleep"] /\ state' = [state EXCEPT ![m] = s]
      /\ UNCHANGED <<crashSignalReceived, coordinatorVars, received>>
      /\ replies' = [replies EXCEPT ![m] = @ \o TimeoutReply(state[m])]
      /\ state[c] \in {"Q", "W", "A", "P", "C"}
  BY DEF TimedIndInv, IndInv, MemberTimeout, Listening, TypeOK, State
<1>2. \A k \in Cohort : k # m => received'[k] = received[k] /\ replies'[k] = replies[k]
  BY <1>1 DEF TypeOK
<1>3. CASE state[m] = "Q"
  <2>1. s = "A" /\ replies[m] = <<>> /\ TimeoutReply(state[m]) = <<Veto>>
    BY <1>1, <1>3 DEF IndInv, MemberHistory, TimeoutNext, TimeoutReply
  <2>2. replies'[m] = <<Veto>>
    BY <1>1, <2>1, ShortConcat DEF TypeOK
  <2>3. replies'[m][1] = Veto
    BY <2>2
  <2>4. state[c] \notin {"P", "C"}
    <3>1. ~PrepareSent
      BY <1>1, <2>1 DEF IndInv, RoundsUnanimous
    <3>2. QED
      BY <1>1, <3>1, IndInvPrepareSent
  <2> HIDE DEF s
  <2>5. QED
    BY <1>1, <1>2, <2>1, <2>3, <2>4, TimedMemberEffect
<1>4. CASE state[m] \in {"W", "P"}
  <2>1. pc[c] = "exited" /\ state[c] = state[m]
    BY <1>1, <1>4, TimeoutMeansCrash
  <2>2. s = (IF state[m] = "P" THEN "C" ELSE "A")
    BY DEF TimeoutNext
  <2> HIDE DEF s
  <2>3. QED
    BY <1>1, <1>2, <1>4, <2>1, <2>2, TimedMemberEffect
<1>5. QED
  BY <1>1, <1>3, <1>4

\* Every timed step preserves the invariant.
LEMMA TimedNextIndInv ==
  ASSUME SafeMargin, TimedIndInv, [TimedNext]_timedVars
  PROVE  TimedIndInv'
<1>1. IndInv'
  BY TimedStepIsStep, NextIndInv DEF TimedIndInv
<1>2. ASSUME NEW p \in Process, TimedStep(p) PROVE TimedIndInv'
  <2>1. Stamp(p)
    BY <1>2 DEF TimedStep
  <2>2. CASE (Wake(p) /\ now = due[p]) \/ Finish(p)
    BY <1>1, <2>1, <2>2, TimedControlStep
  <2>3. CASE p = COORDINATOR_ID /\ CoordinatorBegin
    BY <1>1, <2>1, <2>3, TimedBeginStep
  <2>4. CASE /\ p = COORDINATOR_ID
             /\ CoordinatorTimeout \/ \E m \in Cohort : CoordinatorReceive(m)
    BY <1>1, <2>1, <2>4, TimedGatherStep
  <2>5. CASE p \in Cohort /\ MemberReceive(p)
    BY <1>1, <2>1, <2>5, TimedMemberReceive
  <2>6. CASE p \in Cohort /\ MemberTimeout(p) /\ now >= due[p] /\ ~Overdue(p)
    BY <1>1, <2>1, <2>6, TimedMemberTimeout
  <2>7. QED
    BY <1>2, <2>2, <2>3, <2>4, <2>5, <2>6 DEF TimedStep
<1>3. CASE \/ Tick
           \/ \E p \in Process : TimedSignal(p)
           \/ UNCHANGED timedVars
  BY <1>1, <1>3, PassiveStep
<1>4. CASE Terminated /\ UNCHANGED clockVars
  BY <1>1, <1>4, PassiveStep DEF Terminated, timedVars
<1>5. QED
  BY <1>2, <1>3, <1>4 DEF TimedNext

\* With a safe margin the invariant holds of every timed run: whatever the
\* sleeps drawn, the lateness, the delays and the steps of the clocks.
THEOREM TimedInvariance ==
  ASSUME SafeMargin
  PROVE  TimedSafetySpec => []TimedIndInv
<1>1. TimedInit => TimedIndInv
  BY TimedInitIndInv
<1>2. TimedIndInv /\ [TimedNext]_timedVars => TimedIndInv'
  BY TimedNextIndInv
<1>3. QED
  BY <1>1, <1>2, PTL DEF TimedSafetySpec

\* The clock variables have their types.
THEOREM TimedTypeCorrect ==
  ASSUME SafeMargin
  PROVE  TimedSafetySpec => []TimedTypeOK
<1>1. TimedIndInv => TimedTypeOK
  BY DEF TimedIndInv
<1>2. QED
  BY <1>1, TimedInvariance, PTL

\* Who commits has heard a PREPARE_COMMIT, and then the coordinator's state
\* tells on which side everybody is.
LEMMA TimedIndInvAgreement == TimedIndInv => Agreement
<1> SUFFICES ASSUME TimedIndInv, NEW p \in Process, NEW q \in Process,
                    state[p] = "C", state[q] = "A"
             PROVE  FALSE
  BY DEF Agreement
<1> USE CohortAssumption
<1> DEFINE c == COORDINATOR_ID
<1>1. IndInv /\ NobodyAhead /\ state[c] \in {"Q", "W", "A", "P", "C"}
  BY DEF TimedIndInv, TimedTypeOK, TypeOK, State
<1>2. PrepareSent
  BY <1>1, IndInvPrepareSent
<1>3. state[c] \in {"A", "P", "C"}
  <2>1. Len(sent) >= 2
    BY <1>2 DEF PrepareSent
  <2>2. IndInv
    BY <1>1
  <2>3. state[c] # "Q" /\ state[c] # "W"
    <3>1. ~(0 >= 2) /\ ~(1 >= 2)
      OBVIOUS
    <3>2. Len(sent) # 0 /\ Len(sent) # 1
      BY <2>1, <3>1
    <3>3. QED
      BY <2>2, <3>2, SentLength
  <2>4. QED
    BY <1>1, <2>3
<1>4. p = c \/ p \in Cohort
  OBVIOUS
<1>5. q = c \/ q \in Cohort
  OBVIOUS
<1>6. QED
  BY <1>1, <1>3, <1>4, <1>5 DEF NobodyAhead

\* Nobody commits while another one aborts, whoever is killed and whenever, for
\* all times with a safe margin: those of Define.h leave a second for lateness,
\* delays and clock steps.
THEOREM TimedAgreement ==
  ASSUME SafeMargin
  PROVE  TimedSafetySpec => []Agreement
<1>1. QED
  BY TimedIndInvAgreement, TimedInvariance, PTL

-----------------------------------------------------------------------------
(***************************************************************************)
(* The refinement of AtomicCommit.                                         *)
(***************************************************************************)

\* What the abstract variables are for one member or process.
LEMMA BarsInit == Init => Abstract!Init
<1> SUFFICES ASSUME Init PROVE Abstract!Init
  OBVIOUS
<1>1. voteBar = [m \in Cohort |-> "none"]
  BY DEF Init, voteBar
<1>2. outcomeBar = [p \in Process |-> "undecided"]
  BY DEF Init, outcomeBar
<1>3. QED
  BY <1>1, <1>2 DEF Abstract!Init

\* The abstract vote of a member that has voted, and of one that has not.
LEMMA VoteOf ==
  ASSUME NEW m \in Cohort
  PROVE  /\ voteBar[m] \in {"none", "yes", "no"}
         /\ replies[m] = <<>> <=> voteBar[m] = "none"
         /\ voteBar[m] = "yes" <=> replies[m] # <<>> /\ replies[m][1] = Agree
BY DEF voteBar

\* The abstract outcome of a process.
LEMMA OutcomeOf ==
  ASSUME NEW p \in Process
  PROVE  /\ outcomeBar[p] = "committed" <=> state[p] = "C"
         /\ outcomeBar[p] = "aborted" <=> state[p] = "A"
         /\ outcomeBar[p] = "undecided" <=> state[p] \notin {"A", "C"}
BY DEF outcomeBar

\* Where nobody votes and p alone changes its state, p decides as AtomicCommit
\* allows, or does not decide.
LEMMA DecideStep ==
  ASSUME TypeOK, Agreement', PreparedNeedsEveryVote', NEW p \in Process, NEW s,
         state[p] \notin {"A", "C"}, state' = [state EXCEPT ![p] = s],
         \A m \in Cohort : /\ replies'[m] = <<>> <=> replies[m] = <<>>
                           /\ replies[m] # <<>> => replies'[m][1] = replies[m][1]
  PROVE  [Abstract!Next]_<<voteBar, outcomeBar>>
<1>1. state'[p] = s /\ \A q \in Process : q # p => state'[q] = state[q]
  BY DEF TypeOK
<1>2. voteBar' = voteBar
  BY DEF voteBar
<1>3. outcomeBar[p] = "undecided"
  BY OutcomeOf
<1>4. outcomeBar' = [outcomeBar EXCEPT ![p] =
                       CASE s = "C" -> "committed" [] s = "A" -> "aborted" [] OTHER -> "undecided"]
  BY <1>1 DEF outcomeBar
<1>5. CASE s = "C"
  <2>1. outcomeBar' = [outcomeBar EXCEPT ![p] = "committed"]
    BY <1>4, <1>5
  <2>2. \A m \in Cohort : voteBar[m] = "yes"
    <3>1. \A m \in Cohort : replies'[m] # <<>> /\ replies'[m][1] = Agree
      BY <1>1, <1>5 DEF PreparedNeedsEveryVote
    <3>2. QED
      BY <3>1, VoteOf
  <2>3. \A q \in Process : outcomeBar[q] # "aborted"
    BY <1>1, <1>5, OutcomeOf DEF Agreement
  <2>4. Abstract!Commit(p)
    BY <1>2, <1>3, <2>1, <2>2, <2>3 DEF Abstract!Commit, Abstract!NobodyDecided
  <2>5. QED
    BY <2>4 DEF Abstract!Next
<1>6. CASE s = "A"
  <2>1. outcomeBar' = [outcomeBar EXCEPT ![p] = "aborted"]
    BY <1>4, <1>6
  <2>2. \A q \in Process : outcomeBar[q] # "committed"
    BY <1>1, <1>6, OutcomeOf DEF Agreement
  <2>3. Abstract!Abort(p)
    BY <1>2, <1>3, <2>1, <2>2 DEF Abstract!Abort, Abstract!NobodyDecided
  <2>4. QED
    BY <2>3 DEF Abstract!Next
<1>7. CASE s \notin {"A", "C"}
  <2>1. outcomeBar' = outcomeBar
    BY <1>1, <1>7 DEF outcomeBar
  <2>2. QED
    BY <1>2, <2>1
<1>8. QED
  BY <1>5, <1>6, <1>7

\* A member votes: for the transaction when CAN_COMMIT reaches it in time, and
\* otherwise against it, which decides it, too.
LEMMA VoteStep ==
  ASSUME TypeOK, Agreement', NEW m \in Cohort, state[m] = "Q", replies[m] = <<>>,
         \/ state' = [state EXCEPT ![m] = "W"] /\ replies' = [replies EXCEPT ![m] = <<Agree>>]
         \/ state' = [state EXCEPT ![m] = "A"] /\ replies' = [replies EXCEPT ![m] = <<Veto>>]
  PROVE  Abstract!Next
<1>1. voteBar[m] = "none" /\ outcomeBar[m] = "undecided"
  BY VoteOf, OutcomeOf
<1>2. Agree # Veto
  BY DEF Agree, Veto
<1>3. /\ \A q \in Process : q # m => state'[q] = state[q]
      /\ \A k \in Cohort : k # m => replies'[k] = replies[k]
  BY DEF TypeOK
<1>4. CASE state' = [state EXCEPT ![m] = "W"] /\ replies' = [replies EXCEPT ![m] = <<Agree>>]
  <2>1. replies'[m] # <<>> /\ replies'[m][1] = Agree /\ state'[m] = "W"
    BY <1>4 DEF TypeOK
  <2>2. voteBar' = [voteBar EXCEPT ![m] = "yes"]
    BY <1>3, <2>1 DEF voteBar
  <2>3. outcomeBar' = outcomeBar
    BY <1>3, <2>1 DEF outcomeBar
  <2>4. Abstract!Agree(m)
    BY <1>1, <2>2, <2>3 DEF Abstract!Agree
  <2>5. QED
    BY <2>4 DEF Abstract!Next
<1>5. CASE state' = [state EXCEPT ![m] = "A"] /\ replies' = [replies EXCEPT ![m] = <<Veto>>]
  <2>1. replies'[m] # <<>> /\ replies'[m][1] = Veto /\ state'[m] = "A"
    BY <1>5 DEF TypeOK
  <2>2. voteBar' = [voteBar EXCEPT ![m] = "no"]
    BY <1>2, <1>3, <2>1 DEF voteBar
  <2>3. outcomeBar' = [outcomeBar EXCEPT ![m] = "aborted"]
    BY <1>3, <2>1 DEF outcomeBar
  <2>4. \A q \in Process : outcomeBar[q] # "committed"
    BY <1>3, <2>1, OutcomeOf DEF Agreement
  <2>5. Abstract!Veto(m)
    BY <1>1, <2>2, <2>3, <2>4 DEF Abstract!Veto, Abstract!NobodyDecided
  <2>6. QED
    BY <2>5 DEF Abstract!Next
<1>6. QED
  BY <1>4, <1>5

\* A step of the timed run is a step of AtomicCommit, or changes nothing of it.
LEMMA RefineStep ==
  ASSUME TimedIndInv, TimedIndInv', [TimedNext]_timedVars
  PROVE  [Abstract!Next]_<<voteBar, outcomeBar>>
<1> USE CohortAssumption
<1> DEFINE c == COORDINATOR_ID
<1>1. TypeOK /\ IndInv /\ Agreement' /\ PreparedNeedsEveryVote'
  <2>1. TypeOK /\ IndInv /\ IndInv'
    BY DEF TimedIndInv, IndInv
  <2>2. Agreement'
    BY TimedIndInvAgreement, PTL
  <2>3. PreparedNeedsEveryVote'
    BY <2>1, IndInvNeedsEveryVote, PTL
  <2>4. QED
    BY <2>1, <2>2, <2>3
<1>2. CASE UNCHANGED <<state, replies>>
  BY <1>2 DEF voteBar, outcomeBar
<1>3. CASE UNCHANGED replies /\ state[c] \in {"Q", "W", "P"}
           /\ \E s \in State : state' = [state EXCEPT ![c] = s]
  BY <1>1, <1>3, DecideStep
<1>4. ASSUME NEW m \in Cohort, MemberReceive(m) PROVE [Abstract!Next]_<<voteBar, outcomeBar>>
  <2> DEFINE type == sent[received[m] + 1]
             s == MemberNext(state[m], type)
             log == replies[m] \o MemberReply(state[m], type)
  <2>1. /\ Listening(m) /\ Pending(m) /\ replies[m] \in Seq(Reply)
        /\ state' = [state EXCEPT ![m] = s]
        /\ replies' = [replies EXCEPT ![m] = log]
    BY <1>1, <1>4 DEF MemberReceive, TypeOK
  <2>2. CASE state[m] = "Q" /\ received[m] = 0 /\ replies[m] = <<>> /\ sent[1] = "CAN_COMMIT"
    <3>1. s = "W" /\ log = <<Agree>>
      BY <2>2 DEF MemberNext, MemberReply
    <3>2. QED
      BY <1>1, <2>1, <2>2, <3>1, VoteStep
  <2>3. CASE state[m] \in {"W", "P"} /\ replies[m] \in {<<Agree>>, <<Agree, Ack>>}
    <3>1. /\ replies[m] # <<>> /\ MemberReply(state[m], type) \in Seq(Reply)
      BY <2>3 DEF MemberReply, Reply
    <3>2. log # <<>> /\ log[1] = replies[m][1]
      <4>1. CASE MemberReply(state[m], type) = <<>>
        <5>1. log = replies[m]
          BY <2>1, <4>1
        <5>2. QED
          BY <3>1, <5>1
      <4>2. CASE state[m] = "W" /\ MemberReply(state[m], type) = <<Ack>>
        <5>1. replies[m] = <<Agree>>
          BY <1>1, <4>2 DEF IndInv, MemberHistory
        <5>2. log = <<Agree, Ack>>
          BY <4>2, <5>1, ShortConcat
        <5>3. QED
          BY <5>1, <5>2
      <4>3. QED
        BY <2>3, <4>1, <4>2 DEF MemberReply
    <3>3. \A k \in Cohort : /\ replies'[k] = <<>> <=> replies[k] = <<>>
                            /\ replies[k] # <<>> => replies'[k][1] = replies[k][1]
      BY <1>1, <2>1, <3>1, <3>2 DEF TypeOK
    <3> HIDE DEF s
    <3>4. QED
      BY <1>1, <2>1, <2>3, <3>3, DecideStep
  <2>4. QED
    BY <1>1, <2>1, <2>2, <2>3, NextBroadcast
<1>5. ASSUME NEW m \in Cohort, MemberTimeout(m) PROVE [Abstract!Next]_<<voteBar, outcomeBar>>
  <2> DEFINE s == TimeoutNext(state[m])
  <2>1. /\ state' = [state EXCEPT ![m] = s] /\ state[m] \in {"Q", "W", "P"}
        /\ replies' = [replies EXCEPT ![m] = @ \o TimeoutReply(state[m])]
        /\ replies[m] \in Seq(Reply)
    BY <1>1, <1>5 DEF MemberTimeout, Listening, TypeOK
  <2>2. CASE state[m] = "Q"
    <3>1. s = "A" /\ replies[m] = <<>> /\ TimeoutReply(state[m]) = <<Veto>>
      BY <1>1, <2>2 DEF IndInv, MemberHistory, TimeoutNext, TimeoutReply
    <3>2. replies' = [replies EXCEPT ![m] = <<Veto>>]
      BY <2>1, <3>1, ShortConcat
    <3>3. QED
      BY <1>1, <2>1, <2>2, <3>1, <3>2, VoteStep
  <2>3. CASE state[m] \in {"W", "P"}
    <3>1. replies' = replies
      BY <1>1, <2>1, <2>3 DEF TimeoutReply, TypeOK
    <3> HIDE DEF s
    <3>2. QED
      BY <1>1, <2>1, <2>3, <3>1, DecideStep
  <2>4. QED
    BY <2>1, <2>2, <2>3
<1>6. ASSUME NEW p \in Process, Step(p) PROVE [Abstract!Next]_<<voteBar, outcomeBar>>
  <2>1. CASE Wake(p) \/ Finish(p)
    BY <1>2, <2>1 DEF Wake, Finish, memberVars
  <2>2. CASE CoordinatorBegin
    BY <1>3, <2>2 DEF CoordinatorBegin, memberVars, State
  <2>3. CASE CoordinatorTimeout \/ \E m \in Cohort : CoordinatorReceive(m)
    <3>1. Gathering /\ UNCHANGED replies
      BY <2>3 DEF CoordinatorTimeout, CoordinatorReceive, memberVars
    <3>2. CASE UNCHANGED state
      BY <1>2, <3>1, <3>2
    <3>3. CASE \E ok \in BOOLEAN : CloseRound(ok)
      BY <1>3, <3>1, <3>3 DEF CloseRound, RoundState, State, Gathering
    <3>4. QED
      BY <2>3, <3>2, <3>3 DEF CoordinatorTimeout, CoordinatorReceive, CheckPackets
  <2>4. QED
    BY <1>4, <1>5, <1>6, <2>1, <2>2, <2>3 DEF Step, CoordinatorStep, MemberStep
<1>7. [Next]_vars
  BY TimedStepIsStep
<1>8. QED
  BY <1>2, <1>6, <1>7 DEF Next, Signal, Terminated, vars, memberVars

\* With a safe margin the timed protocol implements AtomicCommit, for every
\* cohort and every set of processes that may be killed.
THEOREM TimedImplementsAtomicCommit ==
  ASSUME SafeMargin
  PROVE  TimedSafetySpec => ImplementsAtomicCommit
<1>1. TimedInit => Abstract!Init
  BY BarsInit DEF TimedInit
<1>2. TimedIndInv /\ TimedIndInv' /\ [TimedNext]_timedVars
        => [Abstract!Next]_<<voteBar, outcomeBar>>
  BY RefineStep
<1>3. QED
  BY <1>1, <1>2, TimedInvariance, PTL DEF TimedSafetySpec, ImplementsAtomicCommit, Abstract!Spec

-----------------------------------------------------------------------------
(***************************************************************************)
(* A timeout means a crash, once the votes are being counted: for all      *)
(* times with a safe margin on the side of the members, and one for the    *)
(* acknowledgements on the side of the coordinator.                        *)
(***************************************************************************)

USE DEF Process

AwaitsAcks == state[COORDINATOR_ID] = "P" /\ pc[COORDINATOR_ID] # "exited"

\* While the coordinator waits for acknowledgements PREPARE_COMMIT is its last
\* broadcast, every member has voted, and none has decided.
LEMMA WhileAwaiting ==
  ASSUME TimedIndInv, AwaitsAcks, NEW m \in Cohort
  PROVE  /\ Len(sent) = 2 /\ PrepareSent
         /\ state[m] \in {"W", "P"}
         /\ state[m] = "W" => received[m] = 1 /\ replies[m] = <<Agree>>
         /\ state[m] = "P" => received[m] = 2 /\ replies[m] = <<Agree, Ack>>
<1>1. IndInv /\ NobodyAhead /\ state[m] \in {"Q", "W", "A", "P", "C"}
  BY DEF TimedIndInv, IndInv, TypeOK, State
<1>2. sent = <<"CAN_COMMIT", "PREPARE_COMMIT">>
  BY <1>1 DEF IndInv, BroadcastHistory, AwaitsAcks
<1>3. Len(sent) = 2 /\ PrepareSent
  BY <1>2 DEF PrepareSent
<1>4. replies[m] # <<>>
  BY <1>1, <1>3 DEF IndInv, RoundsUnanimous
<1>5. state[m] \in {"W", "P"}
  BY <1>1, <1>4 DEF IndInv, MemberHistory, NobodyAhead, AwaitsAcks
<1>6. QED
  BY <1>1, <1>3, <1>5 DEF IndInv, MemberHistory

\* The same of all members at once, which holds after a step as well.
AllVoted ==
  \A m \in Cohort : /\ state[m] \in {"W", "P"}
                    /\ state[m] = "W" => received[m] = 1
                    /\ state[m] = "P" => replies[m] = <<Agree, Ack>>

LEMMA AllVotedWhileAwaiting == TimedIndInv /\ AwaitsAcks => AllVoted
BY WhileAwaiting DEF AllVoted

\* What concerns member m is as it was.
LEMMA NappingFrame ==
  ASSUME NEW m \in Cohort, Napping(m), UNCHANGED <<state[m], pc[m], due[m], now>>
  PROVE  Napping(m)'
BY DEF Napping

LEMMA PromptFrame ==
  ASSUME NEW m \in Cohort, PromptAck(m),
         UNCHANGED <<state[m], pc[m], due[m], repliedAt[m], sentAt, now>>
  PROVE  PromptAck(m)'
BY DEF PromptAck

\* At the start nobody has voted and everybody is asleep.
LEMMA AcksInit == TimedInit => AcksInTime
<1> SUFFICES ASSUME TimedInit PROVE AcksInTime
  OBVIOUS
<1> USE TimesAreNatural
<1>1. now = 0 /\ \A p \in Process : state[p] = "Q" /\ due[p] \in Nat
  BY DEF TimedInit, Init
<1>2. QED
  BY <1>1 DEF AcksInTime, Napping

-----------------------------------------------------------------------------
\* Time passes, a signal arrives, or nothing happens.  A member that is awake
\* has PREPARE_COMMIT before it, which lets no more time pass than its delay.
LEMMA AcksPassive ==
  ASSUME AckMargin, TimedIndInv, TimedIndInv', AcksInTime,
         \/ Tick
         \/ \E p \in Process : TimedSignal(p)
         \/ UNCHANGED timedVars
  PROVE  AcksInTime'
<1> USE TimesAreNatural, CohortAssumption
<1>1. /\ UNCHANGED <<state, pc, sent, received, responders, due, sentAt, repliedAt>>
      /\ now' = now \/ (now' = now + 1 /\ \A p \in Process : ~Urgent(p))
  BY DEF Tick, TimedSignal, Signal, timedVars, clockVars, vars, coordinatorVars, memberVars
<1>2. CASE now' = now
  BY <1>1, <1>2 DEF AcksInTime, Napping, PromptAck, EarliestTimeout
<1>3. CASE now' = now + 1 /\ \A p \in Process : ~Urgent(p)
  <2>1. ASSUME NEW m \in Cohort PROVE now \in Nat /\ sentAt \in Nat /\ due[m] \in Nat /\ received[m] \in Nat
    BY DEF TimedIndInv, TimedTypeOK, TypeOK
  <2>2. ASSUME NEW m \in Cohort PROVE Napping(m)'
    <3>1. SUFFICES ASSUME pc[m] = "sleep"
                   PROVE  /\ now + 1 <= due[m]
                          /\ state[m] = "W" => due[m] <= now + 1 + MAX_SLEEP_TIME + LATENESS
      BY <1>1, <1>3 DEF Napping
    <3>2. now < due[m]
      BY <1>3, <2>1, <3>1 DEF Urgent
    <3>3. state[m] = "W" => due[m] <= now + MAX_SLEEP_TIME + LATENESS
      BY <3>1 DEF AcksInTime, Napping
    <3>4. QED
      BY <2>1, <3>2, <3>3
  <2>3. ASSUME AwaitsAcks, NEW m \in Cohort PROVE PromptAck(m)'
    <3>1. PromptAck(m)
      BY <2>3 DEF AcksInTime, AwaitsAcks
    <3>2. ASSUME state[m] = "W", pc[m] = "switch"
          PROVE  now + 1 <= sentAt + MAX_SLEEP_TIME + LATENESS
      <4>1. Pending(m) /\ Listening(m)
        BY <2>3, <3>2, WhileAwaiting DEF Pending, Listening
      <4>2. ~(now >= sentAt + DELAY)
        BY <1>3, <3>2, <4>1 DEF Urgent, PacketUrgent, Receiving
      <4>3. QED
        BY <2>1, <4>2 DEF AckMargin
    <3>3. QED
      BY <1>1, <1>3, <3>1, <3>2 DEF PromptAck
  <2>4. QED
    BY <1>1, <2>2, <2>3 DEF AcksInTime, EarliestTimeout, AwaitsAcks
<1>4. QED
  BY <1>1, <1>2, <1>3

\* A process wakes, or leaves run() decided: a member wakes when its sleep is
\* over, the coordinator has its round still before it.
LEMMA AcksControl ==
  ASSUME TimedIndInv, TimedIndInv', AcksInTime, NEW p \in Process, Stamp(p),
         (Wake(p) /\ now = due[p]) \/ Finish(p)
  PROVE  AcksInTime'
<1> USE TimesAreNatural, CohortAssumption
<1> DEFINE c == COORDINATOR_ID
<1>1. /\ TypeOK /\ TimedTypeOK /\ TypeOK' /\ now \in Nat /\ sentAt \in Nat /\ due[p] \in Nat
  BY DEF TimedIndInv, TimedTypeOK
<1>2. /\ UNCHANGED <<state, sent, received, replies, responders>>
      /\ \A q \in Process : q # p => pc'[q] = pc[q]
      /\ pc'[p] = "exited" \/ (pc[p] = "sleep" /\ pc'[p] = "switch" /\ now = due[p])
  BY <1>1 DEF Wake, Finish, coordinatorVars, memberVars, TypeOK
<1>3. /\ now' = now /\ sentAt' = sentAt /\ due'[p] \in Deadlines(p)
      /\ \A q \in Process : q # p => due'[q] = due[q]
  BY <1>1, <1>2, StampEffect
<1>4. \A m \in Cohort : repliedAt'[m] = repliedAt[m]
  BY <1>2 DEF Stamp
<1>5. ASSUME NEW m \in Cohort PROVE Napping(m)'
  <2>1. CASE m = p
    BY <1>2, <2>1 DEF Napping
  <2>2. CASE m # p
    BY <1>2, <1>3, <2>2, NappingFrame DEF AcksInTime
  <2>3. QED
    BY <2>1, <2>2
<1>6. ASSUME AwaitsAcks' PROVE AwaitsAcks
  BY <1>2, <1>6 DEF AwaitsAcks
<1>7. ASSUME AwaitsAcks', NEW m \in Cohort PROVE PromptAck(m)'
  <2>1. PromptAck(m)
    BY <1>6, <1>7 DEF AcksInTime, AwaitsAcks
  <2>2. CASE m = p
    <3>1. state[m] \in {"W", "P"}
      BY <1>6, <1>7, WhileAwaiting
    <3>2. pc'[m] = "switch" /\ state[m] = "W" => now <= sentAt + MAX_SLEEP_TIME + LATENESS
      BY <1>2, <2>1, <2>2 DEF PromptAck
    <3>3. QED
      BY <1>2, <1>3, <1>4, <2>1, <2>2, <3>2 DEF PromptAck
  <2>3. CASE m # p
    BY <1>2, <1>3, <1>4, <2>1, <2>3, PromptFrame
  <2>4. QED
    BY <2>2, <2>3
<1>8. ASSUME AwaitsAcks' PROVE EarliestTimeout(c)' >= EarliestTimeout(c)
  <2>1. CASE p = c
    <3>1. pc[p] = "sleep" /\ pc'[p] = "switch" /\ now = due[p]
      BY <1>2, <1>8, <2>1 DEF AwaitsAcks
    <3>2. due'[p] >= due[p] + ROUND_TIME - CLOCK_STEP /\ due'[p] \in Nat
      BY <1>1, <1>3, <3>1, DeadlineBounds DEF TypeOK
    <3>3. EarliestTimeout(p) = due[p] + ROUND_TIME - CLOCK_STEP /\ EarliestTimeout(p)' = due'[p]
      BY <1>1, <3>1, <3>2 DEF EarliestTimeout
    <3>4. QED
      BY <2>1, <3>2, <3>3
  <2>2. CASE p # c
    <3>1. EarliestTimeout(c)' = EarliestTimeout(c) /\ EarliestTimeout(c) \in Int
      BY <1>1, <1>2, <1>3, <2>2 DEF EarliestTimeout, TimedTypeOK
    <3>2. QED
      BY <3>1
  <2>3. QED
    BY <2>1, <2>2
<1>9. ASSUME AwaitsAcks'
      PROVE  /\ responders' # Cohort
             /\ EarliestTimeout(c)' >= sentAt' + MIN_SLEEP_TIME_COORDINATOR + ROUND_TIME - CLOCK_STEP
  <2>1. /\ responders # Cohort
        /\ EarliestTimeout(c) >= sentAt + MIN_SLEEP_TIME_COORDINATOR + ROUND_TIME - CLOCK_STEP
    BY <1>6, <1>9 DEF AcksInTime, AwaitsAcks
  <2>2. EarliestTimeout(c) \in Int /\ EarliestTimeout(c)' \in Int
    BY DEF EarliestTimeout, TimedIndInv, TimedTypeOK
  <2>3. EarliestTimeout(c)' >= EarliestTimeout(c)
    BY <1>8, <1>9
  <2> HIDE DEF EarliestTimeout
  <2>4. QED
    BY <1>1, <1>2, <1>3, <2>1, <2>2, <2>3
<1>10. QED
  BY <1>5, <1>7, <1>9 DEF AcksInTime, AwaitsAcks

\* The coordinator asks for the votes: it does not wait for acknowledgements yet.
LEMMA AcksBegin ==
  ASSUME TimedIndInv, TimedIndInv', AcksInTime, CoordinatorBegin, Stamp(COORDINATOR_ID)
  PROVE  AcksInTime'
<1> USE CohortAssumption
<1> DEFINE c == COORDINATOR_ID
<1>1. /\ TypeOK /\ TimedTypeOK /\ TypeOK'
      /\ state' = [state EXCEPT ![c] = "W"] /\ pc' = [pc EXCEPT ![c] = "sleep"]
  BY DEF TimedIndInv, TimedTypeOK, CoordinatorBegin
<1>2. state'[c] = "W"
  BY <1>1 DEF TypeOK
<1>3. now' = now /\ \A m \in Cohort : UNCHANGED <<state[m], pc[m], due[m]>>
  BY <1>1, StampEffect DEF TypeOK
<1>4. QED
  BY <1>2, <1>3, NappingFrame DEF AcksInTime

\* A round ends.  When it is that of the votes, every member that has voted is
\* asleep for no longer than a sleep, or awake and about to listen.
LEMMA AcksCloseRound ==
  ASSUME TimedIndInv, TimedIndInv', AcksInTime, Gathering, NEW ok \in BOOLEAN, CloseRound(ok),
         ok => Cohort # {}, Stamp(COORDINATOR_ID), UNCHANGED <<crashSignalReceived, memberVars>>
  PROVE  AcksInTime'
<1> USE TimesAreNatural, CohortAssumption
<1> DEFINE c == COORDINATOR_ID
<1>1. /\ TypeOK /\ TimedTypeOK /\ TypeOK' /\ IndInv /\ now \in Nat /\ due \in [Process -> Nat]
      /\ pc[c] = "switch" /\ state[c] \in {"W", "P"}
      /\ UNCHANGED <<received, replies>>
  BY DEF TimedIndInv, TimedTypeOK, Gathering, memberVars
<1>2. /\ state'[c] = RoundState(state[c], ok) /\ pc'[c] = "sleep" /\ responders' = {}
      /\ \A q \in Process : q # c => state'[q] = state[q] /\ pc'[q] = pc[q]
      /\ Len(sent') = Len(sent) + 1 /\ sent' # sent
  BY <1>1 DEF CloseRound, TypeOK, RoundMessage, Broadcast
<1>3. PICK nap \in Nap(c) : due'[c] = now + nap
  <2>1. due'[c] \in Deadlines(c) /\ pc' \in [Process -> Location]
    BY <1>1, StampEffect DEF TypeOK
  <2>2. QED
    BY <1>1, <1>2, <2>1, DeadlineBounds
<1>4. /\ nap \in Nat /\ nap >= MIN_SLEEP_TIME_COORDINATOR /\ now' = now /\ sentAt' = now
      /\ \A m \in Cohort : UNCHANGED <<state[m], pc[m], due[m]>>
  BY <1>1, <1>2, StampEffect, NapBounds
<1>5. ASSUME NEW m \in Cohort PROVE Napping(m)'
  BY <1>4, NappingFrame DEF AcksInTime
<1>6. ASSUME AwaitsAcks' PROVE ok /\ state[c] = "W"
  BY <1>1, <1>2, <1>6 DEF AwaitsAcks, RoundState
<1>7. ASSUME AwaitsAcks', NEW m \in Cohort PROVE PromptAck(m)'
  <2>1. state[m] # "P"
    BY <1>1, <1>6, <1>7, SentLength DEF IndInv, MemberHistory, PrepareSent
  <2>2. state[m] = "W" /\ pc[m] = "sleep" => due[m] <= now + MAX_SLEEP_TIME + LATENESS
    BY DEF AcksInTime, Napping
  <2>3. QED
    BY <1>1, <1>4, <2>1, <2>2 DEF PromptAck
<1>8. EarliestTimeout(c)' >= sentAt' + MIN_SLEEP_TIME_COORDINATOR + ROUND_TIME - CLOCK_STEP
  BY <1>1, <1>2, <1>3, <1>4 DEF EarliestTimeout
<1>9. QED
  BY <1>2, <1>5, <1>6, <1>7, <1>8 DEF AcksInTime, AwaitsAcks

\* A turn of receiveFromAll's loop, or its timeout: it goes on only while some
\* reply is missing.
LEMMA AcksGather ==
  ASSUME TimedIndInv, TimedIndInv', AcksInTime, Stamp(COORDINATOR_ID),
         CoordinatorTimeout \/ \E m \in Cohort : CoordinatorReceive(m)
  PROVE  AcksInTime'
<1> USE CohortAssumption
<1> DEFINE c == COORDINATOR_ID
<1>1. Gathering /\ UNCHANGED <<crashSignalReceived, memberVars>>
  BY DEF CoordinatorTimeout, CoordinatorReceive
<1>2. CASE \E ok \in BOOLEAN : CloseRound(ok) /\ (ok => Cohort # {})
  BY <1>1, <1>2, AcksCloseRound
<1>3. CASE UNCHANGED <<sent, state, pc>> /\ \E m \in Cohort : responders' = responders \cup {m}
                                                       /\ ~AllResponded(responders')
  <2>1. /\ TypeOK /\ TimedTypeOK /\ TypeOK' /\ UNCHANGED replies
    BY <1>1 DEF TimedIndInv, TimedTypeOK, memberVars
  <2>2. now' = now /\ sentAt' = sentAt /\ \A q \in Process : due'[q] = due[q]
    <3>1. due'[c] \in Deadlines(c) /\ pc' \in [Process -> Location] /\ pc'[c] = pc[c]
      BY <1>3, <2>1, StampEffect DEF TypeOK
    <3>2. due'[c] = due[c]
      BY <2>1, <3>1, DeadlineBounds
    <3>3. QED
      BY <1>3, <2>1, <3>2, StampEffect
  <2>3. \A m \in Cohort : repliedAt'[m] = repliedAt[m]
    BY <2>1 DEF Stamp
  <2>4. responders' # Cohort
    BY <1>3, AllRespondedIsAll DEF AllResponded
  <2>5. ASSUME NEW m \in Cohort PROVE Napping(m)'
    BY <1>3, <2>2, NappingFrame DEF AcksInTime
  <2>6. ASSUME AwaitsAcks', NEW m \in Cohort PROVE PromptAck(m)'
    BY <1>3, <2>2, <2>3, <2>6, PromptFrame DEF AcksInTime, AwaitsAcks
  <2>7. EarliestTimeout(c)' = EarliestTimeout(c)
    BY <1>3, <2>2 DEF EarliestTimeout
  <2>8. QED
    BY <1>3, <2>2, <2>4, <2>5, <2>6, <2>7 DEF AcksInTime, AwaitsAcks
<1>4. QED
  BY <1>2, <1>3 DEF CoordinatorTimeout, CoordinatorReceive, CheckPackets

\* A member's step puts it to sleep; the one that acknowledges was awake, and so
\* in time.
LEMMA AcksMember ==
  ASSUME TimedIndInv, TimedIndInv', AcksInTime, NEW m \in Cohort, MemberStep(m), Stamp(m)
  PROVE  AcksInTime'
<1> USE TimesAreNatural, CohortAssumption
<1> DEFINE c == COORDINATOR_ID
<1>1. /\ TypeOK /\ TimedTypeOK /\ TypeOK' /\ IndInv /\ IndInv' /\ now \in Nat
      /\ repliedAt \in [Cohort -> Nat]
      /\ Listening(m) /\ pc[m] = "switch" /\ pc'[m] = "sleep" /\ m # c
      /\ \A q \in Process : q # m => state'[q] = state[q] /\ pc'[q] = pc[q]
      /\ \A k \in Cohort : k # m => replies'[k] = replies[k]
      /\ UNCHANGED <<sent, responders>>
  <2>1. /\ TypeOK /\ TimedTypeOK /\ TypeOK' /\ IndInv /\ IndInv' /\ now \in Nat
        /\ repliedAt \in [Cohort -> Nat]
    BY DEF TimedIndInv, TimedTypeOK
  <2>2. /\ Listening(m) /\ pc' = [pc EXCEPT ![m] = "sleep"]
        /\ \E s : state' = [state EXCEPT ![m] = s]
        /\ \E r : replies' = [replies EXCEPT ![m] = r]
        /\ UNCHANGED coordinatorVars
    BY DEF MemberStep, MemberReceive, MemberTimeout
  <2>3. QED
    BY <2>1, <2>2 DEF Listening, TypeOK, coordinatorVars
<1>2. PICK nap \in Nap(m) : due'[m] = now + nap
  <2>1. due'[m] \in Deadlines(m) /\ pc' \in [Process -> Location]
    BY <1>1, StampEffect DEF TypeOK
  <2>2. QED
    BY <1>1, <2>1, DeadlineBounds
<1>3. /\ nap \in Nat /\ nap <= MAX_SLEEP_TIME + LATENESS /\ now' = now /\ sentAt' = sentAt
      /\ \A q \in Process : q # m => due'[q] = due[q]
  BY <1>1, <1>2, StampEffect, NapBounds
<1>4. ASSUME NEW k \in Cohort PROVE Napping(k)'
  <2>1. CASE k = m
    BY <1>1, <1>2, <1>3, <2>1 DEF Napping
  <2>2. CASE k # m
    BY <1>1, <1>3, <2>2, NappingFrame DEF AcksInTime
  <2>3. QED
    BY <2>1, <2>2
<1>5. AwaitsAcks' <=> AwaitsAcks
  BY <1>1 DEF AwaitsAcks
<1>6. ASSUME AwaitsAcks, NEW k \in Cohort PROVE PromptAck(k)'
  <2>1. PromptAck(k)
    BY <1>6 DEF AcksInTime, AwaitsAcks
  <2>2. CASE k # m
    <3>1. repliedAt'[k] = repliedAt[k]
      BY <1>1, <2>2 DEF Stamp
    <3>2. QED
      BY <1>1, <1>3, <2>1, <2>2, <3>1, PromptFrame
  <2>3. CASE k = m
    <3>1. /\ Len(sent) = 2
          /\ state[m] = "W" => received[m] = 1 /\ replies[m] = <<Agree>>
          /\ state[m] = "P" => received[m] = 2
          /\ state[m] \in {"W", "P"}
      BY <1>6, WhileAwaiting
    <3>2. /\ state'[m] \in {"W", "P"}
          /\ state'[m] = "W" => received'[m] = 1
          /\ state'[m] = "P" => replies'[m] = <<Agree, Ack>>
      <4>1. AllVoted'
        BY <1>5, <1>6, AllVotedWhileAwaiting, PTL
      <4>2. QED
        BY <4>1 DEF AllVoted
    <3>3. MemberReceive(m)
      <4>1. ~MemberTimeout(m)
        BY <1>1, <3>1, <3>2 DEF MemberTimeout, TimeoutNext, TypeOK
      <4>2. QED
        BY <4>1 DEF MemberStep
    <3>4. state[m] = "W" /\ received'[m] = 2
      BY <1>1, <3>1, <3>3 DEF MemberReceive, Pending, TypeOK
    <3>5. replies[m] # replies'[m] /\ state'[m] = "P"
      <4>1. state'[m] = "P" /\ replies'[m] = <<Agree, Ack>>
        BY <3>2, <3>4
      <4>2. Len(replies[m]) = 1 /\ Len(replies'[m]) = 2
        BY <3>1, <3>4, <4>1
      <4>3. QED
        BY <4>1, <4>2
    <3>6. repliedAt'[m] = now
      BY <3>5 DEF Stamp
    <3>7. now <= sentAt + MAX_SLEEP_TIME + LATENESS
      BY <1>1, <2>1, <2>3, <3>4 DEF PromptAck
    <3>8. QED
      BY <1>3, <2>3, <3>5, <3>6, <3>7 DEF PromptAck
  <2>4. QED
    BY <2>2, <2>3
<1>7. EarliestTimeout(c)' = EarliestTimeout(c)
  BY <1>1, <1>3 DEF EarliestTimeout
<1>8. QED
  BY <1>1, <1>3, <1>4, <1>5, <1>6, <1>7 DEF AcksInTime, AwaitsAcks

\* Every timed step preserves it.
LEMMA AcksNext ==
  ASSUME AckMargin, TimedIndInv, TimedIndInv', AcksInTime, [TimedNext]_timedVars
  PROVE  AcksInTime'
<1>1. ASSUME NEW p \in Process, TimedStep(p) PROVE AcksInTime'
  <2>1. Stamp(p)
    BY <1>1 DEF TimedStep
  <2>2. CASE (Wake(p) /\ now = due[p]) \/ Finish(p)
    BY <2>1, <2>2, AcksControl
  <2>3. CASE p = COORDINATOR_ID /\ CoordinatorBegin
    BY <2>1, <2>3, AcksBegin
  <2>4. CASE /\ p = COORDINATOR_ID
             /\ CoordinatorTimeout \/ \E m \in Cohort : CoordinatorReceive(m)
    BY <2>1, <2>4, AcksGather
  <2>5. CASE p \in Cohort /\ MemberStep(p)
    BY <2>1, <2>5, AcksMember
  <2>6. QED
    BY <1>1, <2>2, <2>3, <2>4, <2>5 DEF TimedStep, MemberStep
<1>2. CASE \/ Tick
           \/ \E p \in Process : TimedSignal(p)
           \/ UNCHANGED timedVars
  BY <1>2, AcksPassive
<1>3. CASE Terminated /\ UNCHANGED clockVars
  BY <1>3, AcksPassive DEF Terminated, timedVars
<1>4. QED
  BY <1>1, <1>2, <1>3 DEF TimedNext

\* The invariant holds of every timed run with both margins.
THEOREM AcksInvariance ==
  ASSUME SafeMargin, AckMargin
  PROVE  TimedSafetySpec => []AcksInTime
<1>1. TimedIndInv /\ TimedIndInv' /\ AcksInTime /\ [TimedNext]_timedVars => AcksInTime'
  BY AcksNext
<1>2. QED
  BY <1>1, AcksInit, TimedInvariance, PTL DEF TimedSafetySpec

-----------------------------------------------------------------------------
(***************************************************************************)
(* A timed receive returns nothing only when its time is over and nothing  *)
(* that should be there by then is on its way.                             *)
(***************************************************************************)

\* A step of p moves nobody else.
LEMMA StepMovesOne ==
  ASSUME TypeOK, NEW p \in Process, TimedStep(p), NEW q \in Process, q # p
  PROVE  pc'[q] = pc[q]
<1> USE CohortAssumption
<1>1. CASE Wake(p) \/ Finish(p)
  BY <1>1 DEF Wake, Finish, TypeOK
<1>2. CASE /\ p = COORDINATOR_ID
           /\ \/ CoordinatorBegin \/ CoordinatorTimeout
              \/ \E m \in Cohort : CoordinatorReceive(m)
  <2>1. pc' = pc \/ pc' = [pc EXCEPT ![p] = "sleep"]
    BY <1>2 DEF CoordinatorBegin, CoordinatorReceive, CoordinatorTimeout, CloseRound
  <2>2. QED
    BY <2>1 DEF TypeOK
<1>3. CASE p \in Cohort /\ (MemberReceive(p) \/ MemberTimeout(p))
  BY <1>3 DEF MemberReceive, MemberTimeout, TypeOK
<1>4. QED
  BY <1>1, <1>2, <1>3 DEF TimedStep

\* Who goes from the switch to sleep neither wakes nor leaves run().
LEMMA NoWake ==
  ASSUME TypeOK, NEW p \in Process, pc[p] = "switch", pc'[p] = "sleep"
  PROVE  ~Wake(p) /\ ~Finish(p)
<1>1. Finish(p) => pc'[p] = "exited"
  BY DEF Finish, TypeOK
<1>2. QED
  BY <1>1 DEF Wake

LEMMA MemberTimeoutIsDue ==
  ASSUME TypeOK, [TimedNext]_timedVars, NEW m \in Cohort, MemberTimeout(m)
  PROVE  now >= due[m] /\ ~Overdue(m)
<1> USE CohortAssumption
<1>1. pc[m] = "switch" /\ pc'[m] = "sleep" /\ received' = received
  BY DEF MemberTimeout, Listening, TypeOK
<1>2. PICK p \in Process : TimedStep(p)
  BY <1>1 DEF TimedNext, TimedSignal, Signal, Tick, Terminated, timedVars, vars
<1>3. p = m
  BY <1>1, <1>2, StepMovesOne
<1>4. ~Wake(m) /\ ~Finish(m)
  BY <1>1, NoWake
<1>5. ~MemberReceive(m)
  <2>1. MemberReceive(m) => received'[m] = received[m] + 1 /\ received[m] \in Nat
    BY DEF MemberReceive, TypeOK
  <2>2. QED
    BY <1>1, <2>1
<1>6. QED
  BY <1>2, <1>3, <1>4, <1>5 DEF TimedStep

LEMMA CoordinatorTimeoutIsDue ==
  ASSUME TypeOK, [TimedNext]_timedVars, CoordinatorTimeout
  PROVE  now >= due[COORDINATOR_ID] /\ \A m \in Cohort : ~ReplyOverdue(m)
<1> USE CohortAssumption
<1> DEFINE c == COORDINATOR_ID
<1>1. pc[c] = "switch" /\ pc'[c] = "sleep" /\ taken' = taken /\ state[c] # "Q"
  BY DEF CoordinatorTimeout, CloseRound, Gathering, TypeOK
<1>2. PICK p \in Process : TimedStep(p)
  BY <1>1 DEF TimedNext, TimedSignal, Signal, Tick, Terminated, timedVars, vars
<1>3. p = c
  BY <1>1, <1>2, StepMovesOne
<1>4. ~Wake(c) /\ ~Finish(c)
  BY <1>1, NoWake
<1>5. ~CoordinatorBegin /\ \A m \in Cohort : ~CoordinatorReceive(m)
  <2>1. \A m \in Cohort : CoordinatorReceive(m) => taken'[m] = taken[m] + 1 /\ taken[m] \in Nat
    BY DEF CoordinatorReceive, TypeOK
  <2>2. QED
    BY <1>1, <2>1 DEF CoordinatorBegin
<1>6. QED
  BY <1>2, <1>3, <1>4, <1>5 DEF TimedStep

\* The coordinator gives up on the acknowledgements: one is missing, and its
\* member is neither late nor is its packet on the way.
LEMMA MissingAckMeansCrash ==
  ASSUME AckMargin, TimedIndInv, AcksInTime, Gathering, state[COORDINATOR_ID] = "P",
         now >= due[COORDINATOR_ID], \A m \in Cohort : ~ReplyOverdue(m)
  PROVE  \E m \in Cohort : Killed(m) /\ state[m] = "W"
<1> USE TimesAreNatural, CohortAssumption
<1> DEFINE c == COORDINATOR_ID
<1>1. AwaitsAcks /\ pc[c] = "switch"
  BY DEF AwaitsAcks, Gathering
<1>2. /\ responders # Cohort /\ responders \subseteq Cohort
      /\ EarliestTimeout(c) >= sentAt + MIN_SLEEP_TIME_COORDINATOR + ROUND_TIME - CLOCK_STEP
  BY <1>1 DEF AcksInTime, AwaitsAcks, TimedIndInv, TimedTypeOK, TypeOK
<1>3. PICK m \in Cohort : m \notin responders
  BY <1>2
<1>4. /\ now \in Nat /\ sentAt \in Nat /\ due[c] \in Nat /\ due[m] \in Nat
      /\ repliedAt[m] \in Nat /\ pc[m] \in {"sleep", "switch", "exited"}
  BY DEF TimedIndInv, TimedTypeOK, TypeOK, Location
<1>5. now >= sentAt + MIN_SLEEP_TIME_COORDINATOR + ROUND_TIME - CLOCK_STEP
  <2>1. EarliestTimeout(c) = due[c]
    BY <1>1, <1>4 DEF EarliestTimeout
  <2>2. QED
    BY <1>2, <1>4, <2>1
<1>6. now > sentAt + MAX_SLEEP_TIME + LATENESS + DELAY
  BY <1>4, <1>5 DEF AckMargin
<1>7. PromptAck(m) /\ Napping(m)
  BY <1>1 DEF AcksInTime, AwaitsAcks
<1>8. state[m] = "W"
  <2>1. SUFFICES ASSUME state[m] = "P" PROVE FALSE
    BY <1>1, WhileAwaiting
  <2>2. replies[m] = <<Agree, Ack>>
    BY <1>1, <2>1, WhileAwaiting
  <2>3. taken[m] = 1
    BY <1>3 DEF TimedIndInv, IndInv, GatherHistory, RoundsDone
  <2>4. Len(replies[m]) = 2
    BY <2>2
  <2>5. ReplyPending(m)
    BY <2>3, <2>4 DEF ReplyPending
  <2>6. repliedAt[m] <= sentAt + MAX_SLEEP_TIME + LATENESS
    BY <1>7, <2>1 DEF PromptAck
  <2>7. ReplyOverdue(m)
    BY <1>4, <1>6, <2>5, <2>6 DEF ReplyOverdue
  <2>8. QED
    BY <2>7
<1>9. pc[m] # "sleep"
  BY <1>4, <1>6, <1>7, <1>8 DEF PromptAck, Napping
<1>10. pc[m] # "switch"
  BY <1>4, <1>6, <1>7, <1>8 DEF PromptAck
<1>11. Killed(m)
  BY <1>4, <1>8, <1>9, <1>10 DEF Killed, TimedIndInv, LeftInTime
<1>12. QED
  BY <1>8, <1>11

\* One step of the timed run.
LEMMA AccurateStep ==
  ASSUME SafeMargin, AckMargin, TimedIndInv, TimedIndInv', AcksInTime, [TimedNext]_timedVars
  PROVE  /\ \A m \in Cohort :
              MemberTimeout(m) /\ state[m] \in {"W", "P"}
                => /\ Killed(COORDINATOR_ID)
                   /\ state[COORDINATOR_ID] = state[m]
                   /\ ~Pending(m)
         /\ CoordinatorTimeout /\ state[COORDINATOR_ID] = "P"
              => \E m \in Cohort : Killed(m) /\ state[m] = "W"
<1>1. TypeOK /\ TypeOK'
  BY DEF TimedIndInv, TimedTypeOK
<1>2. ASSUME NEW m \in Cohort, MemberTimeout(m), state[m] \in {"W", "P"}
      PROVE  /\ Killed(COORDINATOR_ID)
             /\ state[COORDINATOR_ID] = state[m]
             /\ ~Pending(m)
  <2>1. now >= due[m] /\ ~Overdue(m) /\ Listening(m)
    BY <1>1, <1>2, MemberTimeoutIsDue DEF MemberTimeout
  <2>2. ~Pending(m) /\ pc[COORDINATOR_ID] = "exited" /\ state[COORDINATOR_ID] = state[m]
    BY <1>2, <2>1, TimeoutMeansCrash
  <2>3. Killed(COORDINATOR_ID)
    BY <1>2, <2>2 DEF Killed, TimedIndInv, LeftInTime
  <2>4. QED
    BY <2>2, <2>3
<1>3. ASSUME CoordinatorTimeout, state[COORDINATOR_ID] = "P"
      PROVE  \E m \in Cohort : Killed(m) /\ state[m] = "W"
  BY <1>1, <1>3, CoordinatorTimeoutIsDue, MissingAckMeansCrash DEF CoordinatorTimeout
<1>4. QED
  BY <1>2, <1>3

\* With both margins a timeout is an accurate failure detector once the votes
\* are being counted: nobody that is only slow is taken for dead
\* (CohortMember::run and Coordinator::run, the cases W and P).
THEOREM TimeoutsAreAccurate ==
  ASSUME SafeMargin, AckMargin
  PROVE  TimedSafetySpec => AccurateTimeouts
<1>1. TimedIndInv /\ TimedIndInv' /\ AcksInTime /\ [TimedNext]_timedVars
        => [/\ \A m \in Cohort :
                 MemberTimeout(m) /\ state[m] \in {"W", "P"}
                   => /\ Killed(COORDINATOR_ID)
                      /\ state[COORDINATOR_ID] = state[m]
                      /\ ~Pending(m)
            /\ CoordinatorTimeout /\ state[COORDINATOR_ID] = "P"
                 => \E m \in Cohort : Killed(m) /\ state[m] = "W"]_timedVars
  BY AccurateStep
<1>2. QED
  BY <1>1, TimedInvariance, AcksInvariance, PTL DEF TimedSafetySpec, AccurateTimeouts

=============================================================================
