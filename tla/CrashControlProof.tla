-------------------------- MODULE CrashControlProof -------------------------
(***************************************************************************)
(* The input thread and the crash threads do to the protocol what ThreePC  *)
(* says of a signal, and nothing else, for every cohort and every bound on *)
(* the input; and they lose no signal.                                     *)
(***************************************************************************)
EXTENDS CrashControl, ThreePCProof

allVars == <<vars, controlVars>>

\* While the operator types the numbers of killable processes, only those are
\* on their way: as the number read, or as a CRASH packet.
OnlyKillable ==
  /\ failed = FALSE
  /\ processToKill \in Killable \cup {NOTHING}
  /\ crashPackets \in [Cohort -> Nat]
  /\ \A m \in Cohort : crashPackets[m] > 0 => m \in Killable
  /\ crashSignalReceived \in [Process -> BOOLEAN]

\* The steps of the main threads are steps of ThreePC, that leave the flags alone.
LEMMA StepKeepsFlags ==
  ASSUME NEW p \in Process, Step(p)
  PROVE  UNCHANGED crashSignalReceived
BY DEF Step, Wake, Finish, CoordinatorStep, CoordinatorBegin, CoordinatorTimeout,
       CoordinatorReceive, MemberStep, MemberReceive, MemberTimeout

\* At the start no number is being acted on and no CRASH packet is on its way.
LEMMA OnlyKillableInit == ControlInit => OnlyKillable
BY DEF ControlInit, Init, OnlyKillable

\* Every step of every thread keeps the numbers and the packets to processes
\* that may be killed: Coordinator::processCrashInput checks the range first.
LEMMA OnlyKillableStep ==
  ASSUME Line \subseteq Killable, OnlyKillable, [ControlNext]_allVars
  PROVE  OnlyKillable'
<1> USE RankAssumption, CohortAssumption
<1>1. ASSUME NEW line \in Line, ReadLine(line) PROVE OnlyKillable'
  <2>1. line \in Killable /\ line \in Int
    BY DEF Process
  <2>2. line \notin {WORD, HUGE, EOF}
    BY <2>1
  <2>3. ~failed' /\ processToKill' = line
    BY <1>1, <2>2 DEF ReadLine, ValueRead
  <2>4. QED
    BY <1>1, <2>1, <2>3 DEF ReadLine, OnlyKillable, vars, crashVars
<1>2. ASSUME ReadAfterFailure PROVE OnlyKillable'
  BY <1>2 DEF ReadAfterFailure, OnlyKillable
<1>3. ASSUME ActOnInput PROVE OnlyKillable'
  <2>1. processToKill \in Killable /\ processToKill \in Process
    BY <1>3 DEF ActOnInput, OnlyKillable
  <2>2. CASE processToKill = COORDINATOR_ID
    BY <1>3, <2>1, <2>2 DEF ActOnInput, OnlyKillable, Process
  <2>3. CASE processToKill # COORDINATOR_ID
    <3>1. processToKill \in Cohort
      BY <2>1, <2>3 DEF Process
    <3>2. crashPackets' \in {crashPackets, [crashPackets EXCEPT ![processToKill] = @ + 1]}
      BY <1>3, <2>3 DEF ActOnInput, SendCrash
    <3>3. UNCHANGED <<failed, crashSignalReceived>> /\ processToKill' = NOTHING
      BY <1>3, <2>3 DEF ActOnInput
    <3>4. QED
      BY <2>1, <3>1, <3>2, <3>3 DEF OnlyKillable
  <2>4. QED
    BY <2>2, <2>3
<1>4. ASSUME NEW p \in Process, MainThread(p) PROVE OnlyKillable'
  BY <1>4, StepKeepsFlags DEF MainThread, Join, OnlyKillable, controlVars, inputVars, crashVars, vars
<1>5. ASSUME NEW p \in Process, CrashThread(p) PROVE OnlyKillable'
  <2>1. CASE TestTerminate(p) \/ CrashTimeout(p)
    BY <2>1 DEF TestTerminate, CrashTimeout, OnlyKillable, inputVars, vars
  <2>2. CASE ReceiveCrash(p)
    <3>1. p \in Cohort /\ crashPackets[p] > 0
      BY <2>2 DEF ReceiveCrash
    <3>2. /\ crashPackets' = [crashPackets EXCEPT ![p] = @ - 1]
          /\ crashSignalReceived' = [crashSignalReceived EXCEPT ![p] = TRUE]
          /\ UNCHANGED <<failed, processToKill>>
      BY <2>2 DEF ReceiveCrash, inputVars
    <3>3. QED
      BY <3>1, <3>2 DEF OnlyKillable, Process
  <2>3. QED
    BY <1>5, <2>1, <2>2 DEF CrashThread
<1>6. CASE UNCHANGED allVars
  BY <1>6 DEF allVars, controlVars, inputVars, crashVars, vars, OnlyKillable
<1>7. CASE Finalized
  BY <1>7 DEF Finalized, controlVars, inputVars, crashVars, vars, OnlyKillable
<1>8. QED
  BY <1>1, <1>2, <1>3, <1>4, <1>5, <1>6, <1>7 DEF ControlNext, InputThread

\* getNumberOfProcesses() is a number: the cohort is finite.
LEMMA NumberOfProcesses == numberOfProcesses \in Nat
<1>1. IsFiniteSet(Process)
  BY CohortAssumption, FS_AddElement DEF Process
<1>2. QED
  BY <1>1, FS_CardinalityType DEF numberOfProcesses

\* Acting on its own number, the input thread raises the coordinator's flag.
LEMMA ActOnCoordinator ==
  ASSUME ActOnInput, processToKill = COORDINATOR_ID
  PROVE  /\ crashSignalReceived' = [crashSignalReceived EXCEPT ![COORDINATOR_ID] = TRUE]
         /\ UNCHANGED <<crashPackets, state, pc, coordinatorVars, memberVars>>
<1>1. COORDINATOR_ID \in 0 .. (numberOfProcesses - 1)
  BY RankAssumption DEF Process
<1>2. ~(processToKill < 0 \/ processToKill >= numberOfProcesses)
  BY <1>1, NumberOfProcesses
<1>3. QED
  BY <1>2 DEF ActOnInput

\* Raising a flag is the signal of ThreePC, or nothing when it is up already.
LEMMA RaiseIsSignal ==
  ASSUME NEW p \in Killable, crashSignalReceived \in [Process -> BOOLEAN],
         crashSignalReceived' = [crashSignalReceived EXCEPT ![p] = TRUE],
         UNCHANGED <<state, pc, coordinatorVars, memberVars>>
  PROVE  [Next]_vars
<1>1. p \in Process
  BY CohortAssumption
<1>2. CASE crashSignalReceived[p]
  <2>1. crashSignalReceived' = crashSignalReceived
    BY <1>2
  <2>2. QED
    BY <2>1 DEF vars
<1>3. CASE ~crashSignalReceived[p]
  BY <1>1, <1>3 DEF Next, Signal
<1>4. QED
  BY <1>2, <1>3

\* Seen from the protocol, each step of each thread is a step of ThreePC: a main
\* thread takes its own, a raised flag is a Signal, all the rest stutters.
LEMMA ControlStepIsStep ==
  ASSUME OnlyKillable, [ControlNext]_allVars
  PROVE  [Next]_vars
<1>1. ASSUME ActOnInput PROVE [Next]_vars
  <2>1. CASE processToKill = COORDINATOR_ID
    <3>1. COORDINATOR_ID \in Killable
      BY <1>1, <2>1 DEF ActOnInput, OnlyKillable
    <3>2. /\ crashSignalReceived' = [crashSignalReceived EXCEPT ![COORDINATOR_ID] = TRUE]
          /\ UNCHANGED <<state, pc, coordinatorVars, memberVars>>
      BY <1>1, <2>1, ActOnCoordinator
    <3>3. crashSignalReceived \in [Process -> BOOLEAN]
      BY DEF OnlyKillable
    <3>4. QED
      BY <3>1, <3>2, <3>3, RaiseIsSignal
  <2>2. CASE processToKill # COORDINATOR_ID
    BY <1>1, <2>2 DEF ActOnInput, vars
  <2>3. QED
    BY <2>1, <2>2
<1>2. ASSUME NEW p \in Process, ReceiveCrash(p) PROVE [Next]_vars
  <2>1. p \in Killable
    BY <1>2 DEF ReceiveCrash, OnlyKillable
  <2>2. QED
    BY <1>2, <2>1, RaiseIsSignal DEF ReceiveCrash, OnlyKillable
<1>3. ASSUME NEW p \in Process, Step(p) PROVE [Next]_vars
  BY <1>3 DEF Next
<1>4. CASE UNCHANGED vars
  BY <1>4
<1>5. QED
  BY <1>1, <1>2, <1>3, <1>4
  DEF ControlNext, InputThread, ReadLine, ReadAfterFailure, MainThread, Join, CrashThread,
      TestTerminate, CrashTimeout, Finalized, allVars

\* With the threads and the input in place the protocol still implements
\* ThreePC, as long as the lines typed are the numbers of killable processes:
\* what ThreePCProof proves of ThreePC holds of it.
THEOREM ControlImplementsThreePC ==
  ASSUME Line \subseteq Killable
  PROVE  ControlSafetySpec => ImplementsThreePC
<1>1. ControlInit => Init
  BY DEF ControlInit
<1>2. OnlyKillable /\ [ControlNext]_allVars => OnlyKillable'
  BY OnlyKillableStep
<1>3. OnlyKillable /\ [ControlNext]_allVars => [Next]_vars
  BY ControlStepIsStep
<1>4. QED
  BY <1>1, <1>2, <1>3, OnlyKillableInit, PTL
  DEF ControlSafetySpec, SafetySpec, ImplementsThreePC, allVars

-----------------------------------------------------------------------------
\* What the types of the threads' variables contribute, and who has left run().
KillTypes ==
  /\ typed \in [Line -> Nat]
  /\ crashPackets \in [Cohort -> Nat]
  /\ crashSignalReceived \in [Process -> BOOLEAN]
  /\ crashPc \in [Process -> {"test", "receive", "done"}]
  /\ DOMAIN pc = Process

\* A crash thread ends when its process has left run().
LastTurnIsLate == \A p \in Process : crashPc[p] = "done" => pc[p] = "exited"

\* A kill is being acted on, has raised its flag, or is on its way; with
\* LastTurnIsLate that is all NoKillIsLost asks for.
KillsUnderway ==
  \A p \in Process : TimesTyped(p) > 0 => \/ processToKill = p
                                          \/ p \in Cohort /\ crashPackets[p] > 0
                                          \/ crashSignalReceived[p]

KillInv == KillTypes /\ LastTurnIsLate /\ KillsUnderway

\* Both make up the property.
LEMMA KillInvSuffices == KillInv => NoKillIsLost
BY DEF KillInv, LastTurnIsLate, KillsUnderway, NoKillIsLost

\* At the start nothing has been typed.
LEMMA KillInvInit == ControlInit => KillInv
BY DEF ControlInit, Init, KillInv, KillTypes, LastTurnIsLate, KillsUnderway, TimesTyped

\* Nobody returns to run().
LEMMA StepLeavesForGood ==
  ASSUME NEW p \in Process, Step(p), DOMAIN pc = Process
  PROVE  /\ DOMAIN pc' = Process
         /\ \A q \in Process : pc[q] = "exited" => pc'[q] = "exited"
<1>1. CASE Wake(p)
  BY <1>1 DEF Wake
<1>2. CASE Finish(p)
  BY <1>2 DEF Finish
<1>3. CASE p = COORDINATOR_ID /\ CoordinatorStep
  <2>1. pc[COORDINATOR_ID] = "switch"
    BY <1>3 DEF CoordinatorStep, CoordinatorBegin, CoordinatorTimeout, CoordinatorReceive, Gathering
  <2>2. pc' = pc \/ pc' = [pc EXCEPT ![COORDINATOR_ID] = "sleep"]
    BY <1>3 DEF CoordinatorStep, CoordinatorBegin, CoordinatorTimeout, CoordinatorReceive, CloseRound
  <2>3. QED
    BY <2>1, <2>2
<1>4. CASE p \in Cohort /\ MemberStep(p)
  BY <1>4 DEF MemberStep, MemberReceive, MemberTimeout, Listening
<1>5. QED
  BY <1>1, <1>2, <1>3, <1>4 DEF Step

\* A step that neither takes a packet nor acts on a number loses no kill.
LEMMA KillsUnderwayStutter ==
  ASSUME KillsUnderway, UNCHANGED <<typed, processToKill, crashPackets, crashSignalReceived>>
  PROVE  KillsUnderway'
BY DEF KillsUnderway, TimesTyped

\* Nor does one that leaves the threads' other variables alone, too.
LEMMA KillInvStutter ==
  ASSUME KillInv,
         UNCHANGED <<typed, processToKill, crashPackets, crashSignalReceived, crashPc, pc>>
  PROVE  KillInv'
BY KillsUnderwayStutter DEF KillInv, KillTypes, LastTurnIsLate

\* A number just typed is the one being acted on.
LEMMA KillInvRead ==
  ASSUME KillInv, NEW line \in Line, ReadLine(line)
  PROVE  KillInv'
<1> USE RankAssumption
<1>1. /\ processToKill = NOTHING
      /\ typed' = [typed EXCEPT ![line] = @ + 1]
      /\ UNCHANGED <<crashPackets, crashSignalReceived, crashPc, pc>>
  BY DEF ReadLine, Reading, vars, crashVars
<1>2. \A p \in Process : p \in Int /\ p # NOTHING
  OBVIOUS
<1>3. ASSUME NEW p \in Process, p = line PROVE processToKill' = p
  BY <1>2, <1>3 DEF ReadLine, ValueRead
<1>4. \A p \in Process : p # line => TimesTyped(p)' = TimesTyped(p)
  BY <1>1 DEF KillInv, KillTypes, TimesTyped
<1>5. KillTypes' /\ LastTurnIsLate'
  BY <1>1 DEF KillInv, KillTypes, LastTurnIsLate
<1>6. KillsUnderway'
  BY <1>1, <1>2, <1>3, <1>4 DEF KillInv, KillsUnderway
<1>7. QED
  BY <1>5, <1>6 DEF KillInv

\* Acting on a number passes it on, to a CRASH packet or to the flag.
LEMMA KillInvAct ==
  ASSUME KillInv, ActOnInput
  PROVE  KillInv'
<1> USE RankAssumption, CohortAssumption
<1>1. UNCHANGED <<typed, crashPc, pc>>
  BY DEF ActOnInput
<1>2. CASE processToKill = COORDINATOR_ID
  <2>1. /\ crashSignalReceived' = [crashSignalReceived EXCEPT ![COORDINATOR_ID] = TRUE]
        /\ UNCHANGED crashPackets
    BY <1>2, ActOnCoordinator
  <2>2. QED
    BY <1>1, <1>2, <2>1 DEF KillInv, KillTypes, LastTurnIsLate, KillsUnderway, TimesTyped, Process
<1>3. CASE processToKill \in Cohort
  <2>1. /\ crashPackets' = [crashPackets EXCEPT ![processToKill] = @ + 1]
        /\ UNCHANGED crashSignalReceived
    <3>1. processToKill \in Process /\ processToKill # COORDINATOR_ID
      BY <1>3 DEF Process
    <3>2. processToKill \in 0 .. numberOfProcesses - 1
      BY <3>1
    <3>3. ~(processToKill < 0 \/ processToKill >= numberOfProcesses)
      BY <3>2, NumberOfProcesses
    <3>4. QED
      BY <3>1, <3>3 DEF ActOnInput, SendCrash
  <2>2. QED
    BY <1>1, <1>3, <2>1 DEF KillInv, KillTypes, LastTurnIsLate, KillsUnderway, TimesTyped
<1>4. CASE processToKill \notin Process
  <2>1. UNCHANGED crashSignalReceived
    BY <1>4 DEF ActOnInput, Process
  <2>2. crashPackets' \in {crashPackets, [crashPackets EXCEPT ![processToKill] = @ + 1]}
    BY <1>4 DEF ActOnInput, SendCrash, Process
  <2>3. crashPackets' = crashPackets
    BY <1>4, <2>2 DEF KillInv, KillTypes, Process
  <2>4. QED
    BY <1>1, <1>4, <2>1, <2>3 DEF KillInv, KillTypes, LastTurnIsLate, KillsUnderway, TimesTyped
<1>5. QED
  BY <1>2, <1>3, <1>4 DEF Process

\* A crash thread that takes a packet raises the flag of its process.
LEMMA KillInvReceive ==
  ASSUME KillInv, NEW p \in Process, ReceiveCrash(p)
  PROVE  KillInv'
<1>1. /\ p \in Cohort /\ crashPackets[p] > 0
      /\ crashPackets' = [crashPackets EXCEPT ![p] = @ - 1]
      /\ crashSignalReceived' = [crashSignalReceived EXCEPT ![p] = TRUE]
      /\ crashPc' = [crashPc EXCEPT ![p] = "test"]
      /\ UNCHANGED <<typed, processToKill, pc>>
  BY DEF ReceiveCrash, inputVars
<1>2. KillTypes' /\ LastTurnIsLate'
  BY <1>1 DEF KillInv, KillTypes, LastTurnIsLate, Process
<1>3. KillsUnderway'
  BY <1>1 DEF KillInv, KillTypes, KillsUnderway, TimesTyped, Process
<1>4. QED
  BY <1>2, <1>3 DEF KillInv

\* Every number the operator typed has raised its flag or is on its way, to a
\* thread that will take it or to a process that has left run(), whatever else
\* was typed and however the threads interleave.
THEOREM KillsAreKept == ControlSafetySpec => []NoKillIsLost
<1>1. ASSUME KillInv, [ControlNext]_allVars PROVE KillInv'
  <2>1. ASSUME NEW p \in Process, Step(p) /\ UNCHANGED controlVars PROVE KillInv'
    <3>1. /\ UNCHANGED crashSignalReceived
          /\ UNCHANGED <<typed, processToKill, crashPackets, crashPc>>
      BY <2>1, StepKeepsFlags DEF controlVars, inputVars, crashVars
    <3>2. /\ DOMAIN pc' = Process
          /\ \A q \in Process : pc[q] = "exited" => pc'[q] = "exited"
      BY <1>1, <2>1, StepLeavesForGood DEF KillInv, KillTypes
    <3>3. QED
      BY <1>1, <3>1, <3>2, KillsUnderwayStutter DEF KillInv, KillTypes, LastTurnIsLate
  <2>2. ASSUME NEW p \in Process, TestTerminate(p) \/ CrashTimeout(p)
        PROVE  KillInv'
    <3>1. /\ UNCHANGED <<typed, processToKill, crashPackets, crashSignalReceived, pc>>
          /\ \/ crashPc' = [crashPc EXCEPT ![p] = "test"]
             \/ crashPc' = [crashPc EXCEPT ![p] = "receive"]
             \/ pc[p] = "exited" /\ crashPc' = [crashPc EXCEPT ![p] = "done"]
      BY <2>2 DEF TestTerminate, CrashTimeout, vars, inputVars
    <3>2. QED
      BY <1>1, <3>1, KillsUnderwayStutter DEF KillInv, KillTypes, LastTurnIsLate
  <2>5. ASSUME NEW p \in Process, Join(p) PROVE KillInv'
    BY <1>1, <2>5, KillInvStutter DEF Join, vars, inputVars
  <2>3. ASSUME ReadAfterFailure PROVE KillInv'
    <3>1. /\ processToKill = NOTHING
          /\ UNCHANGED <<typed, crashPackets, crashSignalReceived, crashPc, pc>>
      BY <2>3 DEF ReadAfterFailure, Reading, vars, crashVars
    <3>2. \A p \in Process : p # NOTHING
      BY RankAssumption
    <3>3. QED
      BY <1>1, <3>1, <3>2 DEF KillInv, KillTypes, LastTurnIsLate, KillsUnderway, TimesTyped
  <2>4. CASE Finalized \/ UNCHANGED allVars
    BY <1>1, <2>4, KillInvStutter DEF Finalized, allVars, vars, controlVars, inputVars, crashVars
  <2>6. QED
    BY <1>1, <2>1, <2>2, <2>3, <2>4, <2>5, KillInvRead, KillInvAct, KillInvReceive
    DEF ControlNext, InputThread, MainThread, CrashThread
<1>2. QED
  BY <1>1, KillInvInit, KillInvSuffices, PTL DEF ControlSafetySpec, allVars

-----------------------------------------------------------------------------
\* Each CRASH packet on its way to a member, and the number still to be acted
\* on, answers to one time that the member's number was typed.
CrashPacketsAreTyped ==
  /\ typed \in [Line -> Nat]
  /\ \A m \in Cohort :
       crashPackets[m] + (IF processToKill = m THEN 1 ELSE 0) <= TimesTyped(m)

\* At the start there is none.
LEMMA CrashPacketsInit == ControlInit => CrashPacketsAreTyped
BY RankAssumption DEF ControlInit, CrashPacketsAreTyped, TimesTyped, Process

\* A number typed is acted on once, by one packet, which is taken at most once.
LEMMA CrashPacketsStep ==
  ASSUME Line \subseteq Killable, OnlyKillable, CrashPacketsAreTyped, [ControlNext]_allVars
  PROVE  CrashPacketsAreTyped'
<1> USE RankAssumption, CohortAssumption
<1>1. \A m \in Cohort : TimesTyped(m) \in Nat /\ crashPackets[m] \in Nat
  BY DEF CrashPacketsAreTyped, TimesTyped, OnlyKillable
<1>2. ASSUME NEW line \in Line, ReadLine(line) PROVE CrashPacketsAreTyped'
  <2>1. line \in Int /\ line \notin {WORD, HUGE, EOF}
    BY DEF Process
  <2>2. /\ processToKill = NOTHING /\ processToKill' = line
        /\ typed' = [typed EXCEPT ![line] = @ + 1]
        /\ UNCHANGED crashPackets
    BY <1>2, <2>1 DEF ReadLine, Reading, ValueRead, crashVars
  <2>3. \A m \in Cohort :
          TimesTyped(m)' = IF m = line THEN TimesTyped(m) + 1 ELSE TimesTyped(m)
    BY <2>2 DEF CrashPacketsAreTyped, TimesTyped
  <2>4. typed' \in [Line -> Nat]
    BY <2>2 DEF CrashPacketsAreTyped
  <2>5. \A m \in Cohort : crashPackets[m] <= TimesTyped(m)
    BY <1>1 DEF CrashPacketsAreTyped
  <2>6. QED
    BY <1>1, <2>2, <2>3, <2>4, <2>5 DEF CrashPacketsAreTyped
<1>3. ASSUME ReadAfterFailure PROVE CrashPacketsAreTyped'
  BY <1>3 DEF ReadAfterFailure, OnlyKillable
<1>4. ASSUME ActOnInput PROVE CrashPacketsAreTyped'
  <2>1. /\ processToKill' = NOTHING /\ UNCHANGED typed
        /\ crashPackets' \in {crashPackets, [crashPackets EXCEPT ![processToKill] = @ + 1]}
    BY <1>4 DEF ActOnInput, SendCrash
  <2>2. \A m \in Cohort : m # NOTHING
    BY DEF Process
  <2>3. \A m \in Cohort : /\ TimesTyped(m)' = TimesTyped(m)
                          /\ \/ crashPackets'[m] = crashPackets[m]
                             \/ processToKill = m /\ crashPackets'[m] = crashPackets[m] + 1
    BY <2>1 DEF TimesTyped, OnlyKillable
  <2>4. QED
    BY <1>1, <2>1, <2>2, <2>3 DEF CrashPacketsAreTyped
<1>5. ASSUME NEW p \in Process, ReceiveCrash(p) PROVE CrashPacketsAreTyped'
  <2>1. /\ crashPackets' = [crashPackets EXCEPT ![p] = @ - 1]
        /\ UNCHANGED <<typed, processToKill>>
    BY <1>5 DEF ReceiveCrash, inputVars
  <2>2. \A m \in Cohort : /\ TimesTyped(m)' = TimesTyped(m)
                          /\ crashPackets'[m] \in {crashPackets[m], crashPackets[m] - 1}
    BY <2>1 DEF TimesTyped, OnlyKillable
  <2>3. QED
    BY <1>1, <2>1, <2>2 DEF CrashPacketsAreTyped
<1>6. ASSUME UNCHANGED <<typed, processToKill, crashPackets>> PROVE CrashPacketsAreTyped'
  BY <1>6 DEF CrashPacketsAreTyped, TimesTyped
<1>7. QED
  BY <1>2, <1>3, <1>4, <1>5, <1>6
  DEF ControlNext, InputThread, MainThread, Join, CrashThread, TestTerminate, CrashTimeout,
      Finalized, allVars, controlVars, inputVars, crashVars

\* Two packets of buffer to each member, one more for each time its number is
\* typed, and one from it: with as many no send waits for its recipient, for
\* every number of members and whatever numbers are typed.
THEOREM BufferBoundWithKills ==
  ASSUME Line \subseteq Killable
  PROVE  ControlSafetySpec => []SendsAreBuffered
<1>1. OnlyKillable /\ [ControlNext]_allVars => OnlyKillable'
  BY OnlyKillableStep
<1>2. OnlyKillable /\ CrashPacketsAreTyped /\ [ControlNext]_allVars => CrashPacketsAreTyped'
  BY CrashPacketsStep
<1>3. TypeOK /\ OnlyKillable /\ CrashPacketsAreTyped /\ ProtocolIsBuffered => SendsAreBuffered
  <2>1. ASSUME TypeOK, OnlyKillable, CrashPacketsAreTyped, ProtocolIsBuffered, NEW m \in Cohort
        PROVE  /\ Len(sent) - received[m] + crashPackets[m] <= 2 + TimesTyped(m)
               /\ Len(replies[m]) - taken[m] <= 1
    <3>1. Len(sent) \in Nat /\ received[m] \in Nat
      BY <2>1 DEF TypeOK
    <3>2. crashPackets[m] \in Nat /\ TimesTyped(m) \in Nat
      BY <2>1 DEF OnlyKillable, CrashPacketsAreTyped, TimesTyped
    <3>3. crashPackets[m] <= TimesTyped(m)
      BY <2>1, <3>2 DEF CrashPacketsAreTyped
    <3>4. Len(sent) - received[m] <= 2 /\ Len(replies[m]) - taken[m] <= 1
      BY <2>1 DEF ProtocolIsBuffered
    <3>5. QED
      BY <3>1, <3>2, <3>3, <3>4
  <2>2. QED
    BY <2>1 DEF SendsAreBuffered
<1>4. SafetySpec => [](TypeOK /\ ProtocolIsBuffered)
  BY TypeCorrect, BufferBound, PTL
<1>5. QED
  BY <1>1, <1>2, <1>3, <1>4, OnlyKillableInit, CrashPacketsInit, ControlImplementsThreePC, PTL
  DEF ControlSafetySpec, ImplementsThreePC, allVars

-----------------------------------------------------------------------------
\* What the types of the threads' variables rest on: each line read becomes at
\* most one CRASH packet, the number still to be acted on being one to come.
ThreadTypes ==
  /\ typed \in [Line -> Nat]
  /\ \A line \in Line : typed[line] <= reads
  /\ reads \in 0 .. MAX_READS
  /\ crashPackets \in [Cohort -> Nat]
  /\ \A m \in Cohort : /\ crashPackets[m] <= reads
                       /\ processToKill # NOTHING => crashPackets[m] < reads
  /\ crashPc \in [Process -> {"test", "receive", "done"}]
  /\ joined \subseteq Process

\* At the start nothing has been read.
LEMMA ThreadTypesInit == ControlInit => ThreadTypes
BY RankAssumption DEF ControlInit, ThreadTypes

\* A read makes room for one packet more, and acting on the number fills it.
LEMMA ThreadTypesStep ==
  ASSUME ThreadTypes, [ControlNext]_allVars
  PROVE  ThreadTypes'
<1> USE RankAssumption
<1>1. ASSUME NEW line \in Line, ReadLine(line) PROVE ThreadTypes'
  <2>1. /\ processToKill = NOTHING /\ reads < MAX_READS /\ reads' = reads + 1
        /\ typed' = [typed EXCEPT ![line] = @ + 1]
        /\ UNCHANGED <<crashPackets, crashPc, joined>>
    BY <1>1 DEF ReadLine, Reading, crashVars
  <2>2. /\ \A m \in Cohort : crashPackets[m] \in Nat /\ crashPackets[m] <= reads
        /\ \A l \in Line : typed[l] \in Nat /\ typed[l] <= reads
    BY DEF ThreadTypes
  <2>3. QED
    BY <2>1, <2>2 DEF ThreadTypes
<1>2. ASSUME ReadAfterFailure PROVE ThreadTypes'
  <2>1. /\ processToKill = NOTHING /\ reads < MAX_READS /\ reads' = reads + 1
        /\ UNCHANGED <<typed, crashPackets, crashPc, joined>>
    BY <1>2 DEF ReadAfterFailure, Reading, crashVars
  <2>2. /\ \A m \in Cohort : crashPackets[m] \in Nat /\ crashPackets[m] <= reads
        /\ \A l \in Line : typed[l] \in Nat /\ typed[l] <= reads
    BY DEF ThreadTypes
  <2>3. QED
    BY <2>1, <2>2 DEF ThreadTypes
<1>3. ASSUME ActOnInput PROVE ThreadTypes'
  <2>1. /\ processToKill # NOTHING /\ processToKill' = NOTHING
        /\ crashPackets' \in {crashPackets, [crashPackets EXCEPT ![processToKill] = @ + 1]}
        /\ UNCHANGED <<typed, reads, crashPc, joined>>
    BY <1>3 DEF ActOnInput, SendCrash
  <2>2. QED
    BY <2>1 DEF ThreadTypes
<1>4. ASSUME NEW p \in Process, MainThread(p) PROVE ThreadTypes'
  BY <1>4 DEF MainThread, Join, ThreadTypes, controlVars, inputVars, crashVars
<1>5. ASSUME NEW p \in Process, CrashThread(p) PROVE ThreadTypes'
  <2>1. CASE TestTerminate(p) \/ CrashTimeout(p)
    BY <2>1 DEF TestTerminate, CrashTimeout, ThreadTypes, inputVars
  <2>2. CASE ReceiveCrash(p)
    <3>1. /\ p \in Cohort /\ crashPackets[p] > 0
          /\ crashPackets' = [crashPackets EXCEPT ![p] = @ - 1]
          /\ crashPc' = [crashPc EXCEPT ![p] = "test"]
          /\ UNCHANGED <<typed, reads, processToKill, joined>>
      BY <2>2 DEF ReceiveCrash, inputVars
    <3>2. \A m \in Cohort : crashPackets[m] \in Nat /\ crashPackets'[m] \in Nat
                           /\ crashPackets'[m] <= crashPackets[m]
      BY <3>1 DEF ThreadTypes
    <3>3. crashPackets' \in [Cohort -> Nat]
      BY <3>1, <3>2 DEF ThreadTypes
    <3>4. QED
      BY <3>1, <3>2, <3>3 DEF ThreadTypes
  <2>3. QED
    BY <1>5, <2>1, <2>2 DEF CrashThread
<1>6. CASE Finalized \/ UNCHANGED allVars
  BY <1>6 DEF Finalized, allVars, controlVars, inputVars, crashVars, ThreadTypes
<1>7. QED
  BY <1>1, <1>2, <1>3, <1>4, <1>5, <1>6 DEF ControlNext, InputThread

\* No CRASH packet is made of nothing, and every variable keeps its type, those
\* of the protocol included, as long as the numbers typed are of killable
\* processes (AbstractCrashableProcess.h, Coordinator::processCrashInput).
THEOREM ControlTypeCorrect ==
  ASSUME Line \subseteq Killable
  PROVE  ControlSafetySpec => []ControlTypeOK
<1>1. OnlyKillable /\ [ControlNext]_allVars => OnlyKillable'
  BY OnlyKillableStep
<1>2. ThreadTypes /\ [ControlNext]_allVars => ThreadTypes'
  BY ThreadTypesStep
<1>3. TypeOK /\ OnlyKillable /\ ThreadTypes => ControlTypeOK
  <2>1. ASSUME OnlyKillable PROVE processToKill \in Garbage \cup {NOTHING}
    <3>1. Killable \subseteq 0 .. (numberOfProcesses - 1)
      BY CohortAssumption, RankAssumption
    <3>2. QED
      BY <2>1, <3>1, NumberOfProcesses DEF OnlyKillable, Garbage
  <2>2. ASSUME OnlyKillable, ThreadTypes PROVE crashPackets \in [Cohort -> 0 .. MAX_READS]
    <3>1. crashPackets \in [Cohort -> Nat] /\ reads \in 0 .. MAX_READS /\ MAX_READS \in Nat
      BY <2>2, RankAssumption DEF ThreadTypes
    <3>2. \A m \in Cohort : crashPackets[m] \in Nat /\ crashPackets[m] <= reads
      BY <2>2, <3>1 DEF ThreadTypes
    <3>3. \A m \in Cohort : crashPackets[m] \in 0 .. MAX_READS
      BY <3>1, <3>2
    <3>4. QED
      BY <3>1, <3>3
  <2>3. ASSUME OnlyKillable PROVE failed \in BOOLEAN
    BY <2>3 DEF OnlyKillable
  <2>4. ASSUME ThreadTypes PROVE typed \in [Line -> 0 .. MAX_READS]
    <3>1. \A line \in Line : typed[line] \in 0 .. MAX_READS
      BY <2>4, RankAssumption DEF ThreadTypes
    <3>2. QED
      BY <2>4, <3>1 DEF ThreadTypes
  <2>5. QED
    BY <2>1, <2>2, <2>3, <2>4 DEF ThreadTypes, ControlTypeOK
<1>4. SafetySpec => []TypeOK
  BY TypeCorrect
<1>5. QED
  BY <1>1, <1>2, <1>3, <1>4, OnlyKillableInit, ThreadTypesInit, ControlImplementsThreePC, PTL
  DEF ControlSafetySpec, ImplementsThreePC, allVars

=============================================================================
