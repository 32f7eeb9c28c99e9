---------------------------- MODULE TimedThreePC ----------------------------
(***************************************************************************)
(* ThreePC with the time of its sleeps and its receives put back, in an    *)
(* explicit-time style: `now' advances by Tick, and Tick waits for every   *)
(* step that has become urgent.  Every timed step is a step of ThreePC.    *)
(*                                                                         *)
(* The environment is bounded by four constants: a sleep or a timeout ends *)
(* at most LATENESS after the moment asked for, a packet is there at most  *)
(* DELAY after it was sent, the processes start within SKEW of each other, *)
(* and while a process receives its system clock, which times the receive, *)
(* is set forward or back by at most CLOCK_STEP.  A handler itself takes   *)
(* no time: what it takes is part of the lateness of the sleep or the      *)
(* delay of the packet that follows it.                                    *)
(***************************************************************************)
EXTENDS ThreePC

CONSTANTS
  ROUND_TIME, MIN_SLEEP_TIME, MAX_SLEEP_TIME,
  MIN_SLEEP_TIME_COORDINATOR, MAX_SLEEP_TIME_COORDINATOR,
  LATENESS, DELAY, SKEW, CLOCK_STEP

ASSUME TimeAssumption ==
  /\ {ROUND_TIME, LATENESS, DELAY, SKEW} \subseteq Nat
  /\ {MIN_SLEEP_TIME, MAX_SLEEP_TIME} \subseteq Nat
  /\ {MIN_SLEEP_TIME_COORDINATOR, MAX_SLEEP_TIME_COORDINATOR} \subseteq Nat
  /\ DELAY < MIN_SLEEP_TIME_COORDINATOR
  /\ CLOCK_STEP \in 0 .. ROUND_TIME

VARIABLES
  now,        \* the time
  due,        \* due[p]: when the sleep of p ends, or when its receive times out
  sentAt,     \* when the coordinator made its latest broadcast
  repliedAt   \* repliedAt[m]: when m sent its latest reply

clockVars == <<now, due, sentAt, repliedAt>>
timedVars == <<vars, clockVars>>

\* What Random may draw: any number of the range.
randomBetween(begin, end) == begin .. end

\* Mutant: each side sleeps the time of the other.
NapSwapped(p) ==
  LET nap == IF p # COORDINATOR_ID
             THEN randomBetween(MIN_SLEEP_TIME_COORDINATOR, MAX_SLEEP_TIME_COORDINATOR)
             ELSE randomBetween(MIN_SLEEP_TIME, MAX_SLEEP_TIME)
  IN {n + late : n \in nap, late \in 0 .. LATENESS}

\* Mutant: the coordinator does not sleep at all.
NapOfMembers(p) ==
  LET nap == IF p = COORDINATOR_ID THEN {0} ELSE randomBetween(MIN_SLEEP_TIME, MAX_SLEEP_TIME)
  IN {n + late : n \in nap, late \in 0 .. LATENESS}

\* How long a sleep() of p may take.
Nap(p) ==
  LET nap == IF p = COORDINATOR_ID
             THEN randomBetween(MIN_SLEEP_TIME_COORDINATOR, MAX_SLEEP_TIME_COORDINATOR)
             ELSE randomBetween(MIN_SLEEP_TIME, MAX_SLEEP_TIME)
  IN {n + late : n \in nap, late \in 0 .. LATENESS}

TimedInit ==
  /\ Init
  /\ now = 0
  /\ due \in {d \in [Process -> 0 .. (SKEW + MAX_SLEEP_TIME + MAX_SLEEP_TIME_COORDINATOR + LATENESS)] :
                \A p \in Process : \E start \in 0 .. SKEW : d[p] - start \in Nap(p)}
  /\ sentAt = 0
  /\ repliedAt = [m \in Cohort |-> 0]

-----------------------------------------------------------------------------
\* Mutant: the timeout starts anew with every packet gathered.
DeadlinesRestarted(p) ==
  CASE pc'[p] = "sleep"  -> {now + nap : nap \in Nap(p)}
    [] pc'[p] = "switch" -> (now + ROUND_TIME - CLOCK_STEP) .. (now + ROUND_TIME + CLOCK_STEP)
    [] pc'[p] = "exited" -> {0}

\* When the next sleep or receive of p, just begun, ends.  The sleep goes by the
\* steady clock, the receive by the system clock.  A process that has left run()
\* has nothing due.
Deadlines(p) ==
  IF pc'[p] = pc[p] THEN {due[p]}
  ELSE CASE pc'[p] = "sleep"  -> {now + nap : nap \in Nap(p)}
         [] pc'[p] = "switch" -> (now + ROUND_TIME - CLOCK_STEP) .. (now + ROUND_TIME + CLOCK_STEP)
         [] pc'[p] = "exited" -> {0}

\* The clock side of a step of p: the packets it sends bear the time.
Stamp(p) ==
  /\ \E d \in Deadlines(p) : due' = [due EXCEPT ![p] = d]
  /\ sentAt' = IF sent' = sent THEN sentAt ELSE now
  /\ repliedAt' = [m \in Cohort |-> IF replies'[m] = replies[m] THEN repliedAt[m] ELSE now]
  /\ UNCHANGED now

\* The next packet for m, or from m, must be there by now.  Only the latest
\* broadcast may still be on its way: the one before is older than a sleep of
\* the coordinator.  No more than one reply of a member is ever on its way.
Overdue(m) == Pending(m) /\ (received[m] + 1 < Len(sent) \/ now > sentAt + DELAY)

ReplyOverdue(m) == ReplyPending(m) /\ now > repliedAt[m] + DELAY

\* The loops of the timed receives poll the mailbox before they look at the
\* clock, so they time out only when no packet is there.
TimedStep(p) ==
  /\ \/ Wake(p) /\ now = due[p]
     \/ Finish(p)
     \/ /\ p = COORDINATOR_ID
        /\ \/ CoordinatorBegin
           \/ \E m \in Cohort : CoordinatorReceive(m)
           \/ /\ CoordinatorTimeout
              /\ now >= due[p]
              /\ \A m \in Cohort : ~ReplyOverdue(m)
     \/ /\ p \in Cohort
        /\ \/ MemberReceive(p)
           \/ /\ MemberTimeout(p)
              /\ now >= due[p]
              /\ ~Overdue(p)
  /\ Stamp(p)

TimedSignal(p) == Signal(p) /\ UNCHANGED clockVars

-----------------------------------------------------------------------------
\* A packet that p is waiting for has been under way as long as it may.
PacketUrgent(p) ==
  \/ /\ p = COORDINATOR_ID
     /\ \E m \in Cohort : ReplyPending(m) /\ now >= repliedAt[m] + DELAY
  \/ /\ p \in Cohort
     /\ Pending(p)
     /\ received[p] + 1 < Len(sent) \/ now >= sentAt + DELAY

Receiving(p) == IF p = COORDINATOR_ID THEN Gathering ELSE Listening(p)

\* p cannot wait any longer: its sleep is over, it is in a case of the switch
\* that does not wait, or its receive must return.
Urgent(p) ==
  \/ pc[p] = "sleep" /\ now >= due[p]
  \/ pc[p] = "switch" /\ ~Receiving(p)
  \/ pc[p] = "switch" /\ (now >= due[p] + LATENESS \/ PacketUrgent(p))

Tick ==
  /\ \A p \in Process : ~Urgent(p)
  /\ \E p \in Process : pc[p] # "exited"
  /\ now' = now + 1
  /\ UNCHANGED <<vars, due, sentAt, repliedAt>>

TimedNext ==
  \/ \E p \in Process : TimedStep(p) \/ TimedSignal(p)
  \/ Tick
  \/ Terminated /\ UNCHANGED clockVars

TimedSafetySpec == TimedInit /\ [][TimedNext]_timedVars

\* Time passes, and what is due is done.
TimedFairness == /\ WF_timedVars(Tick)
                 /\ \A p \in Process : WF_timedVars(TimedStep(p))

TimedSpec == TimedSafetySpec /\ TimedFairness

-----------------------------------------------------------------------------
(***************************************************************************)
(* Properties.                                                             *)
(***************************************************************************)

\* The clock variables have their types.
TimedTypeOK ==
  /\ TypeOK
  /\ now \in Nat
  /\ due \in [Process -> Nat]
  /\ sentAt \in Nat
  /\ repliedAt \in [Cohort -> Nat]

\* No process commits while another one aborts, the killed ones included,
\* whoever is killed and whenever.
Agreement == ~ \E p, q \in Process : state[p] = "C" /\ state[q] = "A"

\* p was signalled and has left run().
Killed(p) == pc[p] = "exited" /\ crashSignalReceived[p]

\* A timeout is an accurate failure detector once the votes are being counted.
\* A member times out in W or P only because the coordinator was killed in the
\* same state, before it sent the packet waited for; the coordinator times out
\* in P only because some member was killed between its vote and PREPARE_COMMIT.
AccurateTimeouts ==
  [][/\ \A m \in Cohort :
          MemberTimeout(m) /\ state[m] \in {"W", "P"}
            => /\ Killed(COORDINATOR_ID)
               /\ state[COORDINATOR_ID] = state[m]
               /\ ~Pending(m)
     /\ CoordinatorTimeout /\ state[COORDINATOR_ID] = "P"
          => \E m \in Cohort : Killed(m) /\ state[m] = "W"]_timedVars

\* The run implements AtomicCommit: the votes are the first replies, the
\* decisions the states A and C.
voteBar ==
  [m \in Cohort |-> IF replies[m] = <<>> THEN "none"
                    ELSE IF replies[m][1] = Agree THEN "yes" ELSE "no"]

outcomeBar ==
  [p \in Process |-> CASE state[p] = "C" -> "committed"
                       [] state[p] = "A" -> "aborted"
                       [] OTHER          -> "undecided"]

Abstract == INSTANCE AtomicCommit WITH vote <- voteBar, outcome <- outcomeBar

ImplementsAtomicCommit == Abstract!Spec

-----------------------------------------------------------------------------
(***************************************************************************)
(* Why nobody disagrees.                                                   *)
(***************************************************************************)

\* A coordinator that has waited as long as it can has its outcome at every
\* member before any of them, having entered its state later than the
\* broadcast it answers was made, can time out.
SafeMargin ==
  MAX_SLEEP_TIME_COORDINATOR + 2 * LATENESS + 2 * CLOCK_STEP + DELAY < MIN_SLEEP_TIME

\* When the receive of p, begun or to be begun after its sleep, times out.
EarliestTimeout(p) ==
  due[p] + (IF pc[p] = "sleep" THEN ROUND_TIME - CLOCK_STEP ELSE 0)

LatestTimeout(p) ==
  due[p] + LATENESS + (IF pc[p] = "sleep" THEN ROUND_TIME + CLOCK_STEP ELSE 0)

Waiting(p) == state[p] \in {"W", "P"} /\ pc[p] # "exited"

\* The coordinator ends its round in time.
CoordinatorInTime ==
  Waiting(COORDINATOR_ID)
    => /\ now <= LatestTimeout(COORDINATOR_ID)
       /\ LatestTimeout(COORDINATOR_ID)
            <= sentAt + MAX_SLEEP_TIME_COORDINATOR + 2 * LATENESS + ROUND_TIME + CLOCK_STEP

\* Member m, having heard the latest broadcast, waits a round and a sleep for
\* the next one, and does not give up while that one is on its way.
MemberPatient(m) ==
  Waiting(m)
    => /\ received[m] = Len(sent)
            => EarliestTimeout(m) >= sentAt + MIN_SLEEP_TIME + ROUND_TIME - CLOCK_STEP
       /\ received[m] + 1 = Len(sent) => EarliestTimeout(m) > sentAt + DELAY

\* Nobody moves ahead of the coordinator: no member that voted for the
\* transaction aborts while the coordinator counts the votes or after they are
\* all there, and no member commits while the coordinator may yet abort.
NobodyAhead ==
  LET s == state[COORDINATOR_ID]
      gone == pc[COORDINATOR_ID] = "exited"
  IN \A m \in Cohort :
       /\ s = "W" /\ ~gone /\ replies[m] # <<>> /\ replies[m][1] = Agree => state[m] # "A"
       /\ s \in {"P", "C"} => state[m] # "A"
       /\ s = "A" \/ (s = "P" /\ ~gone) => state[m] # "C"

\* Whoever left run() undecided was signalled.
LeftInTime == \A p \in Process :
  pc[p] = "exited" => crashSignalReceived[p] \/ state[p] \in {"A", "C"}

\* With IndInv and SafeMargin, inductive.
TimedIndInv ==
  /\ TimedTypeOK
  /\ IndInv
  /\ sentAt <= now
  /\ CoordinatorInTime
  /\ \A m \in Cohort : MemberPatient(m)
  /\ NobodyAhead
  /\ LeftInTime

-----------------------------------------------------------------------------
(***************************************************************************)
(* Why a timeout of the coordinator in P means a crash.                    *)
(***************************************************************************)

\* A member that hears PREPARE_COMMIT as late as it can acknowledges it before
\* the coordinator, waking as early as it can, has waited for a round.
AckMargin ==
  /\ DELAY <= MAX_SLEEP_TIME + LATENESS
  /\ MAX_SLEEP_TIME + LATENESS + DELAY + CLOCK_STEP < MIN_SLEEP_TIME_COORDINATOR + ROUND_TIME

\* Member m is not asleep any longer than a sleep lasts.
Napping(m) ==
  pc[m] = "sleep" => /\ now <= due[m]
                     /\ state[m] = "W" => due[m] <= now + MAX_SLEEP_TIME + LATENESS

\* Member m, its vote sent before PREPARE_COMMIT, acknowledges that in time.
PromptAck(m) ==
  LET latest == sentAt + MAX_SLEEP_TIME + LATENESS IN
  /\ state[m] = "W" /\ pc[m] = "sleep" => due[m] <= latest
  /\ state[m] = "W" /\ pc[m] = "switch" => now <= latest
  /\ state[m] = "P" => repliedAt[m] <= latest

\* While the coordinator lacks an acknowledgement it is early enough for it.
\* With TimedIndInv and AckMargin, inductive.
AcksInTime ==
  /\ \A m \in Cohort : Napping(m)
  /\ state[COORDINATOR_ID] = "P" /\ pc[COORDINATOR_ID] # "exited"
       => /\ responders # Cohort
          /\ EarliestTimeout(COORDINATOR_ID)
               >= sentAt + MIN_SLEEP_TIME_COORDINATOR + ROUND_TIME - CLOCK_STEP
          /\ \A m \in Cohort : PromptAck(m)

-----------------------------------------------------------------------------
\* When the operator kills nobody the transaction commits everywhere and every
\* process leaves run().
EverybodyCommits ==
  <>(\A p \in Process : pc[p] = "exited" /\ state[p] = "C")

=============================================================================
