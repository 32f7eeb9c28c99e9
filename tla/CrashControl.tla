---------------------------- MODULE CrashControl ----------------------------
(***************************************************************************)
(* How the operator's input becomes the crash signals of ThreePC: the      *)
(* coordinator's input thread reads numbers from standard input, a CRASH   *)
(* packet with a tag of its own carries the signal to a member, and a      *)
(* crash thread in every process raises the flag its main thread reads.    *)
(* Each of them interleaves with the main threads, which take the steps of *)
(* ThreePC, and the process must join its crash thread to end.             *)
(***************************************************************************)
EXTENDS ThreePC, Integers

CONSTANTS
  Line,               \* what a line on standard input may hold: numbers, or one of
  WORD, HUGE, EOF,    \* no number, a number that does not fit, the end of the file
  NOTHING,            \* no number to act on
  MAX_READS           \* bound: how often the input thread reads

numberOfProcesses == Cardinality(Process)

ASSUME RankAssumption == /\ COORDINATOR_ID = 0
                         /\ Process = 0 .. (numberOfProcesses - 1)
                         /\ {NOTHING, WORD, HUGE, EOF} \cap Int = {}
                         /\ MAX_READS \in Nat

VARIABLES
  typed,          \* typed[line]: how often the operator has typed it
  failed,         \* the failbit of std::cin, which nothing clears
  reads,          \* how often the input thread has read
  processToKill,  \* the number it is to act on; NOTHING when it is to read
  crashPackets,   \* crashPackets[m]: the CRASH packets on their way to m
  crashPc,        \* crashPc[p]: where the crash thread of p is
  joined          \* the processes whose destructor has joined the crash thread

inputVars == <<typed, failed, reads, processToKill>>
crashVars == <<crashPackets, crashPc, joined>>
controlVars == <<inputVars, crashVars>>

ControlInit ==
  /\ Init
  /\ typed = [line \in Line |-> 0]
  /\ failed = FALSE
  /\ reads = 0
  /\ processToKill = NOTHING
  /\ crashPackets = [m \in Cohort |-> 0]
  /\ crashPc = [p \in Process |-> "test"]
  /\ joined = {}

-----------------------------------------------------------------------------
(***************************************************************************)
(* The input thread.  It is detached and outlives the Coordinator object,  *)
(* whose fields it still finds in place; it ends with the program.         *)
(***************************************************************************)

\* An int nobody has written: it may name any process, or none.
Garbage == -1 .. numberOfProcesses

\* What std::cin >> processToKill leaves in the variable, which the loop body
\* declares anew: 0 for a word, INT_MAX for a number that does not fit, and
\* nothing when there is no more input.
ValueRead(line) ==
  CASE line = WORD -> {0}
    [] line = HUGE -> {numberOfProcesses}
    [] line = EOF  -> Garbage
    [] OTHER       -> {line}

Reading == processToKill = NOTHING /\ reads < MAX_READS /\ joined # Process

\* The thread reads a line.
ReadLine(line) ==
  /\ Reading
  /\ ~failed
  /\ typed' = [typed EXCEPT ![line] = @ + 1]
  /\ failed' = (line \in {WORD, HUGE, EOF})
  /\ processToKill' \in ValueRead(line)
  /\ reads' = reads + 1
  /\ UNCHANGED <<vars, crashVars>>

\* Once a read has failed, every later one fails at once.
ReadAfterFailure ==
  /\ Reading
  /\ failed
  /\ processToKill' \in Garbage
  /\ reads' = reads + 1
  /\ UNCHANGED <<vars, typed, failed, crashVars>>

\* Mutant: sendOthers for send.
KillEverybody(p) == [m \in Cohort |-> crashPackets[m] + 1]

\* Mutant: the packet goes out twice.
SendCrashTwice(p) == [crashPackets EXCEPT ![p] = @ + 2]

\* A CRASH packet for member p.
SendCrash(p) == [crashPackets EXCEPT ![p] = @ + 1]

\* The thread acts on the number: it raises the coordinator's own flag, sends
\* a CRASH, or ignores it.
ActOnInput ==
  /\ processToKill # NOTHING
  /\ joined # Process
  /\ \/ /\ processToKill = COORDINATOR_ID
        /\ crashSignalReceived' = [crashSignalReceived EXCEPT ![COORDINATOR_ID] = TRUE]
        /\ UNCHANGED crashPackets
     \/ /\ processToKill # COORDINATOR_ID
        /\ processToKill >= 0 /\ processToKill < numberOfProcesses
        /\ crashPackets' = SendCrash(processToKill)
        /\ UNCHANGED crashSignalReceived
     \/ /\ processToKill < 0 \/ processToKill >= numberOfProcesses
        /\ UNCHANGED <<crashSignalReceived, crashPackets>>
  /\ processToKill' = NOTHING
  /\ UNCHANGED <<state, pc, coordinatorVars, memberVars, typed, failed, reads, crashPc, joined>>

-----------------------------------------------------------------------------
(***************************************************************************)
(* The crash thread of a process, and its end.                             *)
(***************************************************************************)

\* Mutant: the crash thread ends with the switch, after the first decision.
TestDecided(p) ==
  /\ crashPc[p] = "test"
  /\ crashPc' = [crashPc EXCEPT ![p] = IF state[p] \in {"A", "C"} THEN "done" ELSE "receive"]
  /\ UNCHANGED <<vars, inputVars, crashPackets, joined>>

\* `while (not terminate)': the main thread has left run() once it has set it.
TestTerminate(p) ==
  /\ crashPc[p] = "test"
  /\ crashPc' = [crashPc EXCEPT ![p] = IF pc[p] = "exited" THEN "done" ELSE "receive"]
  /\ UNCHANGED <<vars, inputVars, crashPackets, joined>>

\* The receive returns a CRASH packet.  Nobody sends one to the coordinator.
ReceiveCrash(p) ==
  /\ p \in Cohort
  /\ crashPc[p] = "receive"
  /\ crashPackets[p] > 0
  /\ crashPackets' = [crashPackets EXCEPT ![p] = @ - 1]
  /\ crashSignalReceived' = [crashSignalReceived EXCEPT ![p] = TRUE]
  /\ crashPc' = [crashPc EXCEPT ![p] = "test"]
  /\ UNCHANGED <<state, pc, coordinatorVars, memberVars, inputVars, joined>>

\* Mutant: the receive without a timeout.
BlockForCrash(p) == FALSE /\ crashPc[p] = "receive" /\ UNCHANGED <<vars, controlVars>>

\* The receive returns nullopt after its 500 ms, a packet being on its way or not.
CrashTimeout(p) ==
  /\ crashPc[p] = "receive"
  /\ crashPc' = [crashPc EXCEPT ![p] = "test"]
  /\ UNCHANGED <<vars, inputVars, crashPackets, joined>>

CrashThread(p) == TestTerminate(p) \/ ReceiveCrash(p) \/ CrashTimeout(p)

\* The main thread is back from run(); the destructor joins the crash thread.
Join(p) ==
  /\ pc[p] = "exited"
  /\ crashPc[p] = "done"
  /\ p \notin joined
  /\ joined' = joined \cup {p}
  /\ UNCHANGED <<vars, inputVars, crashPackets, crashPc>>

-----------------------------------------------------------------------------
MainThread(p) == (Step(p) /\ UNCHANGED controlVars) \/ Join(p)

InputThread == (\E line \in Line : ReadLine(line)) \/ ReadAfterFailure \/ ActOnInput

\* MPI_Finalize lets nobody through before everybody is there.
Finalized == joined = Process /\ UNCHANGED <<vars, controlVars>>

ControlNext ==
  \/ InputThread
  \/ \E p \in Process : MainThread(p) \/ CrashThread(p)
  \/ Finalized

ControlSafetySpec == ControlInit /\ [][ControlNext]_<<vars, controlVars>>

\* The threads run.  The operator owes nothing, not even an input that is read.
ControlSpec ==
  /\ ControlSafetySpec
  /\ \A p \in Process : /\ WF_<<vars, controlVars>>(MainThread(p))
                        /\ WF_<<vars, controlVars>>(CrashThread(p))

-----------------------------------------------------------------------------
(***************************************************************************)
(* Properties.                                                             *)
(***************************************************************************)

\* The threads' variables have their types.
ControlTypeOK ==
  /\ TypeOK
  /\ typed \in [Line -> 0 .. MAX_READS]
  /\ failed \in BOOLEAN
  /\ reads \in 0 .. MAX_READS
  /\ processToKill \in Garbage \cup {NOTHING}
  /\ crashPackets \in [Cohort -> 0 .. MAX_READS]
  /\ crashPc \in [Process -> {"test", "receive", "done"}]
  /\ joined \subseteq Process

\* As long as the operator types numbers, all these threads do to the protocol
\* is the Signal of ThreePC, and only to processes whose number may be typed:
\* every property of ThreePC's safety holds with the threads in place.
ImplementsThreePC == SafetySpec

\* The program exits: every main thread ends and no destructor waits for ever
\* for a crash thread that waits for a packet.
ProgramExits == <>(joined = Process)

\* How often the number of p was typed.
TimesTyped(p) == IF p \in Line THEN typed[p] ELSE 0

\* No kill is lost before its process has left run(): a number typed is being
\* acted on, has raised the flag of the process it names, or is on its way in a
\* CRASH packet.  A packet that nobody will take counts only if it is too late
\* for it: the crash thread of p takes no last turn while p is still in run().
NoKillIsLost ==
  \A p \in Process :
    TimesTyped(p) > 0 => \/ processToKill = p
                         \/ crashSignalReceived[p]
                         \/ /\ p \in Cohort /\ crashPackets[p] > 0
                            /\ crashPc[p] = "done" => pc[p] = "exited"

\* What MPI must buffer for no MPI_Send to wait for the recipient, which it would
\* do with the communicator's mutex held: two packets of the protocol to each
\* member and one of each member.  A CRASH packet goes the same way and, once the
\* crash thread of its member has ended, is never received: each time the number
\* of a member is typed takes the room of one more.
SendsAreBuffered ==
  \A m \in Cohort :
    /\ Len(sent) - received[m] + crashPackets[m] <= 2 + TimesTyped(m)
    /\ Len(replies[m]) - taken[m] <= 1

\* README: `You can force a certain node to crash by inputting its number'.
\* Only a process whose number was typed is ever signalled.
OnlyTheNamedCrash ==
  \A p \in Process : crashSignalReceived[p] => TimesTyped(p) > 0

=============================================================================
