----------------------- MODULE OptimizedCommunicator ------------------------
(***************************************************************************)
(* MpiOptimizedCommunicator and the Logger as the threads of several       *)
(* processes use them: every process has one communicator, whose clock and *)
(* mutex its threads share.  A thread sends, receives with a tag of its    *)
(* own, and logs what it did, in any order.                                *)
(*                                                                         *)
(* MPI is modelled by what the code relies on: a send returns once the     *)
(* packet is buffered, and the packets of one sender, recipient and tag    *)
(* are received in the order they were sent.                               *)
(***************************************************************************)
EXTENDS Naturals, Sequences, FiniteSets

CONSTANTS
  Process, Thread, Tag,
  Home,       \* Home[t]: the process of thread t
  SendTag,    \* SendTag[t]: the tag t sends with, NoTag if it never sends
  RecvTag,    \* RecvTag[t]: the tag t receives with, NoTag if it never does
  NoTag, NoThread,
  MAX_SENDS,  \* MAX_SENDS[t], bound: how often t sends
  KEEP_LOG    \* whether `log' keeps the lines logged, which nothing reads

ASSUME ThreadAssumption ==
  /\ Home \in [Thread -> Process]
  /\ SendTag \in [Thread -> Tag \cup {NoTag}] /\ RecvTag \in [Thread -> Tag \cup {NoTag}]
  /\ NoTag \notin Tag /\ NoThread \notin Thread
  /\ MAX_SENDS \in [Thread -> Nat] /\ KEEP_LOG \in BOOLEAN
  \* the main thread receives with the default tag, the crash thread with its own
  /\ \A t, u \in Thread : t # u /\ Home[t] = Home[u] /\ RecvTag[t] = RecvTag[u]
                            => RecvTag[t] = NoTag

VARIABLES
  currentLamportTime,   \* currentLamportTime[p]
  communicationMutex,   \* communicationMutex[p]: the thread that holds it
  loggerMutex,          \* loggerMutex[p]: the same for Logger::mutex
  net,                  \* net[<<p, q, tag>>]: the timestamps on their way from p to q
  pc,                   \* pc[t]: where thread t is
  todo,                 \* todo[t]: the recipients the send of t has still to serve
  hand,                 \* hand[t]: the packet t has sent, probed or received
  lamportTime,          \* lamportTime[t]: that field of the Packet t got in return
  sends,                \* sends[t]: how often t has sent
  log                   \* the lines logged for packets

sharedVars == <<currentLamportTime, communicationMutex, loggerMutex, net>>
threadVars == <<pc, todo, hand, lamportTime, sends>>
vars == <<sharedVars, threadVars, log>>

Channel == Process \X Process \X Tag

NoPacket == [from |-> NoThread, ts |-> 0]

Init ==
  /\ currentLamportTime = [p \in Process |-> 0]
  /\ communicationMutex = [p \in Process |-> NoThread]
  /\ loggerMutex = [p \in Process |-> NoThread]
  /\ net = [c \in Channel |-> <<>>]
  /\ pc = [t \in Thread |-> "idle"]
  /\ todo = [t \in Thread |-> {}]
  /\ hand = [t \in Thread |-> NoPacket]
  /\ lamportTime = [t \in Thread |-> 0]
  /\ sends = [t \in Thread |-> 0]
  /\ log = {}

Clock(t) == currentLamportTime[Home[t]]

Free(mutex, t) == mutex[Home[t]] = NoThread

Take(mutex, t) == Free(mutex, t) /\ mutex' = [mutex EXCEPT ![Home[t]] = t]

Release(mutex, t) == mutex' = [mutex EXCEPT ![Home[t]] = NoThread]

Goto(t, from, to) == pc[t] = from /\ pc' = [pc EXCEPT ![t] = to]

-----------------------------------------------------------------------------
(***************************************************************************)
(* send(): all of it under communicationMutex.                             *)
(***************************************************************************)

\* Mutant: the lock covers the increment and the encoding only.
BeginSendBriefly(t, R) ==
  /\ SendTag[t] # NoTag /\ sends[t] < MAX_SENDS[t]
  /\ Goto(t, "idle", "sending")
  /\ Free(communicationMutex, t)
  /\ currentLamportTime' = [currentLamportTime EXCEPT ![Home[t]] = @ + 1]
  /\ hand' = [hand EXCEPT ![t] = [from |-> Home[t], ts |-> Clock(t) + 1]]
  /\ todo' = [todo EXCEPT ![t] = R]
  /\ sends' = [sends EXCEPT ![t] = @ + 1]
  /\ UNCHANGED <<communicationMutex, loggerMutex, net, lamportTime, log>>

\* Lock, advance the clock and encode it.
BeginSend(t, R) ==
  /\ SendTag[t] # NoTag /\ sends[t] < MAX_SENDS[t]
  /\ Goto(t, "idle", "sending")
  /\ Take(communicationMutex, t)
  /\ currentLamportTime' = [currentLamportTime EXCEPT ![Home[t]] = @ + 1]
  /\ hand' = [hand EXCEPT ![t] = [from |-> Home[t], ts |-> Clock(t) + 1]]
  /\ todo' = [todo EXCEPT ![t] = R]
  /\ sends' = [sends EXCEPT ![t] = @ + 1]
  /\ UNCHANGED <<loggerMutex, net, lamportTime, log>>

\* One MPI_Send.
SendTo(t, q) ==
  /\ pc[t] = "sending"
  /\ q \in todo[t]
  /\ net' = [net EXCEPT ![<<Home[t], q, SendTag[t]>>] = Append(@, hand[t].ts)]
  /\ todo' = [todo EXCEPT ![t] = @ \ {q}]
  /\ UNCHANGED <<currentLamportTime, communicationMutex, loggerMutex, pc, hand,
                 lamportTime, sends, log>>

\* Mutant: lock() for lock_guard, and no unlock().
EndSendLocked(t) ==
  /\ Goto(t, "sending", "log")
  /\ todo[t] = {}
  /\ lamportTime' = [lamportTime EXCEPT ![t] = Clock(t)]
  /\ UNCHANGED <<sharedVars, todo, hand, sends, log>>

\* Return the Packet, with the clock read once more, and unlock.
EndSend(t) ==
  /\ Goto(t, "sending", "log")
  /\ todo[t] = {}
  /\ lamportTime' = [lamportTime EXCEPT ![t] = Clock(t)]
  /\ Release(communicationMutex, t)
  /\ UNCHANGED <<currentLamportTime, loggerMutex, net, todo, hand, sends, log>>

-----------------------------------------------------------------------------
(***************************************************************************)
(* receive(): the probe and the receive take no lock.  A receive that      *)
(* times out changes nothing here.                                         *)
(***************************************************************************)

\* Mutant: the probe is for any tag.
ProbeAnyTag(t, p) ==
  /\ Goto(t, "idle", "probed")
  /\ RecvTag[t] # NoTag
  /\ \E tag \in Tag : net[<<p, Home[t], tag>>] # <<>>
  /\ hand' = [hand EXCEPT ![t] = [from |-> p, ts |-> 0]]
  /\ UNCHANGED <<sharedVars, todo, lamportTime, sends, log>>

\* Mutant: the status of the probe is ignored.
ProbeBlindly(t, p) ==
  /\ Goto(t, "idle", "probed")
  /\ RecvTag[t] # NoTag
  /\ net[<<p, Home[t], RecvTag[t]>>] # <<>>
  /\ hand' = [hand EXCEPT ![t] = [from |-> NoTag, ts |-> 0]]
  /\ UNCHANGED <<sharedVars, todo, lamportTime, sends, log>>

\* MPI_Iprobe, or MPI_Probe in the receive without a timeout, finds a packet of p.
Probe(t, p) ==
  /\ Goto(t, "idle", "probed")
  /\ RecvTag[t] # NoTag
  /\ net[<<p, Home[t], RecvTag[t]>>] # <<>>
  /\ hand' = [hand EXCEPT ![t] = [from |-> p, ts |-> 0]]
  /\ UNCHANGED <<sharedVars, todo, lamportTime, sends, log>>

Probed(t) == <<hand[t].from, Home[t], RecvTag[t]>>

\* MPI_Recv takes the first packet of that sender.
Recv(t) ==
  /\ Goto(t, "probed", "received")
  /\ net[Probed(t)] # <<>>
  /\ hand' = [hand EXCEPT ![t].ts = Head(net[Probed(t)])]
  /\ net' = [net EXCEPT ![Probed(t)] = Tail(@)]
  /\ UNCHANGED <<currentLamportTime, communicationMutex, loggerMutex, todo,
                 lamportTime, sends, log>>

\* Mutant: the clock of the sender wins.
Adopted(time, clock) == time + 1

\* std::max(packet.lamportTime, currentLamportTime) + 1
Merged(time, clock) == (IF time > clock THEN time ELSE clock) + 1

\* updateTimestamp, the block under the lock.
UpdateClock(t) ==
  /\ Goto(t, "received", "updated")
  /\ Free(communicationMutex, t)
  /\ currentLamportTime' = [currentLamportTime EXCEPT ![Home[t]] = Merged(hand[t].ts, @)]
  /\ lamportTime' = [lamportTime EXCEPT ![t] = Merged(hand[t].ts, Clock(t))]
  /\ UNCHANGED <<communicationMutex, loggerMutex, net, todo, hand, sends, log>>

\* Its last line reads the clock without the lock: the packet gets the value
\* just written, or a later one another thread has written since.
StampPacket(t) ==
  /\ Goto(t, "updated", "log")
  /\ \E time \in lamportTime[t] .. Clock(t) : lamportTime' = [lamportTime EXCEPT ![t] = time]
  /\ UNCHANGED <<sharedVars, todo, hand, sends, log>>

-----------------------------------------------------------------------------
(***************************************************************************)
(* Logger::log, which the caller of send and receive calls next: it takes  *)
(* the Logger's mutex and, to read the clock, the communicator's.          *)
(***************************************************************************)

BeginLog(t) ==
  /\ Goto(t, "log", "logging")
  /\ Take(loggerMutex, t)
  /\ UNCHANGED <<currentLamportTime, communicationMutex, net, todo, hand, lamportTime,
                 sends, log>>

\* The line bears the clock as it is now, not the packet's timestamp.
LogLine(t) == [line |-> IF hand[t].from = Home[t] THEN "sent" ELSE "received",
               packet |-> hand[t], at |-> Clock(t)]

EndLog(t) ==
  /\ Goto(t, "logging", "idle")
  /\ Free(communicationMutex, t)
  /\ log' = IF KEEP_LOG THEN log \cup {LogLine(t)} ELSE log
  /\ hand' = [hand EXCEPT ![t] = NoPacket]
  /\ lamportTime' = [lamportTime EXCEPT ![t] = 0]
  /\ Release(loggerMutex, t)
  /\ UNCHANGED <<currentLamportTime, communicationMutex, net, todo, sends>>

-----------------------------------------------------------------------------
\* What a thread that has begun something does next.
Continue(t) ==
  \/ \E q \in Process : SendTo(t, q)
  \/ EndSend(t)
  \/ Recv(t)
  \/ UpdateClock(t)
  \/ StampPacket(t)
  \/ BeginLog(t)
  \/ EndLog(t)

\* What an idle thread may begin.
Begin(t) ==
  \/ \E R \in SUBSET (Process \ {Home[t]}) : R # {} /\ BeginSend(t, R)
  \/ \E p \in Process : Probe(t, p)

\* Nothing is left to send or to receive.
Quiet ==
  /\ \A t \in Thread : pc[t] = "idle" /\ (SendTag[t] # NoTag => sends[t] = MAX_SENDS[t])
  /\ \A t \in Thread, p \in Process : RecvTag[t] # NoTag => net[<<p, Home[t], RecvTag[t]>>] = <<>>
  /\ UNCHANGED vars

Next == (\E t \in Thread : Begin(t) \/ Continue(t)) \/ Quiet

SafetySpec == Init /\ [][Next]_vars

\* A thread inside a call goes on as soon as the locks it needs are free.
Spec == SafetySpec /\ \A t \in Thread : WF_vars(Continue(t))

-----------------------------------------------------------------------------
(***************************************************************************)
(* Properties.                                                             *)
(***************************************************************************)

\* The variables have their types.
TypeOK ==
  /\ currentLamportTime \in [Process -> Nat]
  /\ communicationMutex \in [Process -> Thread \cup {NoThread}]
  /\ loggerMutex \in [Process -> Thread \cup {NoThread}]
  /\ net \in [Channel -> Seq(Nat)]
  /\ pc \in [Thread -> {"idle", "sending", "probed", "received", "updated", "log", "logging"}]
  /\ todo \in [Thread -> SUBSET Process]
  /\ hand \in [Thread -> [from : Process \cup {NoThread}, ts : Nat]]
  /\ lamportTime \in [Thread -> Nat]
  /\ \A t \in Thread : sends[t] \in 0 .. MAX_SENDS[t]
  /\ log \subseteq [line : {"sent", "received"},
                    packet : [from : Process, ts : Nat], at : Nat]

\* The Packet send returns bears the timestamp that went over the wire, and the
\* one receive returns a later one than that, although the clock is read again
\* after the packets are out, or after the lock is gone.
PacketsAreStamped ==
  \A t \in Thread :
    pc[t] \in {"log", "logging"}
      => IF hand[t].from = Home[t] THEN lamportTime[t] = hand[t].ts
                                   ELSE lamportTime[t] > hand[t].ts

\* The packet a thread has probed is still there when it receives it: no other
\* thread of the process takes it in between.
ProbedIsThere ==
  \A t \in Thread : pc[t] = "probed" => net[Probed(t)] # <<>>

\* Where thread t is says what it holds, what packet it has in hand, and how the
\* two timestamps and the clock compare.
ThreadHistory(t) ==
  /\ pc[t] = "sending" <=> communicationMutex[Home[t]] = t
  /\ pc[t] = "logging" <=> loggerMutex[Home[t]] = t
  /\ Home[t] \notin todo[t]
  /\ pc[t] = "sending"
       => SendTag[t] # NoTag /\ hand[t] = [from |-> Home[t], ts |-> Clock(t)]
  /\ pc[t] \in {"probed", "received", "updated"}
       => RecvTag[t] # NoTag /\ hand[t].from \in Process \ {Home[t]}
  /\ pc[t] = "probed" => net[Probed(t)] # <<>>
  /\ pc[t] = "updated" => hand[t].ts < lamportTime[t] /\ lamportTime[t] <= Clock(t)
  /\ pc[t] \in {"log", "logging"}
       => /\ hand[t].from \in Process
          /\ IF hand[t].from = Home[t] THEN lamportTime[t] = hand[t].ts
                                       ELSE lamportTime[t] > hand[t].ts

\* The inductive invariant behind the two properties above.  A process never
\* sends to itself, and so it tells what it sent from what it received.
IndInv ==
  /\ TypeOK
  /\ \A p \in Process, tag \in Tag : net[<<p, p, tag>>] = <<>>
  /\ \A t \in Thread : ThreadHistory(t)

\* What a packet on its way is like: its sender's clock has not gone back behind
\* it, and no other packet from that process to the same recipient bears its
\* timestamp.  It is on the network, in the hands of a thread that has yet to
\* send it, or of one that has received it and not advanced the clock.
OnNetwork ==
  \A p, q \in Process : \A tag, other \in Tag :
    \A i \in DOMAIN net[<<p, q, tag>>] :
      /\ net[<<p, q, tag>>][i] <= currentLamportTime[p]
      /\ \A j \in DOMAIN net[<<p, q, other>>] :
           net[<<p, q, tag>>][i] = net[<<p, q, other>>][j] => tag = other /\ i = j

YetToSend(t) ==
  todo[t] # {} =>
    /\ pc[t] = "sending"
    /\ \A q \in todo[t], tag \in Tag : \A i \in DOMAIN net[<<Home[t], q, tag>>] :
         net[<<Home[t], q, tag>>][i] # hand[t].ts

JustReceived(t) ==
  pc[t] = "received" =>
    /\ hand[t].ts <= currentLamportTime[hand[t].from]
    /\ \A tag \in Tag : \A i \in DOMAIN net[<<hand[t].from, Home[t], tag>>] :
         net[<<hand[t].from, Home[t], tag>>][i] # hand[t].ts
    /\ \A u \in Thread \ {t} :
         Home[t] \in todo[u] \/ (pc[u] = "received" /\ Home[u] = Home[t])
           => hand[u] # hand[t]

\* With IndInv, inductive: two threads of a process that send at the same time
\* never give out one timestamp twice.
TimestampsDiffer ==
  OnNetwork /\ \A t \in Thread : YetToSend(t) /\ JustReceived(t)

\* The clocks behave as if send and receive were atomic, whatever the threads
\* of a process do at the same time.
inTransitBar ==
  LET OnTheNetwork == {{[from |-> c[1], to |-> c[2], ts |-> net[c][i]] : i \in DOMAIN net[c]}
                         : c \in Channel}
      WithSenders == {{[from |-> Home[t], to |-> q, ts |-> hand[t].ts] : q \in todo[t]}
                         : t \in Thread}
      WithRecipients == {[from |-> hand[t].from, to |-> Home[t], ts |-> hand[t].ts]
                         : t \in {u \in Thread : pc[u] = "received"}}
  IN (UNION OnTheNetwork) \cup (UNION WithSenders) \cup WithRecipients

Abstract == INSTANCE LogicalClock WITH clock <- currentLamportTime, inTransit <- inTransitBar,
                                       faulty <- {}, wrapped <- {}

ImplementsLogicalClock == Abstract!Spec

\* No thread waits for ever, for a mutex or for a packet it has probed.
CallsReturn == \A t \in Thread : []<>(pc[t] = "idle")

\* README: the log sorted by timestamp `is crucial for analysing the program
\* runtime'.  The line of a packet's sending sorts before that of its receipt.
SortedLogIsCausal ==
  \A s, r \in log :
    s.line = "sent" /\ r.line = "received" /\ s.packet = r.packet => s.at <= r.at

=============================================================================
