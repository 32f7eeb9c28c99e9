--------------------- MODULE OptimizedCommunicatorProof ---------------------
(***************************************************************************)
(* Proofs about OptimizedCommunicator, for any number of processes,        *)
(* threads and tags: the inductive invariant, what follows from it of the  *)
(* timestamps and the probes, and the refinement of LogicalClock.          *)
(***************************************************************************)
EXTENDS OptimizedCommunicator, TLAPS

\* Before anybody has called anything.
LEMMA InitIndInv == Init => IndInv
<1> SUFFICES ASSUME Init PROVE IndInv
  OBVIOUS
<1> USE ThreadAssumption DEF Init
<1>1. TypeOK
  BY DEF TypeOK, Channel, NoPacket
<1>2. \A p \in Process, tag \in Tag : net[<<p, p, tag>>] = <<>>
  BY DEF Channel
<1>3. ASSUME NEW t \in Thread PROVE ThreadHistory(t)
  BY DEF ThreadHistory
<1>4. QED
  BY <1>1, <1>2, <1>3 DEF IndInv

\* What a step of t leaves alone for the other threads: their own fields, and
\* the locks they hold.
LEMMA OthersFrame ==
  ASSUME IndInv, NEW t \in Thread, NEW u \in Thread, u # t,
         UNCHANGED <<pc[u], todo[u], hand[u], lamportTime[u]>>,
         \/ UNCHANGED communicationMutex[Home[u]]
         \/ communicationMutex[Home[u]] \in {NoThread, t} /\ communicationMutex'[Home[u]] \in {NoThread, t},
         \/ UNCHANGED loggerMutex[Home[u]]
         \/ loggerMutex[Home[u]] \in {NoThread, t} /\ loggerMutex'[Home[u]] \in {NoThread, t},
         Clock(u)' >= Clock(u), pc[u] = "sending" => Clock(u)' = Clock(u),
         pc[u] = "probed" => net'[Probed(u)] # <<>>,
         Clock(u) \in Nat, Clock(u)' \in Nat
  PROVE  ThreadHistory(u)'
<1>1. ThreadHistory(u) /\ lamportTime[u] \in Nat /\ u # NoThread
  BY ThreadAssumption DEF IndInv, TypeOK
<1>2. Probed(u)' = Probed(u)
  BY DEF Probed
<1>3. (pc[u] = "sending" <=> communicationMutex[Home[u]] = u)'
  BY <1>1 DEF ThreadHistory
<1>4. (pc[u] = "logging" <=> loggerMutex[Home[u]] = u)'
  BY <1>1 DEF ThreadHistory
<1>5. pc[u] = "updated" => lamportTime[u] <= Clock(u)'
  BY <1>1 DEF ThreadHistory
<1>6. QED
  BY <1>1, <1>2, <1>3, <1>4, <1>5 DEF ThreadHistory

\* What the invariant and the assumptions say of one thread.
LEMMA ThreadFacts ==
  ASSUME IndInv, NEW t \in Thread
  PROVE  /\ TypeOK /\ ThreadHistory(t)
         /\ t # NoThread /\ Home[t] \in Process /\ Clock(t) \in Nat
         /\ hand[t] \in [from : Process \cup {NoThread}, ts : Nat]
         /\ todo[t] \subseteq Process /\ lamportTime[t] \in Nat /\ sends[t] \in 0 .. MAX_SENDS[t]
         /\ SendTag[t] # NoTag => SendTag[t] \in Tag
         /\ RecvTag[t] # NoTag => RecvTag[t] \in Tag
BY ThreadAssumption DEF IndInv, TypeOK, Clock

-----------------------------------------------------------------------------
\* send() begins: the lock is t's, and the clock is what it sends.
LEMMA BeginSendStep ==
  ASSUME IndInv, NEW t \in Thread, NEW R \in SUBSET (Process \ {Home[t]}), BeginSend(t, R)
  PROVE  IndInv'
<1> USE ThreadAssumption DEF BeginSend, Goto, Take, Free, Clock
<1>1. TypeOK /\ t # NoThread /\ Home[t] \in Process /\ Clock(t) \in Nat
  BY ThreadFacts
<1>2. TypeOK'
  <2>1. hand' \in [Thread -> [from : Process \cup {NoThread}, ts : Nat]]
    BY <1>1 DEF TypeOK
  <2>2. \A u \in Thread : sends'[u] \in 0 .. MAX_SENDS[u]
    BY <1>1 DEF TypeOK
  <2>3. QED
    BY <1>1, <2>1, <2>2 DEF TypeOK
<1>3. ThreadHistory(t)'
  <2>1. /\ pc'[t] = "sending" /\ pc[t] = "idle" /\ communicationMutex'[Home[t]] = t
        /\ UNCHANGED loggerMutex /\ todo'[t] = R /\ SendTag[t] # NoTag
        /\ currentLamportTime'[Home[t]] = Clock(t) + 1
        /\ hand'[t] = [from |-> Home[t], ts |-> Clock(t) + 1]
    BY <1>1 DEF TypeOK
  <2>2. loggerMutex[Home[t]] # t
    BY <2>1, ThreadFacts DEF ThreadHistory
  <2>3. QED
    BY <2>1, <2>2 DEF ThreadHistory
<1>4. ASSUME NEW u \in Thread, u # t PROVE ThreadHistory(u)'
  <2>1. ThreadHistory(u) /\ Home[u] \in Process /\ Clock(u) \in Nat /\ u # NoThread
    BY ThreadFacts
  <2>2. /\ UNCHANGED <<pc[u], todo[u], hand[u], lamportTime[u], net, loggerMutex>>
        /\ Home[u] # Home[t] => UNCHANGED <<communicationMutex[Home[u]], Clock(u)>>
        /\ Home[u] = Home[t] => /\ communicationMutex[Home[u]] = NoThread
                                /\ communicationMutex'[Home[u]] = t
                                /\ Clock(u)' = Clock(u) + 1
    BY <1>1, <1>4, <2>1 DEF TypeOK
  <2>3. Home[u] = Home[t] => pc[u] # "sending"
    BY <2>1, <2>2 DEF ThreadHistory
  <2>4. pc[u] = "probed" => net'[Probed(u)] # <<>>
    BY <2>1, <2>2 DEF ThreadHistory
  <2>5. Clock(u)' \in Nat /\ Clock(u)' >= Clock(u)
    BY <2>1, <2>2
  <2> HIDE DEF Clock
  <2>6. QED
    BY <1>4, <2>1, <2>2, <2>3, <2>4, <2>5, OthersFrame
<1>5. QED
  BY <1>2, <1>3, <1>4 DEF IndInv

\* A queue to which something was added is not empty.
LEMMA AppendedIsNotEmpty ==
  ASSUME NEW line \in Seq(Nat), NEW n \in Nat
  PROVE  Append(line, n) # <<>>
<1>1. Len(Append(line, n)) = Len(line) + 1 /\ Len(line) \in Nat
  OBVIOUS
<1>2. QED
  BY <1>1

\* One packet leaves, for another process.
LEMMA SendToStep ==
  ASSUME IndInv, NEW t \in Thread, NEW q \in Process, SendTo(t, q)
  PROVE  IndInv'
<1> USE ThreadAssumption DEF SendTo, Clock
<1> DEFINE c == <<Home[t], q, SendTag[t]>>
<1>1. /\ TypeOK /\ ThreadHistory(t) /\ c \in Channel
      /\ hand[t].ts \in Nat /\ q # Home[t]
  <2>1. /\ TypeOK /\ ThreadHistory(t) /\ Home[t] \in Process
        /\ hand[t] \in [from : Process \cup {NoThread}, ts : Nat]
        /\ SendTag[t] # NoTag => SendTag[t] \in Tag
    BY ThreadFacts
  <2>2. SendTag[t] # NoTag /\ q # Home[t]
    BY <2>1 DEF ThreadHistory
  <2>3. QED
    BY <2>1, <2>2 DEF Channel
<1>2. net' \in [Channel -> Seq(Nat)] /\ net'[c] = Append(net[c], hand[t].ts)
  BY <1>1 DEF TypeOK
<1>3. TypeOK'
  <2>1. todo' \in [Thread -> SUBSET Process]
    BY <1>1 DEF TypeOK
  <2>2. QED
    BY <1>1, <1>2, <2>1 DEF TypeOK
<1>4. \A d \in Channel : net'[d] = net[d] \/ net'[d] # <<>>
  <2>1. net[c] \in Seq(Nat)
    BY <1>1 DEF TypeOK
  <2>2. Append(net[c], hand[t].ts) # <<>>
    BY <1>1, <2>1, AppendedIsNotEmpty
  <2>3. QED
    BY <1>1, <1>2, <2>2 DEF TypeOK
<1>5. ASSUME NEW p \in Process, NEW tag \in Tag PROVE net'[<<p, p, tag>>] = <<>>
  BY <1>1 DEF IndInv, TypeOK, Channel
<1>6. ThreadHistory(t)'
  BY <1>1 DEF ThreadHistory, TypeOK, Probed
<1>7. ASSUME NEW u \in Thread, u # t PROVE ThreadHistory(u)'
  <2>1. ThreadHistory(u) /\ Clock(u) \in Nat
    BY ThreadFacts
  <2>2. pc[u] = "probed" => Probed(u) \in Channel
    BY <2>1, ThreadFacts DEF ThreadHistory, Probed, Channel
  <2>3. pc[u] = "probed" => net'[Probed(u)] # <<>>
    BY <1>4, <2>1, <2>2 DEF ThreadHistory
  <2>4. UNCHANGED <<pc[u], todo[u], hand[u], lamportTime[u]>>
    BY <1>1, <1>7 DEF TypeOK
  <2>5. Clock(u)' >= Clock(u)
    BY <2>1
  <2>6. QED
    BY <1>7, <2>1, <2>3, <2>4, <2>5, OthersFrame
<1>8. QED
  BY <1>3, <1>5, <1>6, <1>7 DEF IndInv

\* send() returns: the clock is still the one that was sent.
LEMMA EndSendStep ==
  ASSUME IndInv, NEW t \in Thread, EndSend(t)
  PROVE  IndInv'
<1> USE ThreadAssumption DEF EndSend, Goto, Release, Clock
<1>1. /\ TypeOK /\ ThreadHistory(t) /\ t # NoThread
      /\ Home[t] \in Process /\ Clock(t) \in Nat /\ pc[t] = "sending"
  BY ThreadFacts
<1>2. TypeOK'
  BY <1>1 DEF TypeOK
<1>3. ThreadHistory(t)'
  <2>1. /\ pc'[t] = "log" /\ communicationMutex'[Home[t]] = NoThread
        /\ lamportTime'[t] = Clock(t) /\ UNCHANGED <<hand, loggerMutex, todo>>
    BY <1>1 DEF TypeOK
  <2>2. hand[t] = [from |-> Home[t], ts |-> Clock(t)]
    BY <1>1 DEF ThreadHistory
  <2>3. loggerMutex[Home[t]] # t /\ Home[t] \notin todo[t]
    BY <1>1 DEF ThreadHistory
  <2>4. QED
    BY <1>1, <2>1, <2>2, <2>3 DEF ThreadHistory
<1>4. ASSUME NEW u \in Thread, u # t PROVE ThreadHistory(u)'
  <2>1. ThreadHistory(u) /\ Home[u] \in Process /\ Clock(u) \in Nat
    BY ThreadFacts
  <2>2. /\ UNCHANGED <<pc[u], todo[u], hand[u], lamportTime[u], net, loggerMutex>>
        /\ Clock(u)' = Clock(u)
        /\ Home[u] # Home[t] => UNCHANGED communicationMutex[Home[u]]
        /\ Home[u] = Home[t] => /\ communicationMutex[Home[u]] = t
                                /\ communicationMutex'[Home[u]] = NoThread
    BY <1>1, <1>4, <2>1 DEF TypeOK, ThreadHistory
  <2>3. pc[u] = "probed" => net'[Probed(u)] # <<>>
    BY <2>1, <2>2 DEF ThreadHistory
  <2>4. Clock(u)' >= Clock(u)
    BY <2>1, <2>2
  <2> HIDE DEF Clock
  <2>5. QED
    BY <1>4, <2>1, <2>2, <2>3, <2>4, OthersFrame
<1>5. QED
  BY <1>2, <1>3, <1>4 DEF IndInv

-----------------------------------------------------------------------------
\* A packet is probed: it is not of t's own process.
LEMMA ProbeStep ==
  ASSUME IndInv, NEW t \in Thread, NEW p \in Process, Probe(t, p)
  PROVE  IndInv'
<1> USE ThreadAssumption DEF Probe, Goto, Clock, sharedVars
<1>1. /\ TypeOK /\ ThreadHistory(t) /\ Home[t] \in Process /\ RecvTag[t] \in Tag
      /\ pc[t] = "idle"
  BY ThreadFacts
<1>2. TypeOK'
  BY <1>1 DEF TypeOK
<1>3. p # Home[t]
  BY <1>1 DEF IndInv
<1>4. ThreadHistory(t)'
  <2>1. pc'[t] = "probed" /\ hand'[t] = [from |-> p, ts |-> 0]
    BY <1>1 DEF TypeOK
  <2>2. net'[Probed(t)'] # <<>>
    <3>1. Probed(t)' = <<p, Home[t], RecvTag[t]>>
      BY <2>1 DEF Probed
    <3>2. QED
      BY <3>1
  <2>3. communicationMutex[Home[t]] # t /\ loggerMutex[Home[t]] # t /\ Home[t] \notin todo[t]
    BY <1>1 DEF ThreadHistory
  <2>4. QED
    BY <1>1, <1>3, <2>1, <2>2, <2>3 DEF ThreadHistory
<1>5. ASSUME NEW u \in Thread, u # t PROVE ThreadHistory(u)'
  <2>1. ThreadHistory(u) /\ Clock(u) \in Nat
    BY ThreadFacts
  <2>2. UNCHANGED <<pc[u], todo[u], hand[u], lamportTime[u], Clock(u)>>
    BY <1>1, <1>5 DEF TypeOK
  <2>3. pc[u] = "probed" => net'[Probed(u)] # <<>>
    BY <2>1 DEF ThreadHistory
  <2>4. Clock(u)' >= Clock(u)
    BY <2>1, <2>2
  <2> HIDE DEF Clock
  <2>5. QED
    BY <1>5, <2>1, <2>2, <2>3, <2>4, OthersFrame
<1>6. QED
  BY <1>2, <1>4, <1>5 DEF IndInv

\* It is received.  What another thread of the process has probed is of another
\* tag, and still there.
LEMMA RecvStep ==
  ASSUME IndInv, NEW t \in Thread, Recv(t)
  PROVE  IndInv'
<1> USE ThreadAssumption DEF Recv, Goto, Clock
<1>1. /\ TypeOK /\ ThreadHistory(t) /\ Home[t] \in Process /\ RecvTag[t] \in Tag
      /\ pc[t] = "probed" /\ hand[t].from \in Process \ {Home[t]} /\ RecvTag[t] # NoTag
  BY ThreadFacts DEF ThreadHistory
<1>2. /\ Probed(t) \in Channel /\ net[Probed(t)] \in Seq(Nat) /\ net[Probed(t)] # <<>>
      /\ Probed(t) = <<hand[t].from, Home[t], RecvTag[t]>>
  BY <1>1 DEF TypeOK, Channel, Probed
<1>3. Head(net[Probed(t)]) \in Nat /\ Tail(net[Probed(t)]) \in Seq(Nat)
  BY <1>2
<1> HIDE DEF Probed
<1>4. TypeOK'
  <2>1. net' \in [Channel -> Seq(Nat)]
    BY <1>1, <1>2, <1>3 DEF TypeOK
  <2>2. hand' \in [Thread -> [from : Process \cup {NoThread}, ts : Nat]]
    <3> DEFINE n == Head(net[Probed(t)])
    <3>1. hand[t] \in [from : Process \cup {NoThread}, ts : Nat] /\ n \in Nat
      BY <1>3, ThreadFacts
    <3>2. hand' = [hand EXCEPT ![t] = [hand[t] EXCEPT !.ts = n]]
      OBVIOUS
    <3> HIDE DEF n
    <3>3. [hand[t] EXCEPT !.ts = n] \in [from : Process \cup {NoThread}, ts : Nat]
      BY <3>1
    <3>4. QED
      BY <1>1, <3>2, <3>3 DEF TypeOK
  <2>3. QED
    BY <1>1, <2>1, <2>2 DEF TypeOK
<1>5. ASSUME NEW p \in Process, NEW tag \in Tag PROVE net'[<<p, p, tag>>] = <<>>
  <2>1. <<p, p, tag>> # Probed(t)
    BY <1>1, <1>2
  <2>2. QED
    BY <1>1, <2>1 DEF IndInv, TypeOK, Channel
<1>6. ThreadHistory(t)'
  <2>1. pc'[t] = "received" /\ hand'[t].from = hand[t].from
    BY <1>1 DEF TypeOK
  <2>2. communicationMutex[Home[t]] # t /\ loggerMutex[Home[t]] # t /\ Home[t] \notin todo[t]
    BY <1>1 DEF ThreadHistory
  <2>3. QED
    BY <1>1, <2>1, <2>2 DEF ThreadHistory
<1>7. ASSUME NEW u \in Thread, u # t PROVE ThreadHistory(u)'
  <2>1. ThreadHistory(u) /\ Clock(u) \in Nat
    BY ThreadFacts
  <2>2. UNCHANGED <<pc[u], todo[u], hand[u], lamportTime[u], Clock(u)>>
    BY <1>1, <1>7 DEF TypeOK
  <2>3. ASSUME pc[u] = "probed" PROVE net'[Probed(u)] # <<>>
    <3>1. RecvTag[u] # NoTag /\ RecvTag[u] \in Tag /\ hand[u].from \in Process /\ Home[u] \in Process
      BY <2>1, <2>3, ThreadFacts DEF ThreadHistory
    <3>2. Probed(u) = <<hand[u].from, Home[u], RecvTag[u]>> /\ Probed(u) \in Channel
      BY <3>1 DEF Probed, Channel
    <3>3. Home[u] # Home[t] \/ RecvTag[u] # RecvTag[t]
      BY <1>1, <1>7, <3>1
    <3>4. Probed(u) # Probed(t)
      BY <1>2, <3>2, <3>3
    <3>5. QED
      BY <1>1, <2>1, <2>3, <3>2, <3>4 DEF ThreadHistory, TypeOK
  <2>4. Clock(u)' >= Clock(u)
    BY <2>1, <2>2
  <2> HIDE DEF Clock
  <2>5. QED
    BY <1>7, <2>1, <2>2, <2>3, <2>4, OthersFrame
<1>8. QED
  BY <1>4, <1>5, <1>6, <1>7 DEF IndInv

\* The block under the lock.  The clock it reads does not change before it
\* writes it, and nobody in the process is sending.
LEMMA UpdateClockStep ==
  ASSUME IndInv, NEW t \in Thread, UpdateClock(t)
  PROVE  IndInv'
<1> USE ThreadAssumption DEF UpdateClock, Goto, Free, Clock
<1> DEFINE time == Merged(hand[t].ts, Clock(t))
<1>1. /\ TypeOK /\ ThreadHistory(t) /\ Home[t] \in Process /\ Clock(t) \in Nat
      /\ hand[t].ts \in Nat /\ pc[t] = "received" /\ t # NoThread
  BY ThreadFacts
<1>2. time \in Nat /\ time > hand[t].ts /\ time > Clock(t)
  BY <1>1 DEF Merged
<1>3. /\ currentLamportTime' = [currentLamportTime EXCEPT ![Home[t]] = time]
      /\ lamportTime' = [lamportTime EXCEPT ![t] = time]
  OBVIOUS
<1> HIDE DEF time
<1>4. TypeOK'
  BY <1>1, <1>2, <1>3 DEF TypeOK
<1>5. ThreadHistory(t)'
  <2>1. /\ pc'[t] = "updated" /\ lamportTime'[t] = time /\ currentLamportTime'[Home[t]] = time
    BY <1>1, <1>3 DEF TypeOK
  <2>2. /\ communicationMutex[Home[t]] # t /\ loggerMutex[Home[t]] # t /\ Home[t] \notin todo[t]
        /\ RecvTag[t] # NoTag /\ hand[t].from \in Process \ {Home[t]}
    BY <1>1 DEF ThreadHistory
  <2>3. QED
    BY <1>1, <1>2, <2>1, <2>2 DEF ThreadHistory
<1>6. ASSUME NEW u \in Thread, u # t PROVE ThreadHistory(u)'
  <2>1. ThreadHistory(u) /\ Clock(u) \in Nat /\ Home[u] \in Process /\ u # NoThread
    BY ThreadFacts
  <2>2. /\ UNCHANGED <<pc[u], todo[u], hand[u], lamportTime[u], net, communicationMutex, loggerMutex>>
        /\ Clock(u)' = IF Home[u] = Home[t] THEN time ELSE Clock(u)
        /\ Home[u] = Home[t] => Clock(u) = Clock(t)
    BY <1>1, <1>3, <1>6, <2>1 DEF TypeOK
  <2>3. pc[u] = "sending" => Home[u] # Home[t]
    BY <2>1 DEF ThreadHistory
  <2>4. pc[u] = "probed" => net'[Probed(u)] # <<>>
    BY <2>1, <2>2 DEF ThreadHistory
  <2> HIDE DEF Clock
  <2>5. Clock(u)' \in Nat /\ Clock(u)' >= Clock(u) /\ (pc[u] = "sending" => Clock(u)' = Clock(u))
    BY <1>2, <2>1, <2>2, <2>3
  <2>6. QED
    BY <1>6, <2>1, <2>2, <2>4, <2>5, OthersFrame
<1>7. QED
  BY <1>4, <1>5, <1>6 DEF IndInv

\* What the steps have in common that touch neither the clock nor the network:
\* the other threads do not notice.
LEMMA QuietFrame ==
  ASSUME IndInv, NEW t \in Thread, NEW u \in Thread, u # t,
         UNCHANGED <<currentLamportTime, communicationMutex, net>>,
         UNCHANGED <<pc[u], todo[u], hand[u], lamportTime[u]>>,
         \/ UNCHANGED loggerMutex[Home[u]]
         \/ loggerMutex[Home[u]] \in {NoThread, t} /\ loggerMutex'[Home[u]] \in {NoThread, t}
  PROVE  ThreadHistory(u)'
<1>1. ThreadHistory(u) /\ Clock(u) \in Nat /\ Clock(u)' = Clock(u)
  BY ThreadFacts DEF Clock
<1>2. pc[u] = "probed" => net'[Probed(u)] # <<>>
  BY <1>1 DEF ThreadHistory
<1>3. Clock(u)' >= Clock(u)
  BY <1>1
<1>4. QED
  BY <1>1, <1>2, <1>3, OthersFrame

\* The last line of updateTimestamp: the clock has not gone back.
LEMMA StampPacketStep ==
  ASSUME IndInv, NEW t \in Thread, StampPacket(t)
  PROVE  IndInv'
<1> USE ThreadAssumption DEF StampPacket, Goto, sharedVars
<1>1. /\ TypeOK /\ ThreadHistory(t) /\ Clock(t) \in Nat /\ lamportTime[t] \in Nat
      /\ hand[t].ts \in Nat /\ pc[t] = "updated"
  BY ThreadFacts
<1>2. PICK time \in lamportTime[t] .. Clock(t) : lamportTime' = [lamportTime EXCEPT ![t] = time]
  OBVIOUS
<1>3. time \in Nat /\ time >= lamportTime[t]
  BY <1>1
<1>4. TypeOK'
  BY <1>1, <1>2, <1>3 DEF TypeOK
<1>5. ThreadHistory(t)'
  <2>1. pc'[t] = "log" /\ lamportTime'[t] = time
    BY <1>1, <1>2 DEF TypeOK
  <2>2. /\ communicationMutex[Home[t]] # t /\ loggerMutex[Home[t]] # t /\ Home[t] \notin todo[t]
        /\ hand[t].from \in Process \ {Home[t]} /\ hand[t].ts < lamportTime[t]
    BY <1>1 DEF ThreadHistory
  <2>3. time > hand[t].ts
    BY <1>1, <1>3, <2>2
  <2>4. QED
    BY <1>1, <2>1, <2>2, <2>3 DEF ThreadHistory
<1>6. ASSUME NEW u \in Thread, u # t PROVE ThreadHistory(u)'
  <2>1. UNCHANGED <<pc[u], todo[u], hand[u], lamportTime[u]>>
    BY <1>1, <1>2, <1>6 DEF TypeOK
  <2>2. QED
    BY <1>6, <2>1, QuietFrame
<1>7. QED
  BY <1>4, <1>5, <1>6 DEF IndInv

-----------------------------------------------------------------------------
\* log() takes the Logger's mutex.
LEMMA BeginLogStep ==
  ASSUME IndInv, NEW t \in Thread, BeginLog(t)
  PROVE  IndInv'
<1> USE ThreadAssumption DEF BeginLog, Goto, Take, Free
<1>1. TypeOK /\ ThreadHistory(t) /\ Home[t] \in Process /\ t # NoThread /\ pc[t] = "log"
  BY ThreadFacts
<1>2. TypeOK'
  BY <1>1 DEF TypeOK
<1>3. ThreadHistory(t)'
  <2>1. pc'[t] = "logging" /\ loggerMutex'[Home[t]] = t
    BY <1>1 DEF TypeOK
  <2>2. QED
    BY <1>1, <2>1 DEF ThreadHistory
<1>4. ASSUME NEW u \in Thread, u # t PROVE ThreadHistory(u)'
  <2>1. UNCHANGED <<pc[u], todo[u], hand[u], lamportTime[u]>>
    BY <1>1, <1>4 DEF TypeOK
  <2>2. Home[u] \in Process
    BY ThreadFacts
  <2>3. \/ UNCHANGED loggerMutex[Home[u]]
        \/ loggerMutex[Home[u]] \in {NoThread, t} /\ loggerMutex'[Home[u]] \in {NoThread, t}
    BY <1>1, <2>2 DEF TypeOK
  <2>4. QED
    BY <1>4, <2>1, <2>3, QuietFrame
<1>5. QED
  BY <1>2, <1>3, <1>4 DEF IndInv

\* log() returns.
LEMMA EndLogStep ==
  ASSUME IndInv, NEW t \in Thread, EndLog(t)
  PROVE  IndInv'
<1> USE ThreadAssumption DEF EndLog, Goto, Release, NoPacket
<1>1. /\ TypeOK /\ ThreadHistory(t) /\ Home[t] \in Process /\ t # NoThread /\ pc[t] = "logging"
      /\ Clock(t) \in Nat /\ hand[t] \in [from : Process \cup {NoThread}, ts : Nat]
  BY ThreadFacts
<1>2. hand[t].from \in Process /\ loggerMutex[Home[t]] = t
  BY <1>1 DEF ThreadHistory
<1>3. TypeOK'
  <2>1. LogLine(t) \in [line : {"sent", "received"}, packet : [from : Process, ts : Nat], at : Nat]
    <3>1. hand[t] \in [from : Process, ts : Nat]
      BY <1>1, <1>2
    <3>2. QED
      BY <1>1, <3>1 DEF LogLine
  <2>2. QED
    BY <1>1, <2>1 DEF TypeOK
<1>4. ThreadHistory(t)'
  <2>1. pc'[t] = "idle" /\ loggerMutex'[Home[t]] = NoThread
    BY <1>1 DEF TypeOK
  <2>2. QED
    BY <1>1, <2>1 DEF ThreadHistory
<1>5. ASSUME NEW u \in Thread, u # t PROVE ThreadHistory(u)'
  <2>1. UNCHANGED <<pc[u], todo[u], hand[u], lamportTime[u]>>
    BY <1>1, <1>5 DEF TypeOK
  <2>2. Home[u] \in Process
    BY ThreadFacts
  <2>3. \/ UNCHANGED loggerMutex[Home[u]]
        \/ loggerMutex[Home[u]] \in {NoThread, t} /\ loggerMutex'[Home[u]] \in {NoThread, t}
    BY <1>1, <1>2, <2>2 DEF TypeOK
  <2>4. QED
    BY <1>5, <2>1, <2>3, QuietFrame
<1>6. QED
  BY <1>3, <1>4, <1>5 DEF IndInv

-----------------------------------------------------------------------------
\* One step per action.
LEMMA NextIndInv == IndInv /\ [Next]_vars => IndInv'
<1> SUFFICES ASSUME IndInv, [Next]_vars PROVE IndInv'
  OBVIOUS
<1>1. ASSUME NEW t \in Thread, Continue(t) PROVE IndInv'
  BY <1>1, SendToStep, EndSendStep, RecvStep, UpdateClockStep, StampPacketStep, BeginLogStep,
     EndLogStep DEF Continue
<1>2. ASSUME NEW t \in Thread, Begin(t) PROVE IndInv'
  BY <1>2, BeginSendStep, ProbeStep DEF Begin
<1>3. CASE UNCHANGED vars
  BY <1>3 DEF IndInv, TypeOK, ThreadHistory, Clock, Probed, vars, sharedVars, threadVars
<1>4. QED
  BY <1>1, <1>2, <1>3 DEF Next, Quiet

\* The invariant holds of every reachable state.
THEOREM Invariance == SafetySpec => []IndInv
<1>1. QED
  BY InitIndInv, NextIndInv, PTL DEF SafetySpec

\* The variables have their types.
THEOREM TypeCorrect == SafetySpec => []TypeOK
<1>1. IndInv => TypeOK
  BY DEF IndInv
<1>2. QED
  BY <1>1, Invariance, PTL

\* However many threads share a clock, the Packet that send returns bears the
\* timestamp sent, and the one that receive returns a later one.
THEOREM StampsAreRight == SafetySpec => []PacketsAreStamped
<1>1. IndInv => PacketsAreStamped
  BY DEF IndInv, ThreadHistory, PacketsAreStamped
<1>2. QED
  BY <1>1, Invariance, PTL

\* As long as no two threads of a process receive with one tag, MPI_Recv finds
\* the packet that was probed.
THEOREM ProbesAreKept == SafetySpec => []ProbedIsThere
<1>1. IndInv => ProbedIsThere
  BY DEF IndInv, ThreadHistory, ProbedIsThere
<1>2. QED
  BY <1>1, Invariance, PTL

-----------------------------------------------------------------------------
(***************************************************************************)
(* OptimizedCommunicator implements LogicalClock.  What is in transit is a *)
(* set, from which a receipt takes one packet, and so the packets must     *)
(* differ: that is TimestampsDiffer, the second invariant.                 *)
(***************************************************************************)

\* Before anybody has called anything.
LEMMA InitDiffer == Init => TimestampsDiffer
<1> SUFFICES ASSUME Init PROVE TimestampsDiffer
  OBVIOUS
<1>1. \A c \in Channel : net[c] = <<>>
  BY DEF Init
<1>2. OnNetwork
  BY <1>1 DEF OnNetwork, Channel
<1>3. \A t \in Thread : YetToSend(t) /\ JustReceived(t)
  BY DEF Init, YetToSend, JustReceived
<1>4. QED
  BY <1>2, <1>3 DEF TimestampsDiffer

\* Clocks may advance: the packets on the network stay behind them.
LEMMA OnNetworkFrame ==
  ASSUME TypeOK, OnNetwork, UNCHANGED net,
         \A p \in Process : /\ currentLamportTime'[p] \in Nat
                            /\ currentLamportTime'[p] >= currentLamportTime[p]
  PROVE  OnNetwork'
<1>1. ASSUME NEW p \in Process, NEW q \in Process, NEW tag \in Tag, NEW other \in Tag,
             NEW i \in DOMAIN net'[<<p, q, tag>>]
      PROVE  /\ net'[<<p, q, tag>>][i] <= currentLamportTime'[p]
             /\ \A j \in DOMAIN net'[<<p, q, other>>] :
                  net'[<<p, q, tag>>][i] = net'[<<p, q, other>>][j] => tag = other /\ i = j
  <2>1. /\ net[<<p, q, tag>>][i] <= currentLamportTime[p]
        /\ \A j \in DOMAIN net[<<p, q, other>>] :
             net[<<p, q, tag>>][i] = net[<<p, q, other>>][j] => tag = other /\ i = j
    BY DEF OnNetwork
  <2>2. net[<<p, q, tag>>][i] \in Nat /\ currentLamportTime[p] \in Nat
    BY DEF Channel, TypeOK
  <2>3. QED
    BY <2>1, <2>2
<1>2. QED
  BY <1>1 DEF OnNetwork

\* Nothing that a thread sends or has received changes when clocks advance and
\* threads go on to something else.
LEMMA DifferFrame ==
  ASSUME TypeOK, TimestampsDiffer, UNCHANGED <<net, todo>>,
         \A p \in Process : /\ currentLamportTime'[p] \in Nat
                            /\ currentLamportTime'[p] >= currentLamportTime[p],
         \A t \in Thread : todo[t] # {} => UNCHANGED <<pc[t], hand[t]>>,
         \A t \in Thread : pc'[t] = "received" => /\ UNCHANGED <<pc[t], hand[t]>>
                                                  /\ hand[t].from \in Process
  PROVE  TimestampsDiffer'
<1>1. \A p \in Process : currentLamportTime[p] \in Nat
  BY DEF TypeOK
<1>2. UNCHANGED net
  OBVIOUS
<1>3. OnNetwork'
  BY <1>2, OnNetworkFrame DEF TimestampsDiffer
<1>4. ASSUME NEW t \in Thread PROVE YetToSend(t)'
  BY DEF TimestampsDiffer, YetToSend
<1>5. ASSUME NEW t \in Thread, pc'[t] = "received" PROVE JustReceived(t)'
  <2>1. pc[t] = "received" /\ UNCHANGED hand[t] /\ hand[t].from \in Process /\ JustReceived(t)
    BY <1>5 DEF TimestampsDiffer
  <2>2. hand[t].ts <= currentLamportTime'[hand[t].from]
    <3>1. hand[t].ts \in Nat
      BY DEF TypeOK
    <3>2. QED
      BY <1>1, <2>1, <3>1 DEF JustReceived
  <2>3. ASSUME NEW u \in Thread \ {t},
               Home[t] \in todo[u] \/ (pc'[u] = "received" /\ Home[u] = Home[t])
        PROVE  hand'[u] # hand[t]
    BY <2>1, <2>3 DEF JustReceived
  <2>4. QED
    BY <2>1, <2>2, <2>3 DEF JustReceived
<1>6. ASSUME NEW t \in Thread PROVE JustReceived(t)'
  BY <1>5 DEF JustReceived
<1>7. QED
  BY <1>3, <1>4, <1>6 DEF TimestampsDiffer

-----------------------------------------------------------------------------
\* A new timestamp is later than all the process has given out.
LEMMA BeginSendDiffer ==
  ASSUME IndInv, TimestampsDiffer, NEW t \in Thread, NEW R \in SUBSET (Process \ {Home[t]}),
         BeginSend(t, R)
  PROVE  TimestampsDiffer'
<1> DEFINE p == Home[t]
           n == currentLamportTime[p] + 1
<1>1. TypeOK /\ p \in Process /\ currentLamportTime[p] \in Nat
  BY ThreadFacts DEF Clock
<1>2. /\ UNCHANGED net
      /\ currentLamportTime' = [currentLamportTime EXCEPT ![p] = n]
      /\ pc' = [pc EXCEPT ![t] = "sending"]
      /\ hand' = [hand EXCEPT ![t] = [from |-> p, ts |-> n]]
      /\ todo' = [todo EXCEPT ![t] = R]
  BY DEF BeginSend, Goto, Clock
<1>3. n \in Nat /\ n > currentLamportTime[p]
  BY <1>1
<1> HIDE DEF n
<1>4. \A r \in Process : /\ currentLamportTime'[r] \in Nat
                         /\ currentLamportTime'[r] >= currentLamportTime[r]
  BY <1>1, <1>2, <1>3 DEF TypeOK
<1>5. OnNetwork'
  BY <1>1, <1>2, <1>4, OnNetworkFrame DEF TimestampsDiffer
<1>6. /\ pc'[t] = "sending" /\ hand'[t] = [from |-> p, ts |-> n] /\ todo'[t] = R
      /\ \A u \in Thread \ {t} : UNCHANGED <<pc[u], hand[u], todo[u]>>
  BY <1>2 DEF TypeOK, IndInv
<1>7. YetToSend(t)'
  <2>1. ASSUME NEW q \in Process, NEW tag \in Tag, NEW i \in DOMAIN net[<<p, q, tag>>]
        PROVE  net[<<p, q, tag>>][i] # n
    <3>1. net[<<p, q, tag>>][i] <= currentLamportTime[p]
      BY <1>1 DEF TimestampsDiffer, OnNetwork
    <3>2. net[<<p, q, tag>>][i] \in Nat
      BY <1>1 DEF TypeOK, Channel
    <3>3. QED
      BY <1>1, <1>3, <3>1, <3>2
  <2>2. QED
    BY <1>2, <1>6, <2>1 DEF YetToSend
<1>8. ASSUME NEW u \in Thread \ {t} PROVE YetToSend(u)'
  <2>1. YetToSend(u)
    BY DEF TimestampsDiffer
  <2>2. QED
    BY <1>2, <1>6, <2>1 DEF YetToSend
<1>9. ASSUME NEW u \in Thread \ {t}, pc[u] = "received" PROVE JustReceived(u)'
  <2>1. /\ JustReceived(u) /\ hand[u].from \in Process /\ hand[u].ts \in Nat
        /\ hand[u].ts <= currentLamportTime[hand[u].from]
    BY <1>9, ThreadFacts DEF TimestampsDiffer, JustReceived, ThreadHistory
  <2>2. hand[u].ts <= currentLamportTime'[hand[u].from]
    BY <1>4, <2>1 DEF TypeOK, IndInv
  <2>3. hand'[t] # hand[u]
    BY <1>1, <1>3, <1>6, <2>1
  <2>4. ASSUME NEW v \in Thread \ {u},
               Home[u] \in todo'[v] \/ (pc'[v] = "received" /\ Home[v] = Home[u])
        PROVE  hand'[v] # hand[u]
    BY <1>6, <1>9, <2>1, <2>3, <2>4 DEF JustReceived
  <2>5. QED
    BY <1>2, <1>6, <1>9, <2>1, <2>2, <2>4 DEF JustReceived
<1>10. ASSUME NEW u \in Thread PROVE YetToSend(u)' /\ JustReceived(u)'
  BY <1>6, <1>7, <1>8, <1>9 DEF JustReceived
<1>11. QED
  BY <1>5, <1>10 DEF TimestampsDiffer

\* MPI_Send: the packet that was still in t's hands is on the network now.
LEMMA SendToDiffer ==
  ASSUME IndInv, TimestampsDiffer, NEW t \in Thread, NEW q \in Process, SendTo(t, q)
  PROVE  TimestampsDiffer'
<1> DEFINE p == Home[t]
           c == <<p, q, SendTag[t]>>
           n == hand[t].ts
<1>1. /\ TypeOK /\ ThreadHistory(t) /\ p \in Process /\ SendTag[t] \in Tag /\ n \in Nat
      /\ pc[t] = "sending" /\ q \in todo[t] /\ hand[t].from = p /\ n = currentLamportTime[p]
  BY ThreadFacts DEF SendTo, ThreadHistory, Clock
<1>2. /\ UNCHANGED <<currentLamportTime, pc, hand>>
      /\ net' = [net EXCEPT ![c] = Append(@, n)]
      /\ todo' = [todo EXCEPT ![t] = @ \ {q}]
  BY DEF SendTo
<1>3. c \in Channel /\ net \in [Channel -> Seq(Nat)]
  BY <1>1 DEF Channel, TypeOK
<1>4. ASSUME NEW d \in Channel, NEW i \in DOMAIN net'[d]
      PROVE  \/ i \in DOMAIN net[d] /\ net'[d][i] = net[d][i]
             \/ d = c /\ i = Len(net[c]) + 1 /\ net'[d][i] = n
  <2>1. CASE d # c
    BY <1>2, <1>3, <2>1
  <2>2. CASE d = c
    <3>1. net'[c] = Append(net[c], n) /\ net[c] \in Seq(Nat)
      BY <1>2, <1>3
    <3>2. QED
      BY <1>1, <2>2, <3>1
  <2>3. QED
    BY <2>1, <2>2
<1>5. ASSUME NEW tag \in Tag, NEW i \in DOMAIN net[<<p, q, tag>>]
      PROVE  net[<<p, q, tag>>][i] # n
  BY <1>1 DEF TimestampsDiffer, YetToSend
<1>6. \A u \in Thread : todo'[u] \subseteq todo[u]
  BY <1>1, <1>2 DEF TypeOK
<1> HIDE DEF c, n
<1>7. OnNetwork'
  <2>1. ASSUME NEW r \in Process, NEW s \in Process, NEW tag \in Tag, NEW other \in Tag,
               NEW i \in DOMAIN net'[<<r, s, tag>>]
        PROVE  /\ net'[<<r, s, tag>>][i] <= currentLamportTime'[r]
               /\ \A j \in DOMAIN net'[<<r, s, other>>] :
                    net'[<<r, s, tag>>][i] = net'[<<r, s, other>>][j] => tag = other /\ i = j
    <3>1. <<r, s, tag>> \in Channel /\ <<r, s, other>> \in Channel
      BY DEF Channel
    <3>2. \/ i \in DOMAIN net[<<r, s, tag>>] /\ net'[<<r, s, tag>>][i] = net[<<r, s, tag>>][i]
          \/ <<r, s, tag>> = c /\ i = Len(net[c]) + 1 /\ net'[<<r, s, tag>>][i] = n
      BY <1>4, <3>1
    <3>3. net'[<<r, s, tag>>][i] <= currentLamportTime'[r]
      BY <1>1, <1>2, <3>2 DEF TimestampsDiffer, OnNetwork, c
    <3>4. ASSUME NEW j \in DOMAIN net'[<<r, s, other>>],
                 net'[<<r, s, tag>>][i] = net'[<<r, s, other>>][j]
          PROVE  tag = other /\ i = j
      <4>1. \/ /\ j \in DOMAIN net[<<r, s, other>>]
               /\ net'[<<r, s, other>>][j] = net[<<r, s, other>>][j]
            \/ <<r, s, other>> = c /\ j = Len(net[c]) + 1 /\ net'[<<r, s, other>>][j] = n
        BY <1>4, <3>1
      <4>2. CASE <<r, s, tag>> = c /\ <<r, s, other>> = c
                 /\ i = Len(net[c]) + 1 /\ j = Len(net[c]) + 1
        BY <4>2
      <4>3. CASE i \in DOMAIN net[<<r, s, tag>>] /\ j \in DOMAIN net[<<r, s, other>>]
                 /\ net[<<r, s, tag>>][i] = net[<<r, s, other>>][j]
        BY <4>3 DEF TimestampsDiffer, OnNetwork
      <4>4. CASE i \in DOMAIN net[<<r, s, tag>>] /\ net[<<r, s, tag>>][i] = n
                 /\ <<r, s, other>> = c
        BY <1>5, <4>4 DEF c
      <4>5. CASE j \in DOMAIN net[<<r, s, other>>] /\ net[<<r, s, other>>][j] = n
                 /\ <<r, s, tag>> = c
        BY <1>5, <4>5 DEF c
      <4>6. QED
        BY <3>2, <3>4, <4>1, <4>2, <4>3, <4>4, <4>5
    <3>5. QED
      BY <3>3, <3>4
  <2>2. QED
    BY <2>1 DEF OnNetwork
<1>8. ASSUME NEW u \in Thread, todo'[u] # {} PROVE YetToSend(u)'
  <2>1. YetToSend(u) /\ todo[u] # {} /\ pc[u] = "sending" /\ Home[u] \in Process
    BY <1>6, <1>8, ThreadFacts DEF TimestampsDiffer, YetToSend
  <2>2. ASSUME NEW s \in todo'[u], NEW tag \in Tag, NEW i \in DOMAIN net'[<<Home[u], s, tag>>]
        PROVE  net'[<<Home[u], s, tag>>][i] # hand[u].ts
    <3>1. s \in todo[u] /\ s \in Process
      BY <1>6 DEF TypeOK, IndInv
    <3>2. u = t => s # q
      BY <1>1, <1>2 DEF TypeOK
    <3>3. u # t => Home[u] # p
      <4>1. ThreadHistory(u)
        BY ThreadFacts
      <4>2. communicationMutex[Home[u]] = u /\ communicationMutex[p] = t
        BY <1>1, <2>1, <4>1 DEF ThreadHistory
      <4>3. QED
        BY <4>2
    <3>4. <<Home[u], s, tag>> \in Channel /\ <<Home[u], s, tag>> # c
      BY <2>1, <3>1, <3>2, <3>3 DEF Channel, c
    <3>5. i \in DOMAIN net[<<Home[u], s, tag>>]
          /\ net'[<<Home[u], s, tag>>][i] = net[<<Home[u], s, tag>>][i]
      BY <1>4, <3>4
    <3>6. QED
      BY <2>1, <3>1, <3>5 DEF YetToSend
  <2>3. QED
    BY <1>2, <2>1, <2>2 DEF YetToSend
<1>9. ASSUME NEW u \in Thread, pc[u] = "received" PROVE JustReceived(u)'
  <2>1. /\ JustReceived(u) /\ u # t /\ hand[u].from \in Process /\ Home[u] \in Process
        /\ hand[u] \in [from : Process \cup {NoThread}, ts : Nat]
        /\ hand[t] \in [from : Process \cup {NoThread}, ts : Nat]
    BY <1>1, <1>9, ThreadFacts DEF TimestampsDiffer, ThreadHistory
  <2>2. ASSUME NEW tag \in Tag, NEW i \in DOMAIN net'[<<hand[u].from, Home[u], tag>>]
        PROVE  net'[<<hand[u].from, Home[u], tag>>][i] # hand[u].ts
    <3> DEFINE d == <<hand[u].from, Home[u], tag>>
    <3>1. d \in Channel
      BY <2>1 DEF Channel
    <3>2. CASE i \in DOMAIN net[d] /\ net'[d][i] = net[d][i]
      BY <1>9, <2>1, <3>2 DEF JustReceived
    <3>3. CASE d = c /\ net'[d][i] = n
      <4>1. hand[u].from = p /\ Home[u] = q
        BY <3>3 DEF c
      <4>2. hand[t] # hand[u]
        BY <1>1, <1>9, <2>1, <4>1 DEF JustReceived
      <4>3. hand[t].ts # hand[u].ts
        BY <1>1, <2>1, <4>1, <4>2
      <4>4. QED
        BY <3>3, <4>3 DEF n
    <3>4. QED
      BY <1>4, <3>1, <3>2, <3>3
  <2>3. ASSUME NEW v \in Thread \ {u},
               Home[u] \in todo'[v] \/ (pc[v] = "received" /\ Home[v] = Home[u])
        PROVE  hand[v] # hand[u]
    BY <1>6, <1>9, <2>1, <2>3 DEF JustReceived
  <2>4. hand[u].ts <= currentLamportTime[hand[u].from]
    BY <1>9, <2>1 DEF JustReceived
  <2>5. QED
    BY <1>2, <2>2, <2>3, <2>4 DEF JustReceived
<1>10. ASSUME NEW u \in Thread PROVE YetToSend(u)' /\ JustReceived(u)'
  BY <1>2, <1>8, <1>9 DEF YetToSend, JustReceived
<1>11. QED
  BY <1>7, <1>10 DEF TimestampsDiffer

\* MPI_Recv: the packet is in t's hands, and off the network.
LEMMA RecvDiffer ==
  ASSUME IndInv, TimestampsDiffer, NEW t \in Thread, Recv(t)
  PROVE  TimestampsDiffer'
<1> DEFINE f == hand[t].from
           c == <<f, Home[t], RecvTag[t]>>
           n == Head(net[c])
<1>1. /\ TypeOK /\ ThreadHistory(t) /\ Home[t] \in Process /\ RecvTag[t] \in Tag
      /\ pc[t] = "probed" /\ f \in Process \ {Home[t]} /\ net[c] # <<>>
      /\ hand[t] \in [from : Process \cup {NoThread}, ts : Nat]
  BY ThreadFacts DEF Recv, Goto, ThreadHistory, Probed
<1>2. /\ UNCHANGED <<currentLamportTime, todo>>
      /\ net' = [net EXCEPT ![c] = Tail(@)]
      /\ pc' = [pc EXCEPT ![t] = "received"]
      /\ hand' = [hand EXCEPT ![t].ts = n]
  BY DEF Recv, Goto, Probed
<1>3. c \in Channel /\ net \in [Channel -> Seq(Nat)]
  BY <1>1 DEF Channel, TypeOK
<1>4. net[c] \in Seq(Nat) /\ n \in Nat /\ 1 \in DOMAIN net[c] /\ n = net[c][1]
  BY <1>1, <1>3
<1>5. ASSUME NEW d \in Channel, NEW i \in DOMAIN net'[d]
      PROVE  LET k == IF d = c THEN i + 1 ELSE i
             IN k \in DOMAIN net[d] /\ net'[d][i] = net[d][k] /\ i \in Nat /\ i >= 1
  <2>1. net[d] \in Seq(Nat)
    BY <1>3
  <2>2. CASE d # c
    BY <1>2, <1>3, <2>1, <2>2
  <2>3. CASE d = c
    <3>1. net'[d] = Tail(net[d]) /\ net[d] # <<>>
      BY <1>1, <1>2, <1>3, <2>3
    <3>2. QED
      BY <2>1, <2>3, <3>1
  <2>4. QED
    BY <2>2, <2>3
<1>6. /\ pc'[t] = "received" /\ hand'[t] = [from |-> f, ts |-> n]
      /\ \A u \in Thread \ {t} : UNCHANGED <<pc[u], hand[u]>>
  BY <1>1, <1>2 DEF TypeOK
<1>7. todo[t] = {}
  BY <1>1 DEF TimestampsDiffer, YetToSend
<1> HIDE DEF c, n
<1>8. OnNetwork'
  <2>1. ASSUME NEW r \in Process, NEW s \in Process, NEW tag \in Tag, NEW other \in Tag,
               NEW i \in DOMAIN net'[<<r, s, tag>>]
        PROVE  /\ net'[<<r, s, tag>>][i] <= currentLamportTime'[r]
               /\ \A j \in DOMAIN net'[<<r, s, other>>] :
                    net'[<<r, s, tag>>][i] = net'[<<r, s, other>>][j] => tag = other /\ i = j
    <3>1. <<r, s, tag>> \in Channel /\ <<r, s, other>> \in Channel
      BY DEF Channel
    <3> DEFINE k == IF <<r, s, tag>> = c THEN i + 1 ELSE i
    <3>2. k \in DOMAIN net[<<r, s, tag>>] /\ net'[<<r, s, tag>>][i] = net[<<r, s, tag>>][k]
          /\ i \in Nat
      BY <1>5, <3>1
    <3>3. net'[<<r, s, tag>>][i] <= currentLamportTime'[r]
      BY <1>2, <3>2 DEF TimestampsDiffer, OnNetwork
    <3>4. ASSUME NEW j \in DOMAIN net'[<<r, s, other>>],
                 net'[<<r, s, tag>>][i] = net'[<<r, s, other>>][j]
          PROVE  tag = other /\ i = j
      <4> DEFINE l == IF <<r, s, other>> = c THEN j + 1 ELSE j
      <4>1. l \in DOMAIN net[<<r, s, other>>] /\ net'[<<r, s, other>>][j] = net[<<r, s, other>>][l]
            /\ j \in Nat
        BY <1>5, <3>1
      <4>2. tag = other /\ k = l
        <5> HIDE DEF k, l
        <5>1. net[<<r, s, tag>>][k] = net[<<r, s, other>>][l]
          BY <3>2, <3>4, <4>1
        <5>2. OnNetwork
          BY DEF TimestampsDiffer
        <5>3. QED
          BY <3>2, <4>1, <5>1, <5>2 DEF OnNetwork
      <4>3. QED
        BY <3>2, <4>1, <4>2
    <3>5. QED
      BY <3>3, <3>4
  <2>2. QED
    BY <2>1 DEF OnNetwork
<1>9. ASSUME NEW u \in Thread, todo[u] # {} PROVE YetToSend(u)'
  <2>1. YetToSend(u) /\ pc[u] = "sending" /\ u # t /\ Home[u] \in Process
    BY <1>7, <1>9, ThreadFacts DEF TimestampsDiffer, YetToSend
  <2>2. ASSUME NEW s \in todo[u], NEW tag \in Tag, NEW i \in DOMAIN net'[<<Home[u], s, tag>>]
        PROVE  net'[<<Home[u], s, tag>>][i] # hand[u].ts
    <3>1. <<Home[u], s, tag>> \in Channel
      BY <1>1, <2>1 DEF Channel, TypeOK
    <3>2. PICK k \in DOMAIN net[<<Home[u], s, tag>>] :
                 net'[<<Home[u], s, tag>>][i] = net[<<Home[u], s, tag>>][k]
      BY <1>5, <3>1
    <3>3. QED
      BY <1>9, <2>1, <3>2 DEF YetToSend
  <2>3. QED
    BY <1>2, <1>6, <2>1, <2>2 DEF YetToSend
<1>10. ASSUME NEW u \in Thread \ {t},
              Home[t] \in todo[u] \/ (pc[u] = "received" /\ Home[u] = Home[t])
       PROVE  hand[u] # [from |-> f, ts |-> n]
  <2>1. CASE Home[t] \in todo[u]
    <3>1. YetToSend(u) /\ hand[u].from = Home[u]
      <4>1. YetToSend(u) /\ pc[u] = "sending"
        BY <2>1 DEF TimestampsDiffer, YetToSend
      <4>2. ThreadHistory(u)
        BY ThreadFacts
      <4>3. QED
        BY <4>1, <4>2 DEF ThreadHistory
    <3>2. hand[u].from = f => net[c][1] # hand[u].ts
      BY <1>1, <1>4, <2>1, <3>1 DEF YetToSend, c
    <3>3. QED
      BY <1>4, <3>2
  <2>2. CASE pc[u] = "received" /\ Home[u] = Home[t]
    <3>1. JustReceived(u)
      BY DEF TimestampsDiffer
    <3>2. hand[u].from = f => net[c][1] # hand[u].ts
      BY <1>1, <1>4, <2>2, <3>1 DEF JustReceived, c
    <3>3. QED
      BY <1>4, <3>2
  <2>3. QED
    BY <1>10, <2>1, <2>2
<1>11. JustReceived(t)'
  <2>1. n <= currentLamportTime[f]
    BY <1>1, <1>4 DEF TimestampsDiffer, OnNetwork, c
  <2>2. ASSUME NEW tag \in Tag, NEW i \in DOMAIN net'[<<f, Home[t], tag>>]
        PROVE  net'[<<f, Home[t], tag>>][i] # n
    <3>1. <<f, Home[t], tag>> \in Channel
      BY <1>1 DEF Channel
    <3> DEFINE k == IF <<f, Home[t], tag>> = c THEN i + 1 ELSE i
    <3>2. /\ k \in DOMAIN net[<<f, Home[t], tag>>] /\ i \in Nat /\ i >= 1
          /\ net'[<<f, Home[t], tag>>][i] = net[<<f, Home[t], tag>>][k]
      BY <1>5, <3>1
    <3>3. tag = RecvTag[t] => k # 1
      BY <3>2 DEF c
    <3> HIDE DEF k
    <3>4. QED
      BY <1>1, <1>4, <3>2, <3>3 DEF TimestampsDiffer, OnNetwork, c
  <2>3. \A u \in Thread \ {t} :
          Home[t] \in todo'[u] \/ (pc'[u] = "received" /\ Home[u] = Home[t])
            => hand'[u] # hand'[t]
    BY <1>2, <1>6, <1>10
  <2>4. QED
    BY <1>2, <1>6, <2>1, <2>2, <2>3 DEF JustReceived
<1>12. ASSUME NEW u \in Thread \ {t}, pc[u] = "received" PROVE JustReceived(u)'
  <2>1. JustReceived(u) /\ hand[u].from \in Process /\ Home[u] \in Process
    BY <1>12, ThreadFacts DEF TimestampsDiffer, ThreadHistory
  <2>2. ASSUME NEW tag \in Tag, NEW i \in DOMAIN net'[<<hand[u].from, Home[u], tag>>]
        PROVE  net'[<<hand[u].from, Home[u], tag>>][i] # hand[u].ts
    <3>1. <<hand[u].from, Home[u], tag>> \in Channel
      BY <2>1 DEF Channel
    <3>2. PICK k \in DOMAIN net[<<hand[u].from, Home[u], tag>>] :
                 net'[<<hand[u].from, Home[u], tag>>][i] = net[<<hand[u].from, Home[u], tag>>][k]
      BY <1>5, <3>1
    <3>3. QED
      BY <1>12, <2>1, <3>2 DEF JustReceived
  <2>3. ASSUME NEW v \in Thread \ {u},
               Home[u] \in todo[v] \/ (pc'[v] = "received" /\ Home[v] = Home[u])
        PROVE  hand'[v] # hand[u]
    <3>1. CASE v = t
      BY <1>6, <1>7, <1>10, <1>12, <2>3, <3>1
    <3>2. CASE v # t
      BY <1>6, <1>12, <2>1, <2>3, <3>2 DEF JustReceived
    <3>3. QED
      BY <3>1, <3>2
  <2>4. hand[u].ts <= currentLamportTime[hand[u].from]
    BY <1>12, <2>1 DEF JustReceived
  <2>5. QED
    BY <1>2, <1>6, <2>2, <2>3, <2>4 DEF JustReceived
<1>13. ASSUME NEW u \in Thread PROVE YetToSend(u)' /\ JustReceived(u)'
  BY <1>2, <1>6, <1>9, <1>11, <1>12 DEF YetToSend, JustReceived
<1>14. QED
  BY <1>8, <1>13 DEF TimestampsDiffer

-----------------------------------------------------------------------------
\* A step of t that moves no packet.
LEMMA ThreadStepDiffer ==
  ASSUME IndInv, TimestampsDiffer, NEW t \in Thread,
         UNCHANGED <<net, todo>>, todo[t] = {}, pc'[t] # "received",
         \A u \in Thread \ {t} : UNCHANGED <<pc[u], hand[u]>>,
         \A p \in Process : /\ currentLamportTime'[p] \in Nat
                            /\ currentLamportTime'[p] >= currentLamportTime[p]
  PROVE  TimestampsDiffer'
<1>1. \A u \in Thread : todo[u] # {} => UNCHANGED <<pc[u], hand[u]>>
  OBVIOUS
<1>2. \A u \in Thread : pc[u] = "received" => hand[u].from \in Process
  BY ThreadFacts DEF ThreadHistory
<1>3. \A u \in Thread : pc'[u] = "received" => /\ UNCHANGED <<pc[u], hand[u]>>
                                               /\ hand[u].from \in Process
  BY <1>2
<1>4. TypeOK
  BY DEF IndInv
<1>5. QED
  BY <1>1, <1>3, <1>4, DifferFrame

\* The clock does not go back.
LEMMA UpdateClockGrows ==
  ASSUME IndInv, NEW t \in Thread, UpdateClock(t)
  PROVE  /\ Merged(hand[t].ts, Clock(t)) \in Nat
         /\ \A p \in Process : /\ currentLamportTime'[p] \in Nat
                               /\ currentLamportTime'[p] >= currentLamportTime[p]
<1> DEFINE time == Merged(hand[t].ts, Clock(t))
<1>1. TypeOK /\ Home[t] \in Process /\ Clock(t) \in Nat /\ hand[t].ts \in Nat
  BY ThreadFacts
<1>2. time \in Nat /\ time > Clock(t)
  BY <1>1 DEF Merged
<1>3. currentLamportTime' = [currentLamportTime EXCEPT ![Home[t]] = time]
  BY DEF UpdateClock, Clock
<1> HIDE DEF time
<1>4. \A p \in Process : /\ currentLamportTime'[p] \in Nat
                         /\ currentLamportTime'[p] >= currentLamportTime[p]
  BY <1>1, <1>2, <1>3 DEF TypeOK, Clock
<1>5. QED
  BY <1>2, <1>4 DEF time

\* The steps that move no packet.
LEMMA QuietDiffer ==
  ASSUME IndInv, TimestampsDiffer, NEW t \in Thread,
         \/ EndSend(t) \/ \E p \in Process : Probe(t, p)
         \/ UpdateClock(t) \/ StampPacket(t) \/ BeginLog(t) \/ EndLog(t)
  PROVE  TimestampsDiffer'
<1>1. TypeOK /\ YetToSend(t)
  BY DEF IndInv, TimestampsDiffer
<1>2. UNCHANGED <<net, todo>>
  BY DEF EndSend, Release, Probe, UpdateClock, StampPacket, BeginLog, EndLog, sharedVars
<1>3. todo[t] = {} /\ pc'[t] # "received"
  BY <1>1 DEF TypeOK, YetToSend, EndSend, Probe, UpdateClock, StampPacket, BeginLog, EndLog, Goto
<1>4. \A u \in Thread \ {t} : UNCHANGED <<pc[u], hand[u]>>
  BY <1>1 DEF TypeOK, EndSend, Probe, UpdateClock, StampPacket, BeginLog, EndLog, Goto
<1>5. UpdateClock(t) \/ UNCHANGED currentLamportTime
  BY DEF EndSend, Probe, StampPacket, BeginLog, EndLog, sharedVars
<1>6. \A p \in Process : /\ currentLamportTime'[p] \in Nat
                         /\ currentLamportTime'[p] >= currentLamportTime[p]
  BY <1>1, <1>5, UpdateClockGrows DEF TypeOK
<1>7. QED
  BY <1>2, <1>3, <1>4, <1>6, ThreadStepDiffer

\* One step per action.
LEMMA NextDiffer == IndInv /\ TimestampsDiffer /\ [Next]_vars => TimestampsDiffer'
<1> SUFFICES ASSUME IndInv, TimestampsDiffer, [Next]_vars PROVE TimestampsDiffer'
  OBVIOUS
<1>1. ASSUME NEW t \in Thread, Continue(t) PROVE TimestampsDiffer'
  BY <1>1, SendToDiffer, RecvDiffer, QuietDiffer DEF Continue
<1>2. ASSUME NEW t \in Thread, Begin(t) PROVE TimestampsDiffer'
  BY <1>2, BeginSendDiffer, QuietDiffer DEF Begin
<1>3. CASE UNCHANGED vars
  BY <1>3 DEF TimestampsDiffer, OnNetwork, YetToSend, JustReceived, vars, sharedVars, threadVars
<1>4. QED
  BY <1>1, <1>2, <1>3 DEF Next, Quiet

\* No two packets on their way between the same processes bear one timestamp.
THEOREM StampsDiffer == SafetySpec => []TimestampsDiffer
<1>1. QED
  BY InitDiffer, Invariance, NextDiffer, PTL DEF SafetySpec

-----------------------------------------------------------------------------
\* The three places where a packet in transit is.
OnTheNetwork(x) ==
  \E p, q \in Process, tag \in Tag : \E i \in DOMAIN net[<<p, q, tag>>] :
    x = [from |-> p, to |-> q, ts |-> net[<<p, q, tag>>][i]]

WithSender(x, t) == \E q \in todo[t] : x = [from |-> Home[t], to |-> q, ts |-> hand[t].ts]

WithRecipient(x, t) ==
  pc[t] = "received" /\ x = [from |-> hand[t].from, to |-> Home[t], ts |-> hand[t].ts]

LEMMA InTransit ==
  ASSUME NEW x
  PROVE  x \in inTransitBar
           <=> OnTheNetwork(x) \/ \E t \in Thread : WithSender(x, t) \/ WithRecipient(x, t)
<1>1. (\E c \in Channel : \E i \in DOMAIN net[c] : x = [from |-> c[1], to |-> c[2], ts |-> net[c][i]])
        <=> OnTheNetwork(x)
  <2>1. ASSUME NEW c \in Channel, NEW i \in DOMAIN net[c],
               x = [from |-> c[1], to |-> c[2], ts |-> net[c][i]]
        PROVE  OnTheNetwork(x)
    <3>1. PICK p \in Process, q \in Process, tag \in Tag : c = <<p, q, tag>>
      BY DEF Channel
    <3>2. QED
      BY <2>1, <3>1 DEF OnTheNetwork
  <2>2. ASSUME NEW p \in Process, NEW q \in Process, NEW tag \in Tag,
               NEW i \in DOMAIN net[<<p, q, tag>>],
               x = [from |-> p, to |-> q, ts |-> net[<<p, q, tag>>][i]]
        PROVE  \E c \in Channel : \E j \in DOMAIN net[c] :
                 x = [from |-> c[1], to |-> c[2], ts |-> net[c][j]]
    <3>1. <<p, q, tag>> \in Channel
      BY DEF Channel
    <3>2. QED
      BY <2>2, <3>1
  <2>3. QED
    BY <2>1, <2>2 DEF OnTheNetwork
<1>2. QED
  <2> DEFINE N == UNION {{[from |-> c[1], to |-> c[2], ts |-> net[c][i]] : i \in DOMAIN net[c]}
                           : c \in Channel}
             S == UNION {{[from |-> Home[t], to |-> q, ts |-> hand[t].ts] : q \in todo[t]}
                           : t \in Thread}
             R == {[from |-> hand[t].from, to |-> Home[t], ts |-> hand[t].ts]
                           : t \in {u \in Thread : pc[u] = "received"}}
  <2>1. inTransitBar = N \cup S \cup R
    BY DEF inTransitBar
  <2>2. x \in N <=> OnTheNetwork(x)
    BY <1>1
  <2>3. x \in S <=> \E t \in Thread : WithSender(x, t)
    BY DEF WithSender
  <2>4. x \in R <=> \E t \in Thread : WithRecipient(x, t)
    BY DEF WithRecipient
  <2> HIDE DEF N, S, R
  <2>5. QED
    BY <2>1, <2>2, <2>3, <2>4

LEMMA InTransitNext ==
  ASSUME NEW x
  PROVE  x \in inTransitBar'
           <=> OnTheNetwork(x)' \/ \E t \in Thread : WithSender(x, t)' \/ WithRecipient(x, t)'
<1>1. (\E c \in Channel : \E i \in DOMAIN net'[c] : x = [from |-> c[1], to |-> c[2], ts |-> net'[c][i]])
        <=> OnTheNetwork(x)'
  <2>1. ASSUME NEW c \in Channel, NEW i \in DOMAIN net'[c],
               x = [from |-> c[1], to |-> c[2], ts |-> net'[c][i]]
        PROVE  OnTheNetwork(x)'
    <3>1. PICK p \in Process, q \in Process, tag \in Tag : c = <<p, q, tag>>
      BY DEF Channel
    <3>2. QED
      BY <2>1, <3>1 DEF OnTheNetwork
  <2>2. ASSUME NEW p \in Process, NEW q \in Process, NEW tag \in Tag,
               NEW i \in DOMAIN net'[<<p, q, tag>>],
               x = [from |-> p, to |-> q, ts |-> net'[<<p, q, tag>>][i]]
        PROVE  \E c \in Channel : \E j \in DOMAIN net'[c] :
                 x = [from |-> c[1], to |-> c[2], ts |-> net'[c][j]]
    <3>1. <<p, q, tag>> \in Channel
      BY DEF Channel
    <3>2. QED
      BY <2>2, <3>1
  <2>3. QED
    BY <2>1, <2>2 DEF OnTheNetwork
<1>2. QED
  <2> DEFINE N == UNION {{[from |-> c[1], to |-> c[2], ts |-> net'[c][i]] : i \in DOMAIN net'[c]}
                           : c \in Channel}
             S == UNION {{[from |-> Home[t], to |-> q, ts |-> hand'[t].ts] : q \in todo'[t]}
                           : t \in Thread}
             R == {[from |-> hand'[t].from, to |-> Home[t], ts |-> hand'[t].ts]
                           : t \in {u \in Thread : pc'[u] = "received"}}
  <2>1. inTransitBar' = N \cup S \cup R
    BY DEF inTransitBar
  <2>2. x \in N <=> OnTheNetwork(x)'
    BY <1>1
  <2>3. x \in S <=> \E t \in Thread : WithSender(x, t)'
    BY DEF WithSender
  <2>4. x \in R <=> \E t \in Thread : WithRecipient(x, t)'
    BY DEF WithRecipient
  <2> HIDE DEF N, S, R
  <2>5. QED
    BY <2>1, <2>2, <2>3, <2>4

\* Nothing is in transit at first.
LEMMA BarInit == Init => Abstract!Init
<1> SUFFICES ASSUME Init PROVE Abstract!Init
  OBVIOUS
<1>1. ASSUME NEW x PROVE x \notin inTransitBar
  <2>1. ~OnTheNetwork(x)
    <3>1. \A p, q \in Process, tag \in Tag : net[<<p, q, tag>>] = <<>>
      BY DEF Init, Channel
    <3>2. \A p, q \in Process, tag \in Tag : \A i \in DOMAIN net[<<p, q, tag>>] : FALSE
      BY <3>1
    <3>3. QED
      BY <3>2, Zenon DEF OnTheNetwork
  <2>2. \A t \in Thread : ~WithSender(x, t) /\ ~WithRecipient(x, t)
    BY DEF Init, WithSender, WithRecipient
  <2>3. QED
    BY <2>1, <2>2, InTransit
<1>2. inTransitBar = {}
  BY <1>1
<1>3. QED
  BY <1>2 DEF Init, Abstract!Init

\* A step that moves no packet leaves the set as it is.
LEMMA QuietBar ==
  ASSUME IndInv, TimestampsDiffer, NEW t \in Thread,
         \/ EndSend(t) \/ \E p \in Process : Probe(t, p)
         \/ StampPacket(t) \/ BeginLog(t) \/ EndLog(t)
  PROVE  UNCHANGED <<currentLamportTime, inTransitBar>>
<1>1. TypeOK /\ YetToSend(t)
  BY DEF IndInv, TimestampsDiffer
<1>2. UNCHANGED <<currentLamportTime, net, todo>>
  BY DEF EndSend, Release, Probe, StampPacket, BeginLog, EndLog, sharedVars
<1>3. todo[t] = {} /\ pc[t] # "received" /\ pc'[t] # "received"
  BY <1>1 DEF TypeOK, YetToSend, EndSend, Probe, StampPacket, BeginLog, EndLog, Goto
<1>4. \A u \in Thread \ {t} : UNCHANGED <<pc[u], hand[u]>>
  BY <1>1 DEF TypeOK, EndSend, Probe, StampPacket, BeginLog, EndLog, Goto
<1>5. ASSUME NEW x PROVE x \in inTransitBar' <=> x \in inTransitBar
  <2>1. OnTheNetwork(x)' <=> OnTheNetwork(x)
    BY <1>2 DEF OnTheNetwork
  <2>2. ASSUME NEW u \in Thread
        PROVE  /\ WithSender(x, u)' <=> WithSender(x, u)
               /\ WithRecipient(x, u)' <=> WithRecipient(x, u)
    BY <1>2, <1>3, <1>4 DEF WithSender, WithRecipient
  <2>3. QED
    BY <2>1, <2>2, InTransit, InTransitNext
<1>6. inTransitBar' = inTransitBar
  BY <1>5
<1>7. QED
  BY <1>2, <1>6

\* send() begins: its packets are in transit from now on.
LEMMA BeginSendBar ==
  ASSUME IndInv, TimestampsDiffer, NEW t \in Thread, NEW R \in SUBSET (Process \ {Home[t]}),
         BeginSend(t, R)
  PROVE  Abstract!Send(Home[t], R)
<1> DEFINE p == Home[t]
           n == currentLamportTime[p] + 1
           new == {[from |-> p, to |-> q, ts |-> n] : q \in R}
<1>1. TypeOK /\ todo[t] = {} /\ pc[t] = "idle"
  BY DEF IndInv, TimestampsDiffer, YetToSend, BeginSend, Goto
<1>2. /\ UNCHANGED net
      /\ currentLamportTime' = [currentLamportTime EXCEPT ![p] = n]
      /\ pc'[t] = "sending" /\ hand'[t] = [from |-> p, ts |-> n] /\ todo'[t] = R
      /\ \A u \in Thread \ {t} : UNCHANGED <<pc[u], hand[u], todo[u]>>
  BY <1>1 DEF TypeOK, BeginSend, Goto, Clock
<1>3. ASSUME NEW x PROVE x \in inTransitBar' <=> x \in inTransitBar \/ x \in new
  <2>1. OnTheNetwork(x)' <=> OnTheNetwork(x)
    BY <1>2 DEF OnTheNetwork
  <2>2. ASSUME NEW u \in Thread \ {t}
        PROVE  /\ WithSender(x, u)' <=> WithSender(x, u)
               /\ WithRecipient(x, u)' <=> WithRecipient(x, u)
    BY <1>2 DEF WithSender, WithRecipient
  <2>3. /\ ~WithRecipient(x, t)' /\ ~WithRecipient(x, t) /\ ~WithSender(x, t)
        /\ WithSender(x, t)' <=> x \in new
    BY <1>1, <1>2 DEF WithSender, WithRecipient
  <2>4. QED
    BY <2>1, <2>2, <2>3, InTransit, InTransitNext
<1>4. inTransitBar' = inTransitBar \cup new
  BY <1>3
<1>5. QED
  BY <1>2, <1>4 DEF Abstract!Send

\* A queue to which something was added.
LEMMA Appended ==
  ASSUME NEW line \in Seq(Nat), NEW n \in Nat
  PROVE  /\ DOMAIN Append(line, n) = DOMAIN line \cup {Len(line) + 1}
         /\ \A i \in DOMAIN line : Append(line, n)[i] = line[i]
         /\ Append(line, n)[Len(line) + 1] = n
<1>1. Len(line) \in Nat /\ DOMAIN line = 1 .. Len(line)
  OBVIOUS
<1>2. DOMAIN Append(line, n) = 1 .. Len(line) + 1
  OBVIOUS
<1>3. 1 .. Len(line) + 1 = 1 .. Len(line) \cup {Len(line) + 1}
  BY <1>1
<1>4. QED
  BY <1>1, <1>2, <1>3

\* MPI_Send: the packet was in transit already.
LEMMA SendToBar ==
  ASSUME IndInv, TimestampsDiffer, NEW t \in Thread, NEW q \in Process, SendTo(t, q)
  PROVE  UNCHANGED <<currentLamportTime, inTransitBar>>
<1> DEFINE p == Home[t]
           c == <<p, q, SendTag[t]>>
           n == hand[t].ts
           moved == [from |-> p, to |-> q, ts |-> n]
<1>1. /\ TypeOK /\ p \in Process /\ SendTag[t] \in Tag /\ n \in Nat
      /\ pc[t] = "sending" /\ q \in todo[t]
  BY ThreadFacts DEF SendTo, ThreadHistory
<1>2. /\ UNCHANGED <<currentLamportTime, pc, hand>>
      /\ net' = [net EXCEPT ![c] = Append(@, n)]
      /\ todo' = [todo EXCEPT ![t] = @ \ {q}]
  BY DEF SendTo
<1>3. c \in Channel /\ net \in [Channel -> Seq(Nat)]
  BY <1>1 DEF Channel, TypeOK
<1>4. ASSUME NEW d \in Channel
      PROVE  IF d = c THEN /\ DOMAIN net'[c] = DOMAIN net[c] \cup {Len(net[c]) + 1}
                           /\ \A i \in DOMAIN net[c] : net'[c][i] = net[c][i]
                           /\ net'[c][Len(net[c]) + 1] = n
                      ELSE net'[d] = net[d]
  <2>1. CASE d # c
    BY <1>2, <1>3, <2>1
  <2>2. CASE d = c
    <3> HIDE DEF c, n
    <3>1. net'[c] = Append(net[c], n) /\ net[c] \in Seq(Nat) /\ n \in Nat
      BY <1>1, <1>2, <1>3
    <3>2. /\ DOMAIN net'[c] = DOMAIN net[c] \cup {Len(net[c]) + 1}
          /\ \A i \in DOMAIN net[c] : net'[c][i] = net[c][i]
          /\ net'[c][Len(net[c]) + 1] = n
      BY <3>1, Appended
    <3>3. QED
      BY <2>2, <3>2
  <2>3. QED
    BY <2>1, <2>2
<1> HIDE DEF c, n
<1>5. ASSUME NEW x PROVE OnTheNetwork(x)' <=> OnTheNetwork(x) \/ x = moved
  <2>1. ASSUME NEW r \in Process, NEW s \in Process, NEW tag \in Tag,
               NEW i \in DOMAIN net'[<<r, s, tag>>],
               x = [from |-> r, to |-> s, ts |-> net'[<<r, s, tag>>][i]]
        PROVE  OnTheNetwork(x) \/ x = moved
    <3>1. <<r, s, tag>> \in Channel
      BY DEF Channel
    <3>2. CASE i \in DOMAIN net[<<r, s, tag>>] /\ net'[<<r, s, tag>>][i] = net[<<r, s, tag>>][i]
      BY <2>1, <3>2 DEF OnTheNetwork
    <3>3. CASE <<r, s, tag>> = c /\ net'[<<r, s, tag>>][i] = n
      BY <2>1, <3>3 DEF c
    <3>4. QED
      BY <1>4, <3>1, <3>2, <3>3
  <2>2. ASSUME NEW r \in Process, NEW s \in Process, NEW tag \in Tag,
               NEW i \in DOMAIN net[<<r, s, tag>>],
               x = [from |-> r, to |-> s, ts |-> net[<<r, s, tag>>][i]]
        PROVE  OnTheNetwork(x)'
    <3>1. <<r, s, tag>> \in Channel
      BY DEF Channel
    <3>2. i \in DOMAIN net'[<<r, s, tag>>] /\ net'[<<r, s, tag>>][i] = net[<<r, s, tag>>][i]
      BY <1>4, <3>1
    <3>3. QED
      BY <2>2, <3>2 DEF OnTheNetwork
  <2>3. ASSUME x = moved PROVE OnTheNetwork(x)'
    <3>1. Len(net[c]) + 1 \in DOMAIN net'[c] /\ net'[c][Len(net[c]) + 1] = n
      BY <1>3, <1>4
    <3>2. QED
      BY <1>1, <2>3, <3>1 DEF OnTheNetwork, c
  <2>4. QED
    BY <2>1, <2>2, <2>3 DEF OnTheNetwork
<1>6. ASSUME NEW x PROVE x \in inTransitBar' <=> x \in inTransitBar
  <2>1. WithSender(x, t) <=> WithSender(x, t)' \/ x = moved
    BY <1>1, <1>2 DEF WithSender, TypeOK, n
  <2>2. \A u \in Thread \ {t} : WithSender(x, u)' <=> WithSender(x, u)
    BY <1>1, <1>2 DEF WithSender, TypeOK
  <2>3. \A u \in Thread : WithRecipient(x, u)' <=> WithRecipient(x, u)
    BY <1>2 DEF WithRecipient
  <2>4. QED
    BY <1>5, <2>1, <2>2, <2>3, InTransit, InTransitNext
<1>7. inTransitBar' = inTransitBar
  BY <1>6
<1>8. QED
  BY <1>2, <1>7

\* MPI_Recv: the packet remains in transit, in the hands of its recipient.
LEMMA RecvBar ==
  ASSUME IndInv, TimestampsDiffer, NEW t \in Thread, Recv(t)
  PROVE  UNCHANGED <<currentLamportTime, inTransitBar>>
<1> DEFINE f == hand[t].from
           c == <<f, Home[t], RecvTag[t]>>
           n == Head(net[c])
           moved == [from |-> f, to |-> Home[t], ts |-> n]
<1>1. /\ TypeOK /\ Home[t] \in Process /\ RecvTag[t] \in Tag
      /\ pc[t] = "probed" /\ f \in Process \ {Home[t]} /\ net[c] # <<>>
      /\ hand[t] \in [from : Process \cup {NoThread}, ts : Nat]
  BY ThreadFacts DEF Recv, Goto, ThreadHistory, Probed
<1>2. /\ UNCHANGED <<currentLamportTime, todo>>
      /\ net' = [net EXCEPT ![c] = Tail(@)]
      /\ pc' = [pc EXCEPT ![t] = "received"]
      /\ hand' = [hand EXCEPT ![t].ts = n]
  BY DEF Recv, Goto, Probed
<1>3. c \in Channel /\ net \in [Channel -> Seq(Nat)]
  BY <1>1 DEF Channel, TypeOK
<1>4. net[c] \in Seq(Nat) /\ 1 \in DOMAIN net[c] /\ n = net[c][1]
  BY <1>1, <1>3
<1>5. ASSUME NEW d \in Channel
      PROVE  IF d = c THEN /\ \A i \in DOMAIN net'[d] : /\ i + 1 \in DOMAIN net[d]
                                                        /\ net'[d][i] = net[d][i + 1]
                           /\ \A i \in DOMAIN net[d] \ {1} : /\ i - 1 \in DOMAIN net'[d]
                                                             /\ net'[d][i - 1] = net[d][i]
                      ELSE net'[d] = net[d]
  <2>1. CASE d # c
    BY <1>2, <1>3, <2>1
  <2>2. CASE d = c
    <3> HIDE DEF c
    <3>1. net'[c] = Tail(net[c]) /\ net[c] \in Seq(Nat) /\ net[c] # <<>>
      BY <1>1, <1>2, <1>3
    <3>2. /\ Len(net[c]) \in Nat \ {0} /\ DOMAIN net[c] = 1 .. Len(net[c])
          /\ DOMAIN net'[c] = 1 .. Len(net[c]) - 1
          /\ \A i \in 1 .. Len(net[c]) - 1 : net'[c][i] = net[c][i + 1]
      BY <3>1
    <3>3. \A i \in DOMAIN net'[c] : i + 1 \in DOMAIN net[c] /\ net'[c][i] = net[c][i + 1]
      BY <3>2
    <3>4. ASSUME NEW i \in DOMAIN net[c] \ {1}
          PROVE  i - 1 \in DOMAIN net'[c] /\ net'[c][i - 1] = net[c][i]
      <4>1. i - 1 \in 1 .. Len(net[c]) - 1 /\ (i - 1) + 1 = i
        BY <3>2
      <4>2. QED
        BY <3>2, <4>1
    <3>5. QED
      BY <2>2, <3>3, <3>4
  <2>3. QED
    BY <2>1, <2>2
<1>6. /\ pc'[t] = "received" /\ hand'[t] = [from |-> f, ts |-> n]
      /\ \A u \in Thread \ {t} : UNCHANGED <<pc[u], hand[u]>>
  BY <1>1, <1>2 DEF TypeOK
<1>7. todo[t] = {}
  BY <1>1 DEF TimestampsDiffer, YetToSend
<1> HIDE DEF c, n
<1>8. ASSUME NEW x PROVE OnTheNetwork(x) <=> OnTheNetwork(x)' \/ x = moved
  <2>1. ASSUME NEW r \in Process, NEW s \in Process, NEW tag \in Tag,
               NEW i \in DOMAIN net[<<r, s, tag>>],
               x = [from |-> r, to |-> s, ts |-> net[<<r, s, tag>>][i]]
        PROVE  OnTheNetwork(x)' \/ x = moved
    <3>1. <<r, s, tag>> \in Channel
      BY DEF Channel
    <3>2. CASE \E j \in DOMAIN net'[<<r, s, tag>>] : net'[<<r, s, tag>>][j] = net[<<r, s, tag>>][i]
      BY <2>1, <3>2 DEF OnTheNetwork
    <3>3. CASE <<r, s, tag>> = c /\ i = 1
      BY <1>4, <2>1, <3>3 DEF c
    <3>4. QED
      BY <1>5, <3>1, <3>2, <3>3
  <2>2. ASSUME NEW r \in Process, NEW s \in Process, NEW tag \in Tag,
               NEW i \in DOMAIN net'[<<r, s, tag>>],
               x = [from |-> r, to |-> s, ts |-> net'[<<r, s, tag>>][i]]
        PROVE  OnTheNetwork(x)
    <3>1. <<r, s, tag>> \in Channel
      BY DEF Channel
    <3>2. PICK j \in DOMAIN net[<<r, s, tag>>] : net'[<<r, s, tag>>][i] = net[<<r, s, tag>>][j]
      BY <1>5, <3>1
    <3>3. QED
      BY <2>2, <3>2 DEF OnTheNetwork
  <2>3. ASSUME x = moved PROVE OnTheNetwork(x)
    BY <1>1, <1>4, <2>3 DEF OnTheNetwork, c
  <2>4. QED
    BY <2>1, <2>2, <2>3 DEF OnTheNetwork
<1>9. ASSUME NEW x PROVE x \in inTransitBar' <=> x \in inTransitBar
  <2>1. /\ WithRecipient(x, t)' <=> x = moved
        /\ ~WithRecipient(x, t) /\ ~WithSender(x, t) /\ ~WithSender(x, t)'
    BY <1>1, <1>2, <1>6, <1>7 DEF WithRecipient, WithSender
  <2>2. ASSUME NEW u \in Thread \ {t}
        PROVE  /\ WithSender(x, u)' <=> WithSender(x, u)
               /\ WithRecipient(x, u)' <=> WithRecipient(x, u)
    BY <1>2, <1>6 DEF WithSender, WithRecipient
  <2>3. QED
    BY <1>8, <2>1, <2>2, InTransit, InTransitNext
<1>10. inTransitBar' = inTransitBar
  BY <1>9
<1>11. QED
  BY <1>2, <1>10

\* updateTimestamp: the packet has arrived.  No other packet in transit is
\* equal to it, and so the set loses exactly this one.
LEMMA UpdateClockBar ==
  ASSUME IndInv, TimestampsDiffer, NEW t \in Thread, UpdateClock(t)
  PROVE  \E packet \in inTransitBar : Abstract!Receive(packet)
<1> DEFINE f == hand[t].from
           packet == [from |-> f, to |-> Home[t], ts |-> hand[t].ts]
           now == IF hand[t].ts > Clock(t) THEN hand[t].ts ELSE Clock(t)
<1>1. /\ TypeOK /\ Home[t] \in Process /\ f \in Process /\ pc[t] = "received"
      /\ hand[t] \in [from : Process \cup {NoThread}, ts : Nat] /\ Clock(t) \in Nat
  BY ThreadFacts DEF UpdateClock, Goto, ThreadHistory
<1>2. /\ UNCHANGED <<net, todo, hand>>
      /\ currentLamportTime' = [currentLamportTime EXCEPT ![Home[t]] = now + 1]
      /\ pc'[t] = "updated" /\ \A u \in Thread \ {t} : UNCHANGED pc[u]
  BY <1>1 DEF UpdateClock, Goto, Merged, Clock, TypeOK
<1>3. todo[t] = {} /\ JustReceived(t)
  BY <1>1 DEF TimestampsDiffer, YetToSend
<1>4. WithRecipient(packet, t)
  BY <1>1 DEF WithRecipient
<1>5. ~OnTheNetwork(packet)
  <2>1. ASSUME NEW p \in Process, NEW q \in Process, NEW tag \in Tag,
               NEW i \in DOMAIN net[<<p, q, tag>>],
               packet = [from |-> p, to |-> q, ts |-> net[<<p, q, tag>>][i]]
        PROVE  FALSE
    <3>1. p = f /\ q = Home[t] /\ net[<<p, q, tag>>][i] = hand[t].ts
      BY <2>1
    <3>2. QED
      BY <1>1, <1>3, <3>1 DEF JustReceived
  <2>2. QED
    BY <2>1 DEF OnTheNetwork
<1>6. ASSUME NEW u \in Thread \ {t} PROVE ~WithSender(packet, u) /\ ~WithRecipient(packet, u)
  <2>1. hand[u] \in [from : Process \cup {NoThread}, ts : Nat]
    BY <1>1 DEF TypeOK
  <2>2. ASSUME WithSender(packet, u) PROVE FALSE
    <3>1. Home[t] \in todo[u] /\ f = Home[u] /\ hand[t].ts = hand[u].ts
      BY <2>2 DEF WithSender
    <3>2. pc[u] = "sending"
      BY <3>1 DEF TimestampsDiffer, YetToSend
    <3>3. hand[u].from = Home[u]
      <4>1. ThreadHistory(u)
        BY ThreadFacts
      <4>2. QED
        BY <3>2, <4>1 DEF ThreadHistory
    <3>4. hand[u] = hand[t]
      BY <1>1, <2>1, <3>1, <3>3
    <3>5. QED
      BY <1>1, <1>3, <3>1, <3>4 DEF JustReceived
  <2>3. ASSUME WithRecipient(packet, u) PROVE FALSE
    <3>1. pc[u] = "received" /\ Home[u] = Home[t] /\ f = hand[u].from /\ hand[t].ts = hand[u].ts
      BY <2>3 DEF WithRecipient
    <3>2. hand[u] = hand[t]
      BY <1>1, <2>1, <3>1
    <3>3. QED
      BY <1>1, <1>3, <3>1, <3>2 DEF JustReceived
  <2>4. QED
    BY <2>2, <2>3
<1> HIDE DEF packet
<1>7. ASSUME NEW x PROVE x \in inTransitBar' <=> x \in inTransitBar /\ x # packet
  <2>1. OnTheNetwork(x)' <=> OnTheNetwork(x)
    BY <1>2 DEF OnTheNetwork
  <2>2. ASSUME NEW u \in Thread \ {t}
        PROVE  /\ WithSender(x, u)' <=> WithSender(x, u)
               /\ WithRecipient(x, u)' <=> WithRecipient(x, u)
    BY <1>2 DEF WithSender, WithRecipient
  <2>3. /\ ~WithSender(x, t)' /\ ~WithSender(x, t) /\ ~WithRecipient(x, t)'
        /\ WithRecipient(x, t) <=> x = packet
    BY <1>1, <1>2, <1>3 DEF WithSender, WithRecipient, packet
  <2>4. QED
    BY <1>5, <1>6, <2>1, <2>2, <2>3, InTransit, InTransitNext
<1>8. packet \in inTransitBar /\ inTransitBar' = inTransitBar \ {packet}
  BY <1>4, <1>7, InTransit
<1>9. /\ now \in {currentLamportTime[packet.to], packet.ts}
      /\ now >= currentLamportTime[packet.to] /\ now >= packet.ts
      /\ currentLamportTime' = [currentLamportTime EXCEPT ![packet.to] = now + 1]
  BY <1>1, <1>2 DEF packet, Clock
<1> HIDE DEF now
<1>10. Abstract!Receive(packet)
  BY <1>8, <1>9 DEF Abstract!Receive
<1>11. QED
  BY <1>8, <1>10

\* Every step is a step of LogicalClock, or leaves its variables as they are.
LEMMA NextBar ==
  IndInv /\ TimestampsDiffer /\ [Next]_vars
    => [Abstract!Next]_<<currentLamportTime, inTransitBar, {}, {}>>
<1> SUFFICES ASSUME IndInv, TimestampsDiffer, [Next]_vars
             PROVE  Abstract!Next \/ UNCHANGED <<currentLamportTime, inTransitBar>>
  OBVIOUS
<1>1. ASSUME NEW t \in Thread, Continue(t)
      PROVE  Abstract!Next \/ UNCHANGED <<currentLamportTime, inTransitBar>>
  <2>1. CASE UpdateClock(t)
    BY <2>1, UpdateClockBar DEF Abstract!Next
  <2>2. CASE ~UpdateClock(t)
    BY <1>1, <2>2, SendToBar, RecvBar, QuietBar DEF Continue
  <2>3. QED
    BY <2>1, <2>2
<1>2. ASSUME NEW t \in Thread, Begin(t)
      PROVE  Abstract!Next \/ UNCHANGED <<currentLamportTime, inTransitBar>>
  <2>1. ASSUME NEW R \in SUBSET (Process \ {Home[t]}), BeginSend(t, R) PROVE Abstract!Next
    BY <2>1, BeginSendBar, ThreadFacts DEF Abstract!Next
  <2>2. QED
    BY <1>2, <2>1, QuietBar DEF Begin
<1>3. CASE UNCHANGED vars
  BY <1>3 DEF inTransitBar, vars, sharedVars, threadVars
<1>4. QED
  BY <1>1, <1>2, <1>3 DEF Next, Quiet

\* The clocks behave as if send and receive were atomic, for any number of
\* processes, threads and tags: what other threads do between the lock, the
\* MPI calls and the second reading of the clock does not show.
THEOREM OptimizedImplementsLogicalClock == SafetySpec => ImplementsLogicalClock
<1>1. QED
  BY BarInit, Invariance, StampsDiffer, NextBar, PTL
  DEF SafetySpec, ImplementsLogicalClock, Abstract!Spec

=============================================================================
