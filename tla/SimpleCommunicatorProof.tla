----------------------- MODULE SimpleCommunicatorProof -----------------------
(***************************************************************************)
(* Proofs about SimpleCommunicator, for any number of processes, threads   *)
(* and tags, with any faults: the inductive invariant, which keeps headers *)
(* and bodies in step, and the refinement of LogicalClock.                 *)
(***************************************************************************)
EXTENDS SimpleCommunicator, SequenceLemmas

\* The time after a time is later, or the clock has wrapped around.
LEMMA TimeFacts ==
  /\ 0 \in LamportTime /\ LamportTime \in SUBSET Nat /\ Unwritten \in SUBSET LamportTime
  /\ \A time \in LamportTime : /\ After(time) \in LamportTime
                               /\ After(time) # 0 => After(time) = time + 1
BY TimeAssumption DEF LamportTime, After

\* The clock shows the later time, plus one, or has wrapped around.
LEMMA MergedFacts ==
  ASSUME NEW time \in LamportTime, NEW clock \in LamportTime
  PROVE  /\ Merged(time, clock) \in LamportTime
         /\ Merged(time, clock) # 0 =>
              /\ Merged(time, clock) = (IF time > clock THEN time ELSE clock) + 1
              /\ Merged(time, clock) > time /\ Merged(time, clock) > clock
BY TimeFacts DEF Merged

\* What the invariant and the assumptions say of one thread.
LEMMA ThreadFacts ==
  ASSUME IndInv, NEW t \in Thread
  PROVE  /\ TypeOK /\ SendsInTurn(t) /\ GetsItsBody(t) /\ \A q \in Process : BodyDueIsLed(t, q)
         /\ t # NoThread /\ Home[t] \in Process /\ Clock(t) \in LamportTime
         /\ hand[t] \in Packet
         /\ todo[t] \in Seq(Process \X {"header", "body"})
         /\ pc[t] \in {"idle", "sending", "body", "merge"}
         /\ hand[t].astray => t \in timedOut
         /\ pc[t] = "body" => hand[t].from \in Process
BY SimpleAssumption DEF IndInv, TypeOK, Clock, AstrayOnlyAfterTimeout, GetsItsBody

\* And of a channel.
LEMMA ChannelFacts ==
  ASSUME IndInv, NEW p \in Process, NEW q \in Process
  PROVE  /\ net[<<p, q>>] \in Seq(Message)
         /\ DOMAIN net[<<p, q>>] = 1 .. Len(net[<<p, q>>]) /\ Len(net[<<p, q>>]) \in Nat
         /\ \A i \in DOMAIN net[<<p, q>>] :
              /\ i \in Nat /\ net[<<p, q>>][i] \in Message
              /\ HeaderIsFollowed(<<p, q>>, i) /\ BodyIsLed(<<p, q>>, i)
<1>1. net[<<p, q>>] \in Seq(Message) /\ <<p, q>> \in Process \X Process
  BY DEF IndInv, TypeOK
<1>2. \A i \in DOMAIN net[<<p, q>>] : HeaderIsFollowed(<<p, q>>, i) /\ BodyIsLed(<<p, q>>, i)
  BY <1>1, Zenon DEF IndInv
<1>3. DOMAIN net[<<p, q>>] = 1 .. Len(net[<<p, q>>]) /\ Len(net[<<p, q>>]) \in Nat
  BY <1>1
<1>4. \A i \in DOMAIN net[<<p, q>>] : i \in Nat /\ net[<<p, q>>][i] \in Message
  BY <1>1
<1>5. QED
  BY <1>1, <1>2, <1>3, <1>4, Zenon

\* No message is for two threads.
LEMMA OneReceiver ==
  ASSUME NEW t \in Thread, NEW u \in Thread, Home[t] = Home[u], NEW tag \in Tag,
         Matches(t, tag), Matches(u, tag)
  PROVE  t = u
BY SimpleAssumption DEF Matches

\* Before anybody has called anything.
LEMMA InitIndInv == Init => IndInv
<1> SUFFICES ASSUME Init PROVE IndInv
  OBVIOUS
<1>1. TypeOK
  <2>1. hand \in [Thread -> Packet]
    BY TimeFacts DEF Init, NoPacket, NoId, Packet, Id
  <2>2. net \in [Process \X Process -> Seq(Message)] /\ todo \in [Thread -> Seq(Process \X {"header", "body"})]
    BY DEF Init
  <2>3. sends \in [Thread -> Nat] /\ \A t \in Thread : sends[t] <= MAX_SENDS[t]
    <3>1. \A t \in Thread : MAX_SENDS[t] \in Nat
      BY SimpleAssumption
    <3>2. sends = [t \in Thread |-> 0]
      BY DEF Init
    <3>3. QED
      BY <3>1, <3>2
  <2>4. QED
    BY <2>1, <2>2, <2>3, TimeFacts DEF TypeOK, Init
<1>2. \A c \in Process \X Process : net[c] = <<>> /\ DOMAIN net[c] = {}
  BY DEF Init
<1>3. ASSUME NEW t \in Thread
      PROVE  /\ SendsInTurn(t) /\ GetsItsBody(t) /\ \A q \in Process : BodyDueIsLed(t, q)
             /\ pc[t] = "idle" /\ ~hand[t].astray
  <2>1. pc[t] = "idle" /\ todo[t] = <<>> /\ ~hand[t].astray
    BY DEF Init, NoPacket
  <2>2. DOMAIN todo[t] = {}
    BY <2>1
  <2>3. communicationMutex[Home[t]] # t
    BY SimpleAssumption DEF Init
  <2>4. QED
    BY <2>1, <2>2, <2>3 DEF SendsInTurn, GetsItsBody, BodyDueIsLed, BodyDue
<1>4. AstrayOnlyAfterTimeout
  BY <1>3 DEF AstrayOnlyAfterTimeout
<1>5. \A c \in Process \X Process : \A i \in DOMAIN net[c] : HeaderIsFollowed(c, i) /\ BodyIsLed(c, i)
  BY <1>2
<1>6. QED
  BY <1>1, <1>3, <1>4, <1>5 DEF IndInv

\* The part of the invariant about the channels.
InStep ==
  /\ \A p, q \in Process : \A i \in DOMAIN net[<<p, q>>] :
       HeaderIsFollowed(<<p, q>>, i) /\ BodyIsLed(<<p, q>>, i)
  /\ \A u \in Thread, q \in Process : BodyDueIsLed(u, q)

\* The invariant after a step: what is left to show for it.
LEMMA IndInvFrom ==
  ASSUME TypeOK', InStep', \A t \in Thread : (SendsInTurn(t) /\ GetsItsBody(t))',
         \A t \in Thread : (pc[t] = "merge" => hand[t].from \in Process)',
         \A t \in Thread : (hand[t].astray => t \in timedOut)',
         \A t \in Thread : (pc[t] = "merge" /\ ~hand[t].astray => IsWhole(t))'
  PROVE  IndInv'
<1>1. \A c \in Process \X Process : \A i \in DOMAIN net'[c] : HeaderIsFollowed(c, i)' /\ BodyIsLed(c, i)'
  BY DEF InStep
<1>2. QED
  BY <1>1 DEF IndInv, InStep, AstrayOnlyAfterTimeout

\* A step of t that sends nothing and receives nothing: headers and bodies are
\* in step as before, if a thread that gave up its body is known to have done so.
LEMMA QuietFrame ==
  ASSUME IndInv, NEW t \in Thread, UNCHANGED net, timedOut \subseteq timedOut',
         \A u \in Thread \ {t} : UNCHANGED <<pc[u], hand[u], todo[u]>>,
         \A q \in Process : ~BodyDue(t, q) /\ ~BodyDue(t, q)',
         pc[t] = "body" => t \in timedOut'
  PROVE  InStep' /\ \A u \in Thread \ {t} : GetsItsBody(u)'
<1>1. \A u \in Thread, q \in Process : /\ BodyDue(u, q)' <=> BodyDue(u, q)
                                       /\ BodyDue(u, q) => UNCHANGED hand[u]
  BY DEF BodyDue
<1>2. \A u \in Thread, p \in Process : Matching(u, p)' = Matching(u, p) /\ First(u, p)' = First(u, p)
  BY DEF Matching, First
<1>3. \A u \in Thread, p \in Process : Awaits(u, p) => Awaits(u, p)' \/ u \in timedOut'
  BY DEF Awaits
<1>4. ASSUME NEW p \in Process, NEW q \in Process, NEW i \in DOMAIN net[<<p, q>>]
      PROVE  HeaderIsFollowed(<<p, q>>, i)'
  <2>1. HeaderIsFollowed(<<p, q>>, i)
    BY ChannelFacts, <1>4
  <2>2. QED
    BY <1>1, <2>1 DEF HeaderIsFollowed, IsBodyOf
<1>5. ASSUME NEW p \in Process, NEW q \in Process, NEW i \in DOMAIN net[<<p, q>>]
      PROVE  BodyIsLed(<<p, q>>, i)'
  <2>1. BodyIsLed(<<p, q>>, i)
    BY ChannelFacts, <1>5
  <2>2. QED
    BY <1>2, <1>3, <2>1 DEF BodyIsLed, IsBodyOf
<1>6. ASSUME NEW u \in Thread, NEW q \in Process
      PROVE  BodyDueIsLed(u, q)'
  <2>1. BodyDueIsLed(u, q) /\ Home[u] \in Process
    BY ThreadFacts, <1>6
  <2>2. QED
    BY <1>1, <1>2, <1>3, <2>1 DEF BodyDueIsLed
<1>7. ASSUME NEW u \in Thread \ {t}
      PROVE  GetsItsBody(u)'
  <2>1. GetsItsBody(u) /\ Home[u] \in Process
    BY ThreadFacts, <1>7
  <2>2. QED
    BY <1>1, <1>2, <2>1 DEF GetsItsBody
<1>8. QED
  BY <1>4, <1>5, <1>6, <1>7 DEF InStep

-----------------------------------------------------------------------------
\* What is on its way from p to the process of t, and the place in it of the
\* message that a receive of t gets.
Queue(t, p) == net[<<p, Home[t]>>]
Place(t, p) == Min(Matching(t, p))

\* A receive of t gets the first message of p that it takes; the messages
\* behind it move up, and the other channels are as they were.
LEMMA TakeFacts ==
  ASSUME IndInv, NEW t \in Thread, NEW p \in Process, Take(t, p)
  PROVE  LET s == Queue(t, p)  rest == Queue(t, p)'  r == Place(t, p) IN
         /\ s \in Seq(Message) /\ DOMAIN s = 1 .. Len(s) /\ Len(s) \in Nat
         /\ r \in DOMAIN s /\ s[r] \in Message /\ Matches(t, s[r].tag) /\ First(t, p) = s[r]
         /\ \A k \in DOMAIN s : k < r => ~Matches(t, s[k].tag)
         /\ rest \in Seq(Message) /\ DOMAIN rest = 1 .. Len(rest) /\ Len(rest) = Len(s) - 1
         /\ \A i \in DOMAIN rest :
              /\ i < r => i \in DOMAIN s /\ rest[i] = s[i]
              /\ ~(i < r) => i + 1 \in DOMAIN s /\ rest[i] = s[i + 1]
         /\ \A k \in DOMAIN s :
              /\ k < r => k \in DOMAIN rest /\ rest[k] = s[k]
              /\ k > r => k - 1 \in DOMAIN rest /\ rest[k - 1] = s[k]
         /\ net' \in [Process \X Process -> Seq(Message)]
         /\ \A d \in Process \X Process : d # <<p, Home[t]>> => net'[d] = net[d]
<1> DEFINE s == Queue(t, p)
           rest == Queue(t, p)'
           r == Place(t, p)
<1>1. Home[t] \in Process /\ <<p, Home[t]>> \in Process \X Process
  BY ThreadFacts
<1>2. s \in Seq(Message) /\ DOMAIN s = 1 .. Len(s) /\ Len(s) \in Nat
  BY <1>1, ChannelFacts, Zenon DEF Queue
<1>3. Matching(t, p) = {i \in DOMAIN s : Matches(t, s[i].tag)} /\ Matching(t, p) # {}
  BY DEF Matching, Take, Queue
<1>4. Matching(t, p) \in SUBSET Nat
  BY <1>2, <1>3
<1>5. r \in Matching(t, p) /\ \A k \in Matching(t, p) : r <= k
  BY <1>3, <1>4, MinFacts, Zenon DEF Place
<1>6. First(t, p) = s[r]
  BY DEF First, Queue, Place
<1>7. net \in [Process \X Process -> Seq(Message)] /\ net' = [net EXCEPT ![<<p, Home[t]>>] = RemoveAt(s, r)]
  BY ThreadFacts DEF TypeOK, Take, Queue, Place
<1>8. rest = RemoveAt(s, r) /\ \A d \in Process \X Process : d # <<p, Home[t]>> => net'[d] = net[d]
  BY <1>1, <1>7 DEF Queue
<1> HIDE DEF s, rest, r
<1>9. r \in DOMAIN s /\ Matches(t, s[r].tag)
  BY <1>3, <1>5
<1>10. \A k \in DOMAIN s : k < r => ~Matches(t, s[k].tag)
  <2>1. ASSUME NEW k \in DOMAIN s, k < r, Matches(t, s[k].tag) PROVE FALSE
    <3>1. k \in Nat /\ r \in Nat /\ r <= k
      BY <1>3, <1>4, <1>5, <2>1
    <3>2. QED
      BY <2>1, <3>1
  <2>2. QED
    BY <2>1
<1>11. /\ rest \in Seq(Message) /\ Len(rest) = Len(s) - 1
       /\ \A i \in DOMAIN rest :
            /\ i < r => i \in DOMAIN s /\ rest[i] = s[i]
            /\ ~(i < r) => i + 1 \in DOMAIN s /\ rest[i] = s[i + 1]
       /\ \A k \in DOMAIN s :
            /\ k < r => k \in DOMAIN rest /\ rest[k] = s[k]
            /\ k > r => k - 1 \in DOMAIN rest /\ rest[k - 1] = s[k]
  <2>1. s \in Seq(Message) /\ r \in DOMAIN s /\ rest = RemoveAt(s, r)
    BY <1>2, <1>8, <1>9
  <2>2. rest \in Seq(Message) /\ Len(rest) = Len(s) - 1
    BY <2>1, Removed
  <2>3. \A i \in DOMAIN rest :
          /\ i < r => i \in DOMAIN s /\ rest[i] = s[i]
          /\ ~(i < r) => i + 1 \in DOMAIN s /\ rest[i] = s[i + 1]
    BY <2>1, Removed
  <2>4. \A k \in DOMAIN s :
          /\ k < r => k \in DOMAIN rest /\ rest[k] = s[k]
          /\ k > r => k - 1 \in DOMAIN rest /\ rest[k - 1] = s[k]
    BY <2>1, Removed
  <2>5. QED
    BY <2>2, <2>3, <2>4, Zenon
<1>12. DOMAIN rest = 1 .. Len(rest) /\ s[r] \in Message
  BY <1>2, <1>9, <1>11
<1>13. net' \in [Process \X Process -> Seq(Message)]
  BY <1>7, <1>8, <1>11
<1>14. QED
  BY <1>2, <1>6, <1>8, <1>9, <1>10, <1>11, <1>12, <1>13, Zenon DEF s, rest, r

\* What another thread of the same process takes of p is as it was, with its place
\* among the messages.
LEMMA OtherReceiver ==
  ASSUME IndInv, NEW t \in Thread, NEW p \in Process, Take(t, p),
         NEW v \in Thread, v # t, Home[v] = Home[t]
  PROVE  /\ Matching(v, p)' = {} <=> Matching(v, p) = {}
         /\ Matching(v, p) # {} =>
              /\ Place(v, p) \in Nat /\ Place(v, p) # Place(t, p)
              /\ Place(v, p)' = IF Place(v, p) < Place(t, p) THEN Place(v, p) ELSE Place(v, p) - 1
              /\ First(v, p)' = First(v, p)
<1> DEFINE s == Queue(t, p)
           rest == Queue(t, p)'
           r == Place(t, p)
           S == Matching(v, p)
           T == Matching(v, p)'
<1>1. /\ s \in Seq(Message) /\ DOMAIN s = 1 .. Len(s) /\ Len(s) \in Nat
      /\ r \in DOMAIN s /\ s[r] \in Message /\ Matches(t, s[r].tag)
      /\ rest \in Seq(Message) /\ DOMAIN rest = 1 .. Len(rest) /\ Len(rest) = Len(s) - 1
  BY TakeFacts, Zenon
<1>2. /\ \A i \in DOMAIN rest :
           /\ i < r => i \in DOMAIN s /\ rest[i] = s[i]
           /\ ~(i < r) => i + 1 \in DOMAIN s /\ rest[i] = s[i + 1]
      /\ \A k \in DOMAIN s :
           /\ k < r => k \in DOMAIN rest /\ rest[k] = s[k]
           /\ k > r => k - 1 \in DOMAIN rest /\ rest[k - 1] = s[k]
  BY TakeFacts, Zenon
<1>3. /\ S = {k \in DOMAIN s : Matches(v, s[k].tag)}
      /\ T = {i \in DOMAIN rest : Matches(v, rest[i].tag)}
  BY DEF Matching, Matches, Queue
<1>4. First(v, p) = s[Place(v, p)] /\ First(v, p)' = rest[Place(v, p)']
  BY DEF First, Queue, Place
<1>5. Place(v, p) = Min(S) /\ Place(v, p)' = Min(T)
  BY DEF Place
<1> HIDE DEF s, rest, r, S, T
<1>6. r \notin S
  BY <1>1, <1>3, OneReceiver DEF Message
<1>7. S \in SUBSET Nat /\ T \in SUBSET Nat /\ r \in Nat
  BY <1>1, <1>3
<1>8. \A k \in S : (k < r => k \in T) /\ (k > r => k - 1 \in T)
  BY <1>2, <1>3
<1>9. \A i \in T : (i < r => i \in S) /\ (~(i < r) => i + 1 \in S)
  BY <1>2, <1>3
<1>10. /\ S = {} <=> T = {}
       /\ S # {} => Min(T) = IF Min(S) < r THEN Min(S) ELSE Min(S) - 1
  BY <1>6, <1>7, <1>8, <1>9, MovedMin, Zenon
<1>11. ASSUME S # {}
       PROVE  Min(S) \in Nat /\ Min(S) # r /\ First(v, p)' = First(v, p)
  <2>1. Min(S) \in S
    BY <1>7, <1>11, MinFacts, Zenon
  <2>2. Min(S) \in Nat /\ Min(S) # r /\ Min(S) \in DOMAIN s
    BY <1>3, <1>6, <1>7, <2>1
  <2>3. rest[Min(T)] = s[Min(S)]
    <3>1. CASE Min(S) < r
      BY <1>2, <1>10, <1>11, <2>2, <3>1
    <3>2. CASE Min(S) > r
      <4>1. Min(T) = Min(S) - 1
        BY <1>7, <1>10, <1>11, <2>2, <3>2
      <4>2. QED
        BY <1>2, <2>2, <3>2, <4>1
    <3>3. QED
      BY <1>7, <2>2, <3>1, <3>2
  <2>4. QED
    BY <1>4, <1>5, <2>2, <2>3
<1>12. QED
  BY <1>5, <1>10, <1>11 DEF S, T, r

\* A channel that a step leaves alone holds for every thread what it held.
LEMMA OtherChannel ==
  ASSUME NEW v \in Thread, NEW p, UNCHANGED net[<<p, Home[v]>>]
  PROVE  Matching(v, p)' = Matching(v, p) /\ First(v, p)' = First(v, p)
BY DEF Matching, First, Matches

\* A receive of t from p: headers and bodies stay in step, for all but t itself,
\* if a header with a text leaves t waiting for the body or as one that timed out.
LEMMA TakeInStep ==
  ASSUME IndInv, NEW t \in Thread, NEW p \in Process, Take(t, p), pc[t] \in {"idle", "body"},
         timedOut \subseteq timedOut', UNCHANGED todo,
         \A u \in Thread \ {t} : UNCHANGED <<pc[u], hand[u]>>,
         First(t, p).part = "header" /\ First(t, p).hasText => t \in timedOut' \/ Awaits(t, p)',
         pc[t] = "body" => hand[t].from = p
  PROVE  InStep' /\ \A u \in Thread \ {t} : GetsItsBody(u)'
<1> DEFINE s == Queue(t, p)
           rest == Queue(t, p)'
           r == Place(t, p)
<1>1. /\ s \in Seq(Message) /\ DOMAIN s = 1 .. Len(s) /\ Len(s) \in Nat
      /\ r \in DOMAIN s /\ s[r] \in Message /\ Matches(t, s[r].tag) /\ First(t, p) = s[r]
      /\ rest \in Seq(Message) /\ DOMAIN rest = 1 .. Len(rest) /\ Len(rest) = Len(s) - 1
  BY TakeFacts, Zenon
<1>2. \A k \in DOMAIN s : k < r => ~Matches(t, s[k].tag)
  BY TakeFacts, Zenon
<1>3. \A i \in DOMAIN rest :
        /\ i < r => i \in DOMAIN s /\ rest[i] = s[i]
        /\ ~(i < r) => i + 1 \in DOMAIN s /\ rest[i] = s[i + 1]
  BY TakeFacts, Zenon
<1>4. \A k \in DOMAIN s :
        /\ k < r => k \in DOMAIN rest /\ rest[k] = s[k]
        /\ k > r => k - 1 \in DOMAIN rest /\ rest[k - 1] = s[k]
  BY TakeFacts, Zenon
<1>5. \A d \in Process \X Process : d # <<p, Home[t]>> => net'[d] = net[d]
  BY TakeFacts, Zenon
<1>6. s = net[<<p, Home[t]>>] /\ rest = net'[<<p, Home[t]>>] /\ r = Min(Matching(t, p)) /\ Home[t] \in Process
  BY ThreadFacts DEF Queue, Place
<1> HIDE DEF s, rest, r
\* t is not sending, and what the others do is unchanged.
<1>7. \A u \in Thread, q \in Process : /\ BodyDue(u, q)' <=> BodyDue(u, q)
                                       /\ BodyDue(u, q) => u # t /\ UNCHANGED hand[u]
  <2>1. \A u \in Thread : SendsInTurn(u)
    BY ThreadFacts
  <2>2. QED
    BY <2>1 DEF BodyDue, SendsInTurn
<1>8. \A u \in Thread, d \in Process : Awaits(u, d) => \/ u # t /\ Awaits(u, d)'
                                                       \/ u = t /\ d = p
  BY DEF Awaits
<1>9. ASSUME NEW i \in DOMAIN rest
      PROVE  /\ HeaderIsFollowed(<<p, Home[t]>>, i)'
             /\ BodyIsLed(<<p, Home[t]>>, i)'
  <2>1. PICK k \in DOMAIN s : k = (IF i < r THEN i ELSE i + 1) /\ rest[i] = s[k]
    BY <1>1, <1>3
  <2>2. /\ i \in Nat /\ k \in Nat /\ r \in Nat /\ k # r /\ s[k] \in Message
        /\ i - 1 \in Int /\ k - 1 \in Int
    BY <1>1, <2>1
  <2>3. HeaderIsFollowed(<<p, Home[t]>>, k) /\ BodyIsLed(<<p, Home[t]>>, k)
    BY <1>6, ChannelFacts
  <2>4. ASSUME k + 1 \in DOMAIN s, IsBodyOf(s[k + 1], s[k])
        PROVE  i + 1 \in DOMAIN rest /\ rest[i + 1] = s[k + 1]
    <3>1. s[k + 1].tag = s[k].tag
      BY <2>2, <2>4 DEF IsBodyOf, Message
    <3>2. k + 1 # r
      BY <1>1, <1>2, <2>2, <3>1
    <3>3. CASE i < r
      BY <1>4, <2>1, <2>2, <2>4, <3>2, <3>3
    <3>4. CASE ~(i < r)
      <4>1. k + 1 > r /\ (k + 1) - 1 = i + 1
        BY <2>1, <2>2, <3>4
      <4>2. QED
        BY <1>4, <2>4, <4>1
    <3>5. QED
      BY <3>3, <3>4
  <2>5. k = Len(s) => i = Len(rest)
    BY <1>1, <2>1, <2>2
  <2>6. HeaderIsFollowed(<<p, Home[t]>>, i)'
    <3>1. SUFFICES ASSUME s[k].part = "header", s[k].hasText
                   PROVE  \/ i + 1 \in DOMAIN rest /\ IsBodyOf(rest[i + 1], rest[i])
                          \/ /\ i = Len(rest)
                             /\ \E u \in Thread : /\ Home[u] = p /\ BodyDue(u, Home[t])'
                                                  /\ SendTag[u] = rest[i].tag /\ hand'[u].id = rest[i].id
      BY <1>6, <2>1 DEF HeaderIsFollowed, IsBodyOf
    <3>2. \/ k + 1 \in DOMAIN s /\ IsBodyOf(s[k + 1], s[k])
          \/ /\ k = Len(s)
             /\ \E u \in Thread : /\ Home[u] = p /\ BodyDue(u, Home[t])
                                  /\ SendTag[u] = s[k].tag /\ hand[u].id = s[k].id
      BY <1>6, <2>3, <3>1 DEF HeaderIsFollowed
    <3>3. CASE k + 1 \in DOMAIN s /\ IsBodyOf(s[k + 1], s[k])
      BY <2>1, <2>4, <3>3
    <3>4. CASE /\ k = Len(s)
               /\ \E u \in Thread : /\ Home[u] = p /\ BodyDue(u, Home[t])
                                    /\ SendTag[u] = s[k].tag /\ hand[u].id = s[k].id
      BY <1>6, <1>7, <2>1, <2>5, <3>4
    <3>5. QED
      BY <3>2, <3>3, <3>4
  <2>7. BodyIsLed(<<p, Home[t]>>, i)'
    <3>1. SUFFICES ASSUME s[k].part = "body"
                   PROVE  \/ i - 1 \in DOMAIN rest /\ IsBodyOf(rest[i], rest[i - 1])
                          \/ \E v \in Thread : /\ Home[v] = Home[t] /\ Matches(v, rest[i].tag)
                                               /\ \/ v \in timedOut'
                                                  \/ Awaits(v, p)' /\ Min(Matching(v, p)') = i
      BY <1>6, <2>1 DEF BodyIsLed, IsBodyOf, Matches
    <3>2. \/ k - 1 \in DOMAIN s /\ IsBodyOf(s[k], s[k - 1])
          \/ \E v \in Thread : /\ Home[v] = Home[t] /\ Matches(v, s[k].tag)
                               /\ v \in timedOut \/ (Awaits(v, p) /\ Min(Matching(v, p)) = k)
      BY <1>6, <2>3, <3>1 DEF BodyIsLed
    <3>3. CASE k - 1 \in DOMAIN s /\ IsBodyOf(s[k], s[k - 1]) /\ k - 1 # r
      <4>1. i - 1 \in DOMAIN rest /\ rest[i - 1] = s[k - 1]
        <5>1. CASE i < r
          BY <1>4, <2>1, <2>2, <3>3, <5>1
        <5>2. CASE ~(i < r)
          <6>1. k - 1 > r /\ (k - 1) - 1 = i - 1
            BY <2>1, <2>2, <3>3, <5>2
          <6>2. QED
            BY <1>4, <3>3, <6>1
        <5>3. QED
          BY <5>1, <5>2
      <4>2. QED
        BY <2>1, <3>3, <4>1
    <3>4. CASE k - 1 \in DOMAIN s /\ IsBodyOf(s[k], s[k - 1]) /\ k - 1 = r
      \* its header is the message that t takes
      <4>1. /\ s[r].part = "header" /\ s[r].hasText /\ Matches(t, rest[i].tag)
            /\ i = r
        <5>1. i = r
          BY <2>1, <2>2, <3>4
        <5>2. IsBodyOf(s[k], s[r]) /\ s[r] \in Message /\ s[k] \in Message
          BY <1>1, <2>2, <3>4
        <5>3. s[r].part = "header" /\ s[r].hasText /\ s[k].tag = s[r].tag
          BY <5>2 DEF IsBodyOf, Message
        <5>4. QED
          BY <1>1, <2>1, <5>1, <5>3
      <4>2. CASE t \in timedOut'
        BY <4>1, <4>2
      <4>3. CASE Awaits(t, p)'
        <5>1. Matching(t, p)' = {j \in DOMAIN rest : Matches(t, rest[j].tag)}
          BY <1>6 DEF Matching, Matches
        <5>2. \A j \in Matching(t, p)' : i <= j
          <6>1. ASSUME NEW j \in DOMAIN rest, Matches(t, rest[j].tag), j < r PROVE FALSE
            BY <1>2, <1>3, <6>1
          <6>2. \A j \in DOMAIN rest : j \in Nat
            BY <1>1
          <6>3. QED
            BY <2>2, <4>1, <5>1, <6>1, <6>2
        <5>3. i \in Matching(t, p)' /\ Matching(t, p)' \in SUBSET Nat
          BY <1>1, <4>1, <5>1
        <5>4. Min(Matching(t, p)') = i
          BY <5>2, <5>3, MinIs, Zenon
        <5>5. QED
          BY <4>1, <4>3, <5>4
      <4>4. QED
        BY <1>1, <4>1, <4>2, <4>3
    <3>5. CASE \E v \in Thread : /\ Home[v] = Home[t] /\ Matches(v, s[k].tag)
                                 /\ v \in timedOut \/ (Awaits(v, p) /\ Min(Matching(v, p)) = k)
      <4>1. PICK v \in Thread : /\ Home[v] = Home[t] /\ Matches(v, s[k].tag)
                                /\ v \in timedOut \/ (Awaits(v, p) /\ Min(Matching(v, p)) = k)
        BY <3>5
      <4>2. CASE v \in timedOut
        BY <2>1, <4>1, <4>2
      <4>3. CASE Awaits(v, p) /\ Min(Matching(v, p)) = k
        <5>1. v # t /\ Awaits(v, p)'
          BY <1>6, <1>8, <2>2, <4>3
        <5>2. k \in Matching(v, p)
          BY <1>6, <4>1 DEF Matching
        <5>3. Min(Matching(v, p)') = i
          BY <1>6, <2>1, <2>2, <4>1, <4>3, <5>1, <5>2, OtherReceiver DEF Place
        <5>4. QED
          BY <2>1, <4>1, <5>1, <5>3
      <4>4. QED
        BY <4>1, <4>2, <4>3
    <3>6. QED
      BY <3>2, <3>3, <3>4, <3>5
  <2>8. QED
    BY <2>6, <2>7
<1>10. ASSUME NEW d \in Process, NEW q \in Process, <<d, q>> # <<p, Home[t]>>, NEW i \in DOMAIN net[<<d, q>>]
       PROVE  HeaderIsFollowed(<<d, q>>, i)' /\ BodyIsLed(<<d, q>>, i)'
  <2>1. UNCHANGED net[<<d, q>>]
    BY <1>5, <1>10
  <2>2. HeaderIsFollowed(<<d, q>>, i) /\ BodyIsLed(<<d, q>>, i)
    BY ChannelFacts, <1>10
  <2>3. HeaderIsFollowed(<<d, q>>, i)'
    BY <1>7, <2>1, <2>2 DEF HeaderIsFollowed, IsBodyOf
  <2>4. ASSUME NEW v \in Thread, Home[v] = q, Awaits(v, d)
        PROVE  Awaits(v, d)' /\ Matching(v, d)' = Matching(v, d)
    BY <1>8, <1>10, <2>1, <2>4, OtherChannel
  <2>5. BodyIsLed(<<d, q>>, i)'
    BY <2>1, <2>2, <2>4 DEF BodyIsLed, IsBodyOf, Matches
  <2>6. QED
    BY <2>3, <2>5
<1>11. ASSUME NEW u \in Thread, NEW q \in Process, BodyDue(u, q)
       PROVE  BodyDueIsLed(u, q)'
  <2>1. BodyDueIsLed(u, q) /\ Home[u] \in Process /\ u # t /\ UNCHANGED hand[u]
    BY <1>7, <1>11, ThreadFacts
  <2>2. CASE <<Home[u], q>> # <<p, Home[t]>>
    <3>1. UNCHANGED net[<<Home[u], q>>]
      BY <1>5, <2>1, <2>2
    <3>2. ASSUME NEW v \in Thread, Home[v] = q, Awaits(v, Home[u])
          PROVE  Awaits(v, Home[u])' /\ Matching(v, Home[u])' = Matching(v, Home[u])
      BY <1>8, <2>1, <2>2, <3>1, <3>2, OtherChannel
    <3>3. QED
      BY <1>11, <2>1, <3>1, <3>2 DEF BodyDueIsLed, Matches
  <2>3. CASE Home[u] = p /\ q = Home[t]
    <3>1. SUFFICES
            \/ /\ rest # <<>>
               /\ Last(rest) = [tag |-> SendTag[u], part |-> "header", ts |-> hand[u].ts, hasText |-> TRUE, id |-> hand[u].id]
            \/ \E v \in Thread : /\ Home[v] = Home[t] /\ Matches(v, SendTag[u])
                                 /\ v \in timedOut' \/ (Awaits(v, p)' /\ Matching(v, p)' = {})
      BY <1>6, <2>1, <2>3 DEF BodyDueIsLed, Matches
    <3>2. \/ /\ s # <<>>
             /\ Last(s) = [tag |-> SendTag[u], part |-> "header", ts |-> hand[u].ts, hasText |-> TRUE, id |-> hand[u].id]
          \/ \E v \in Thread : /\ Home[v] = Home[t] /\ Matches(v, SendTag[u])
                               /\ v \in timedOut \/ (Awaits(v, p) /\ Matching(v, p) = {})
      BY <1>6, <1>11, <2>1, <2>3 DEF BodyDueIsLed
    <3>3. Last(s) = s[Len(s)] /\ Last(rest) = rest[Len(rest)]
      BY DEF Last
    <3>4. CASE \E v \in Thread : /\ Home[v] = Home[t] /\ Matches(v, SendTag[u])
                                 /\ v \in timedOut \/ (Awaits(v, p) /\ Matching(v, p) = {})
      <4>1. PICK v \in Thread : /\ Home[v] = Home[t] /\ Matches(v, SendTag[u])
                                /\ v \in timedOut \/ (Awaits(v, p) /\ Matching(v, p) = {})
        BY <3>4
      <4>2. CASE Awaits(v, p) /\ Matching(v, p) = {}
        <5>1. v # t
          BY <4>2 DEF Take
        <5>2. Awaits(v, p)' /\ Matching(v, p)' = {}
          BY <1>8, <4>1, <4>2, <5>1, OtherReceiver
        <5>3. QED
          BY <4>1, <5>2
      <4>3. QED
        BY <4>1, <4>2
    <3>5. CASE /\ s # <<>> /\ r # Len(s)
               /\ Last(s) = [tag |-> SendTag[u], part |-> "header", ts |-> hand[u].ts, hasText |-> TRUE, id |-> hand[u].id]
      <4>1. Len(s) \in DOMAIN s /\ Len(s) > r /\ Len(s) - 1 = Len(rest)
        BY <1>1, <3>5
      <4>2. Len(rest) \in DOMAIN rest /\ rest[Len(rest)] = s[Len(s)]
        BY <1>4, <4>1
      <4>3. rest # <<>>
        BY <1>1, <4>2
      <4>4. QED
        BY <3>3, <3>5, <4>2, <4>3
    <3>6. CASE /\ s # <<>> /\ r = Len(s)
               /\ Last(s) = [tag |-> SendTag[u], part |-> "header", ts |-> hand[u].ts, hasText |-> TRUE, id |-> hand[u].id]
      \* its header is the message that t takes
      <4>1. s[r].part = "header" /\ s[r].hasText /\ s[r].tag = SendTag[u]
        BY <3>3, <3>6
      <4>2. t \in timedOut' \/ Awaits(t, p)'
        BY <1>1, <4>1
      <4>3. Matching(t, p)' = {j \in DOMAIN rest : Matches(t, rest[j].tag)}
        BY <1>6 DEF Matching, Matches
      <4>4. ASSUME NEW j \in DOMAIN rest, Matches(t, rest[j].tag) PROVE FALSE
        <5>1. j < r
          BY <1>1, <3>6
        <5>2. QED
          BY <1>2, <1>3, <4>4, <5>1
      <4>5. QED
        BY <1>1, <4>1, <4>2, <4>3, <4>4
    <3>7. QED
      BY <3>2, <3>4, <3>5, <3>6
  <2>4. QED
    BY <2>2, <2>3
<1>12. ASSUME NEW u \in Thread, NEW q \in Process, ~BodyDue(u, q)
       PROVE  BodyDueIsLed(u, q)'
  BY <1>7, <1>12 DEF BodyDueIsLed
<1>13. ASSUME NEW u \in Thread \ {t}
       PROVE  GetsItsBody(u)'
  <2>1. GetsItsBody(u) /\ UNCHANGED <<pc[u], hand[u]>> /\ Home[u] \in Process
    BY ThreadFacts
  <2>2. SUFFICES ASSUME pc[u] = "body" PROVE GetsItsBody(u)'
    BY <2>1 DEF GetsItsBody
  <2>3. hand[u].from \in Process
    BY <2>1, <2>2 DEF GetsItsBody
  <2>4. CASE <<hand[u].from, Home[u]>> # <<p, Home[t]>>
    <3>1. UNCHANGED net[<<hand[u].from, Home[u]>>]
      BY <1>5, <2>1, <2>3, <2>4
    <3>2. Matching(u, hand[u].from)' = Matching(u, hand[u].from) /\ First(u, hand[u].from)' = First(u, hand[u].from)
      BY <2>1, <3>1, OtherChannel DEF Matching, First, Matches
    <3>3. QED
      BY <1>7, <2>1, <2>2, <3>2 DEF GetsItsBody, Matches
  <2>5. CASE hand[u].from = p /\ Home[u] = Home[t]
    <3>1. /\ Matching(u, p)' = {} <=> Matching(u, p) = {}
          /\ Matching(u, p) # {} => First(u, p)' = First(u, p)
      BY <2>5, OtherReceiver
    <3>2. QED
      BY <1>7, <2>1, <2>2, <2>5, <3>1 DEF GetsItsBody, Matches
  <2>6. QED
    BY <2>4, <2>5
<1>14. QED
  BY <1>5, <1>6, <1>9, <1>10, <1>11, <1>12, <1>13 DEF InStep

-----------------------------------------------------------------------------
\* A thread that does not send, or whose send is where it was, is in turn.
LEMMA TurnKept ==
  ASSUME IndInv, NEW u \in Thread, UNCHANGED todo[u],
         pc'[u] = "sending" <=> pc[u] = "sending",
         communicationMutex'[Home[u]] = u <=> communicationMutex[Home[u]] = u,
         todo[u] # <<>> => UNCHANGED <<hand[u], Clock(u)>>
  PROVE  SendsInTurn(u)'
<1>1. SendsInTurn(u)
  BY ThreadFacts
<1>2. CASE todo[u] = <<>>
  <2>1. DOMAIN todo'[u] = {}
    BY <1>2
  <2>2. QED
    BY <1>1, <1>2, <2>1 DEF SendsInTurn
<1>3. CASE todo[u] # <<>>
  BY <1>1, <1>3 DEF SendsInTurn
<1>4. QED
  BY <1>2, <1>3

\* A step of t: what is left to show for the invariant, the other threads being
\* as they were.
LEMMA StepOf ==
  ASSUME IndInv, NEW t \in Thread, TypeOK', InStep', timedOut \subseteq timedOut',
         \A u \in Thread \ {t} : UNCHANGED <<pc[u], hand[u], todo[u]>> /\ GetsItsBody(u)',
         \A u \in Thread \ {t} : communicationMutex'[Home[u]] = u <=> communicationMutex[Home[u]] = u,
         \A u \in Thread \ {t} : todo[u] # <<>> => UNCHANGED Clock(u),
         SendsInTurn(t)', GetsItsBody(t)',
         hand'[t].astray => t \in timedOut',
         pc'[t] = "merge" => hand'[t].from \in Process /\ (~hand'[t].astray => IsWhole(t)')
  PROVE  IndInv'
<1>1. \A u \in Thread \ {t} : SendsInTurn(u)'
  BY TurnKept
<1>2. \A u \in Thread \ {t} : (pc[u] = "merge" => hand[u].from \in Process)'
  BY DEF IndInv
<1>3. \A u \in Thread \ {t} : (hand[u].astray => u \in timedOut)'
  BY DEF IndInv, AstrayOnlyAfterTimeout
<1>4. \A u \in Thread \ {t} : (pc[u] = "merge" /\ ~hand[u].astray => IsWhole(u))'
  BY DEF IndInv, IsWhole
<1>5. QED
  BY <1>1, <1>2, <1>3, <1>4, IndInvFrom

\* The receive of a header: the body, if there is one, is what comes next; and
\* a thread without a faulty timeout never finds a body.
LEMMA ReceiveHeaderStep ==
  ASSUME IndInv, NEW t \in Thread, NEW p \in Process, ReceiveHeader(t, p)
  PROVE  IndInv'
<1> DEFINE s == Queue(t, p)
           rest == Queue(t, p)'
           r == Place(t, p)
<1>1. PICK header \in HeadersIn(s[r]) :
        /\ Take(t, p) /\ pc[t] = "idle" /\ RecvTag[t] # NoTag
        /\ UNCHANGED <<currentLamportTime, communicationMutex, todo, sends, timedOut, wrapped>>
        /\ pc' = [pc EXCEPT ![t] = IF header.hasText THEN "body" ELSE "merge"]
        /\ hand' = [hand EXCEPT ![t] = [from |-> p, ts |-> header.ts, hasText |-> header.hasText,
                                        id |-> s[r].id, text |-> NoId, astray |-> s[r].part # "header"]]
  BY DEF ReceiveHeader, Listening, First, Queue, Place
<1>2. /\ s \in Seq(Message) /\ DOMAIN s = 1 .. Len(s) /\ Len(s) \in Nat
      /\ r \in DOMAIN s /\ s[r] \in Message /\ Matches(t, s[r].tag) /\ First(t, p) = s[r]
      /\ rest \in Seq(Message) /\ DOMAIN rest = 1 .. Len(rest) /\ Len(rest) = Len(s) - 1
      /\ net' \in [Process \X Process -> Seq(Message)]
  BY <1>1, TakeFacts, Zenon
<1>3. \A k \in DOMAIN s : k < r => ~Matches(t, s[k].tag)
  BY <1>1, TakeFacts, Zenon
<1>4. /\ \A i \in DOMAIN rest :
           /\ i < r => i \in DOMAIN s /\ rest[i] = s[i]
           /\ ~(i < r) => i + 1 \in DOMAIN s /\ rest[i] = s[i + 1]
      /\ \A k \in DOMAIN s :
           /\ k < r => k \in DOMAIN rest /\ rest[k] = s[k]
           /\ k > r => k - 1 \in DOMAIN rest /\ rest[k - 1] = s[k]
  BY <1>1, TakeFacts, Zenon
<1>5. /\ s = net[<<p, Home[t]>>] /\ rest = net'[<<p, Home[t]>>] /\ Home[t] \in Process
      /\ HeaderIsFollowed(<<p, Home[t]>>, r) /\ BodyIsLed(<<p, Home[t]>>, r)
  BY <1>2, ThreadFacts, ChannelFacts DEF Queue
<1> HIDE DEF s, rest, r
<1>h. /\ header.ts \in LamportTime /\ header.hasText \in BOOLEAN
      /\ s[r].part = "header" => header.ts = s[r].ts /\ header.hasText = s[r].hasText
  <2>1. CASE s[r].part = "header"
    <3>1. header = [ts |-> s[r].ts, hasText |-> s[r].hasText]
      BY <1>1, <2>1 DEF HeadersIn
    <3>2. QED
      BY <1>2, <3>1 DEF Message
  <2>2. CASE s[r].part # "header"
    <3>1. header \in [ts : Unwritten, hasText : BOOLEAN]
      BY <1>1, <2>2 DEF HeadersIn
    <3>2. QED
      BY <2>2, <3>1, TimeFacts
  <2>3. QED
    BY <2>1, <2>2
<1>6. TypeOK'
  <2>1. /\ pc' \in [Thread -> {"idle", "sending", "body", "merge"}]
        /\ hand' \in [Thread -> Packet]
    <3>1. [from |-> p, ts |-> header.ts, hasText |-> header.hasText, id |-> s[r].id,
           text |-> NoId, astray |-> s[r].part # "header"] \in Packet
      BY <1>2, <1>h DEF Packet, Message, Id, NoId
    <3>2. QED
      BY <1>1, <3>1, ThreadFacts DEF TypeOK
  <2>2. QED
    BY <1>1, <1>2, <2>1, ThreadFacts DEF TypeOK
<1>7. /\ pc'[t] = (IF header.hasText THEN "body" ELSE "merge")
      /\ hand'[t] = [from |-> p, ts |-> header.ts, hasText |-> header.hasText,
                     id |-> s[r].id, text |-> NoId, astray |-> s[r].part # "header"]
      /\ \A u \in Thread \ {t} : UNCHANGED <<pc[u], hand[u], todo[u]>>
  BY <1>1, ThreadFacts DEF TypeOK
<1>f. /\ hand'[t].from = p /\ hand'[t].ts = header.ts /\ hand'[t].id = s[r].id
      /\ hand'[t].hasText = header.hasText
      /\ hand'[t].astray <=> s[r].part # "header"
  <2>1. /\ hand'[t].from = p /\ hand'[t].ts = header.ts /\ hand'[t].id = s[r].id
        /\ hand'[t].hasText = header.hasText
    BY <1>7
  <2>2. \A b \in BOOLEAN : \A h : h = [from |-> p, ts |-> header.ts, hasText |-> header.hasText,
                                      id |-> s[r].id, text |-> NoId, astray |-> b] => h.astray = b
    OBVIOUS
  <2>3. (s[r].part # "header") \in BOOLEAN
    OBVIOUS
  <2>4. hand'[t].astray = (s[r].part # "header")
    BY <1>7, <2>2, <2>3, Zenon
  <2>5. QED
    BY <2>1, <2>4, Zenon
<1>b. /\ header.hasText <=> pc'[t] = "body"
      /\ s[r].part = "header" => (header.hasText <=> s[r].hasText)
  BY <1>7, <1>h
<1>8. InStep' /\ \A u \in Thread \ {t} : GetsItsBody(u)'
  <2>1. s[r].part = "header" /\ s[r].hasText => Awaits(t, p)'
    BY <1>f, <1>b DEF Awaits
  <2>2. QED
    BY <1>1, <1>2, <1>7, <2>1, TakeInStep
<1>9. SendsInTurn(t)'
  <2>1. todo[t] = <<>>
    BY <1>1, ThreadFacts DEF SendsInTurn
  <2>2. QED
    BY <1>1, <1>7, <2>1, TurnKept
<1>10. ASSUME s[r].part = "header", s[r].hasText
       PROVE  GetsItsBody(t)'
  <2>1. Matching(t, p)' = {j \in DOMAIN rest : Matches(t, rest[j].tag)} /\ First(t, p)' = rest[Min(Matching(t, p)')]
    BY <1>5 DEF Matching, First, Matches
  <2>2. Matching(t, p)' \in SUBSET Nat /\ r \in Nat
    BY <1>2, <2>1
  <2>3. \A j \in Matching(t, p)' : r <= j
    <3>1. ASSUME NEW j \in DOMAIN rest, Matches(t, rest[j].tag), j < r PROVE FALSE
      BY <1>3, <1>4, <3>1
    <3>2. QED
      BY <2>1, <2>2, <3>1
  <2>4. SUFFICES \/ Matching(t, p)' # {} /\ First(t, p)'.part = "body" /\ First(t, p)'.id = s[r].id
                 \/ /\ Matching(t, p)' = {}
                    /\ \E u \in Thread : /\ Home[u] = p /\ BodyDue(u, Home[t])'
                                         /\ Matches(t, SendTag[u]) /\ hand'[u].id = s[r].id
    BY <1>1, <1>7, <1>h, <1>10 DEF GetsItsBody, Matches
  <2>5. \/ r + 1 \in DOMAIN s /\ IsBodyOf(s[r + 1], s[r])
        \/ /\ r = Len(s)
           /\ \E u \in Thread : /\ Home[u] = p /\ BodyDue(u, Home[t])
                                /\ SendTag[u] = s[r].tag /\ hand[u].id = s[r].id
    BY <1>5, <1>10 DEF HeaderIsFollowed
  <2>6. CASE r + 1 \in DOMAIN s /\ IsBodyOf(s[r + 1], s[r])
    <3>1. r \in DOMAIN rest /\ rest[r] = s[r + 1]
      <4>1. (r + 1) - 1 = r /\ r + 1 > r
        BY <2>2
      <4>2. QED
        BY <1>4, <2>6, <4>1
    <3>2. rest[r].tag = s[r].tag /\ rest[r].part = "body" /\ rest[r].id = s[r].id
      BY <1>2, <2>6, <3>1 DEF IsBodyOf, Message
    <3>3. r \in Matching(t, p)'
      BY <1>2, <2>1, <3>1, <3>2
    <3>4. Min(Matching(t, p)') = r
      BY <2>2, <2>3, <3>3, MinIs, Zenon
    <3>5. QED
      BY <2>1, <3>2, <3>3, <3>4
  <2>7. CASE /\ r = Len(s)
             /\ \E u \in Thread : /\ Home[u] = p /\ BodyDue(u, Home[t])
                                  /\ SendTag[u] = s[r].tag /\ hand[u].id = s[r].id
    <3>1. PICK u \in Thread : /\ Home[u] = p /\ BodyDue(u, Home[t])
                              /\ SendTag[u] = s[r].tag /\ hand[u].id = s[r].id
      BY <2>7
    <3>2. u # t
      BY <1>1, <3>1, ThreadFacts DEF BodyDue, SendsInTurn
    <3>3. BodyDue(u, Home[t])' /\ hand'[u].id = s[r].id
      BY <1>1, <1>7, <3>1, <3>2 DEF BodyDue
    <3>4. Matching(t, p)' = {}
      BY <1>2, <2>1, <2>2, <2>3, <2>7
    <3>5. QED
      BY <1>2, <3>1, <3>3, <3>4
  <2>8. QED
    BY <2>5, <2>6, <2>7
<1>11. ASSUME s[r].part # "header"
       PROVE  t \in timedOut
  <2>1. s[r].part = "body"
    BY <1>2, <1>11 DEF Message
  <2>2. \/ r - 1 \in DOMAIN s /\ IsBodyOf(s[r], s[r - 1])
        \/ \E v \in Thread : /\ Home[v] = Home[t] /\ Matches(v, s[r].tag)
                             /\ v \in timedOut \/ Awaits(v, p)
    BY <1>5, <2>1 DEF BodyIsLed
  <2>3. CASE r - 1 \in DOMAIN s /\ IsBodyOf(s[r], s[r - 1])
    <3>1. s[r - 1] \in Message /\ r - 1 < r
      BY <1>2, <2>3
    <3>2. s[r - 1].tag = s[r].tag
      BY <1>2, <2>3, <3>1 DEF IsBodyOf, Message
    <3>3. QED
      BY <1>2, <1>3, <2>3, <3>1, <3>2
  <2>4. CASE \E v \in Thread : /\ Home[v] = Home[t] /\ Matches(v, s[r].tag)
                               /\ v \in timedOut \/ Awaits(v, p)
    <3>1. PICK v \in Thread : /\ Home[v] = Home[t] /\ Matches(v, s[r].tag)
                              /\ v \in timedOut \/ Awaits(v, p)
      BY <2>4
    <3>2. s[r].tag \in Tag
      BY <1>2 DEF Message
    <3>3. v = t
      BY <1>2, <3>1, <3>2, OneReceiver
    <3>4. QED
      BY <1>1, <3>1, <3>3 DEF Awaits
  <2>5. QED
    BY <2>2, <2>3, <2>4
<1>12. GetsItsBody(t)' /\ (hand'[t].astray => t \in timedOut')
  <2>1. CASE s[r].part = "header"
    <3>1. ~hand'[t].astray /\ (pc'[t] = "body" => s[r].hasText)
      BY <1>f, <1>b, <2>1
    <3>2. pc'[t] # "body" => GetsItsBody(t)'
      BY DEF GetsItsBody
    <3>3. QED
      BY <1>10, <2>1, <3>1, <3>2
  <2>2. CASE s[r].part # "header"
    <3>1. hand'[t].astray /\ hand'[t].from = p /\ (pc'[t] = "body" => hand'[t].hasText)
      BY <1>f, <1>b, <2>2
    <3>2. GetsItsBody(t)'
      BY <1>1, <3>1 DEF GetsItsBody
    <3>3. QED
      BY <1>1, <1>11, <2>2, <3>2
  <2>3. QED
    BY <2>1, <2>2
<1>13. pc'[t] = "merge" => hand'[t].from \in Process /\ (~hand'[t].astray => IsWhole(t)')
  BY <1>7, <1>h DEF IsWhole
<1>14. QED
  BY <1>1, <1>6, <1>7, <1>8, <1>9, <1>12, <1>13, StepOf DEF Clock

\* The receive of a body: it gets the body of the header in hand, or t is astray.
LEMMA ReceiveBodyStep ==
  ASSUME IndInv, NEW t \in Thread, ReceiveBody(t)
  PROVE  IndInv'
<1>1. PICK p \in Process :
        /\ p = hand[t].from /\ pc[t] = "body" /\ Take(t, p)
        /\ pc' = [pc EXCEPT ![t] = "merge"]
        /\ hand' = [hand EXCEPT ![t].text = First(t, p).id, ![t].from = p,
                                ![t].astray = @ \/ First(t, p).part # "body"]
        /\ UNCHANGED <<currentLamportTime, communicationMutex, todo, sends, timedOut, wrapped>>
  BY ThreadFacts DEF ReceiveBody, BodySource
<1>2. /\ hand[t].hasText
      /\ hand[t].astray \/ (First(t, p).part = "body" /\ First(t, p).id = hand[t].id)
  BY <1>1, ThreadFacts DEF GetsItsBody, Take
<1>3. hand[t] \in Packet /\ First(t, p) \in Message /\ (hand[t].astray => t \in timedOut)
  BY <1>1, TakeFacts, ThreadFacts
<1>4. /\ pc'[t] = "merge"
      /\ hand'[t] = [hand[t] EXCEPT !.text = First(t, p).id]
      /\ \A u \in Thread \ {t} : UNCHANGED <<pc[u], hand[u], todo[u]>>
  <2>1. pc'[t] = "merge" /\ \A u \in Thread \ {t} : UNCHANGED <<pc[u], hand[u], todo[u]>>
    BY <1>1, ThreadFacts DEF TypeOK
  <2>2. hand'[t] = [hand[t] EXCEPT !.text = First(t, p).id, !.from = p,
                                   !.astray = @ \/ First(t, p).part # "body"]
    BY <1>1, ThreadFacts DEF TypeOK
  <2>3. (hand[t].astray \/ First(t, p).part # "body") = hand[t].astray
    BY <1>2, <1>3 DEF Packet
  <2>4. hand'[t] = [from |-> p, ts |-> hand[t].ts, hasText |-> hand[t].hasText,
                    id |-> hand[t].id, text |-> First(t, p).id, astray |-> hand[t].astray]
    BY <1>3, <2>2, <2>3 DEF Packet
  <2>5. [hand[t] EXCEPT !.text = First(t, p).id]
          = [from |-> p, ts |-> hand[t].ts, hasText |-> hand[t].hasText,
             id |-> hand[t].id, text |-> First(t, p).id, astray |-> hand[t].astray]
    BY <1>1, <1>3 DEF Packet
  <2>6. QED
    BY <2>1, <2>4, <2>5
<1>5. TypeOK'
  <2>1. net' \in [Process \X Process -> Seq(Message)]
    BY <1>1, TakeFacts, Zenon
  <2>2. \A u \in Thread : hand'[u] \in Packet
    <3>1. hand'[t] \in Packet
      BY <1>3, <1>4 DEF Packet, Message
    <3>2. \A u \in Thread \ {t} : hand'[u] \in Packet
      BY <1>4, ThreadFacts
    <3>3. QED
      BY <3>1, <3>2
  <2>3. hand' \in [Thread -> Packet]
    <3>1. DOMAIN hand' = Thread /\ hand' = [u \in Thread |-> hand'[u]]
      BY <1>1, ThreadFacts DEF TypeOK
    <3>2. QED
      BY <2>2, <3>1
  <2>4. QED
    BY <1>1, <2>1, <2>3, ThreadFacts DEF TypeOK
<1>6. InStep' /\ \A u \in Thread \ {t} : GetsItsBody(u)'
  <2>1. First(t, p).part = "header" => t \in timedOut'
    BY <1>1, <1>2, <1>3
  <2>2. QED
    BY <1>1, <1>4, <2>1, TakeInStep
<1>7. SendsInTurn(t)'
  <2>1. todo[t] = <<>>
    BY <1>1, ThreadFacts DEF SendsInTurn
  <2>2. QED
    BY <1>1, <1>4, <2>1, TurnKept
<1>8. GetsItsBody(t)'
  BY <1>4 DEF GetsItsBody
<1>9. /\ hand'[t].from \in Process /\ (hand'[t].astray => t \in timedOut')
      /\ ~hand'[t].astray => IsWhole(t)'
  BY <1>1, <1>2, <1>3, <1>4 DEF Packet, IsWhole
<1>10. QED
  BY <1>1, <1>4, <1>5, <1>6, <1>7, <1>8, <1>9, StepOf DEF Clock

\* A thread that leaves a send or a receive has nothing in hand.
LEMMA ReturnFacts ==
  ASSUME IndInv, NEW t \in Thread, Return(t)
  PROVE  /\ pc' \in [Thread -> {"idle", "sending", "body", "merge"}]
         /\ hand' \in [Thread -> Packet]
         /\ pc'[t] = "idle" /\ hand'[t] = NoPacket /\ UNCHANGED <<todo, sends>>
         /\ \A u \in Thread \ {t} : UNCHANGED <<pc[u], hand[u], todo[u]>>
         /\ GetsItsBody(t)'
<1>1. NoPacket \in Packet
  BY TimeFacts DEF NoPacket, NoId, Packet, Id
<1>2. QED
  BY <1>1, ThreadFacts DEF Return, TypeOK, GetsItsBody

\* A receive times out, its message lost.
LEMMA TimeoutTakes ==
  ASSUME IndInv, NEW t \in Thread, NEW p \in Process, Take(t, p), Return(t),
         pc[t] = "idle" \/ (pc[t] = "body" /\ hand[t].from = p),
         timedOut' = timedOut \cup {t}, UNCHANGED <<currentLamportTime, communicationMutex, wrapped>>
  PROVE  IndInv'
<1>1. net' \in [Process \X Process -> Seq(Message)]
  BY TakeFacts, Zenon
<1>2. TypeOK'
  BY <1>1, ThreadFacts, ReturnFacts DEF TypeOK
<1>3. InStep' /\ \A u \in Thread \ {t} : GetsItsBody(u)'
  BY ReturnFacts, TakeInStep
<1>4. SendsInTurn(t)'
  <2>1. todo[t] = <<>>
    BY ThreadFacts DEF SendsInTurn
  <2>2. QED
    BY ReturnFacts, <2>1, TurnKept
<1>5. QED
  BY <1>2, <1>3, <1>4, ReturnFacts, StepOf DEF Clock, NoPacket

\* The receive of a header, cancelled too late.
LEMMA HeaderTimeoutStep ==
  ASSUME IndInv, NEW t \in Thread, NEW p \in Process, HeaderTimeout(t, p)
  PROVE  IndInv'
BY TimeoutTakes DEF HeaderTimeout, Listening

\* A step of t that touches no channel, and has it wait for nothing.
LEMMA QuietStep ==
  ASSUME IndInv, NEW t \in Thread, UNCHANGED net, Return(t), pc[t] # "idle",
         pc[t] = "sending" => todo[t] = <<>>,
         currentLamportTime' \in [Process -> LamportTime],
         communicationMutex' \in [Process -> Thread \cup {NoThread}], wrapped' \subseteq Process,
         timedOut \subseteq timedOut', timedOut' \subseteq Thread, pc[t] = "body" => t \in timedOut',
         communicationMutex'[Home[t]] # t,
         \A u \in Thread \ {t} : communicationMutex'[Home[u]] = u <=> communicationMutex[Home[u]] = u,
         \A u \in Thread \ {t} : todo[u] # <<>> => UNCHANGED Clock(u)
  PROVE  IndInv'
<1>1. todo[t] = <<>> /\ todo'[t] = <<>> /\ DOMAIN todo'[t] = {}
  BY ThreadFacts, ReturnFacts DEF SendsInTurn
<1>2. TypeOK'
  <2>1. TypeOK
    BY ThreadFacts
  <2>2. /\ pc' \in [Thread -> {"idle", "sending", "body", "merge"}]
        /\ hand' \in [Thread -> Packet]
        /\ UNCHANGED <<todo, sends>>
    BY ReturnFacts, Zenon
  <2>3. QED
    BY <2>1, <2>2 DEF TypeOK
<1>3. InStep' /\ \A u \in Thread \ {t} : GetsItsBody(u)'
  BY <1>1, ReturnFacts, QuietFrame DEF BodyDue
<1>4. SendsInTurn(t)'
  BY <1>1, ReturnFacts DEF SendsInTurn
<1>5. QED
  BY <1>2, <1>3, <1>4, ReturnFacts, StepOf DEF NoPacket

\* The receive of a body times out: the body is left behind, or lost.
LEMMA BodyTimeoutStep ==
  ASSUME IndInv, NEW t \in Thread, BodyTimeout(t)
  PROVE  IndInv'
<1>1. /\ pc[t] = "body" /\ Return(t) /\ timedOut' = timedOut \cup {t}
      /\ UNCHANGED <<currentLamportTime, communicationMutex, wrapped>>
  BY DEF BodyTimeout
<1>2. TypeOK /\ communicationMutex[Home[t]] # t /\ hand[t].from \in Process
  BY <1>1, ThreadFacts DEF SendsInTurn
<1>3. CASE Take(t, hand[t].from)
  BY <1>1, <1>2, <1>3, TimeoutTakes
<1>4. CASE UNCHANGED net
  BY <1>1, <1>2, <1>4, QuietStep DEF TypeOK, Clock
<1>5. QED
  BY <1>3, <1>4 DEF BodyTimeout

\* The receive ends; nobody sends meanwhile from this process.
LEMMA MergeClockStep ==
  ASSUME IndInv, NEW t \in Thread, MergeClock(t)
  PROVE  IndInv'
<1>1. /\ pc[t] = "merge" /\ communicationMutex[Home[t]] = NoThread /\ Return(t)
      /\ currentLamportTime' = [currentLamportTime EXCEPT ![Home[t]] = Merged(hand[t].ts, Clock(t))]
      /\ wrapped' \subseteq wrapped \cup {Home[t]}
      /\ UNCHANGED <<communicationMutex, net, timedOut>>
  BY DEF MergeClock, SetClock, Free
<1>2. /\ TypeOK /\ Home[t] \in Process /\ t # NoThread
      /\ hand[t].ts \in LamportTime /\ Clock(t) \in LamportTime
  BY ThreadFacts DEF Packet
<1>3. Merged(hand[t].ts, Clock(t)) \in LamportTime
  BY <1>2, MergedFacts
<1>4. currentLamportTime' \in [Process -> LamportTime] /\ wrapped' \subseteq Process
  BY <1>1, <1>2, <1>3 DEF TypeOK
<1>5. ASSUME NEW u \in Thread, todo[u] # <<>> PROVE UNCHANGED Clock(u)
  <2>1. communicationMutex[Home[u]] = u /\ u # NoThread /\ Home[u] \in Process
    BY <1>5, ThreadFacts DEF SendsInTurn
  <2>2. Home[u] # Home[t]
    BY <1>1, <2>1
  <2>3. QED
    BY <1>1, <1>2, <2>1, <2>2 DEF Clock, TypeOK
<1>6. QED
  BY <1>1, <1>2, <1>4, <1>5, QuietStep DEF TypeOK

\* A send ends.
LEMMA EndSendStep ==
  ASSUME IndInv, NEW t \in Thread, EndSend(t)
  PROVE  IndInv'
<1>1. /\ pc[t] = "sending" /\ todo[t] = <<>> /\ Return(t)
      /\ communicationMutex' = [communicationMutex EXCEPT ![Home[t]] = NoThread]
      /\ UNCHANGED <<currentLamportTime, net, timedOut, wrapped>>
  BY DEF EndSend
<1>2. TypeOK /\ Home[t] \in Process /\ t # NoThread /\ communicationMutex[Home[t]] = t
  BY <1>1, ThreadFacts DEF SendsInTurn
<1>3. /\ communicationMutex' \in [Process -> Thread \cup {NoThread}]
      /\ communicationMutex'[Home[t]] = NoThread
      /\ \A p \in Process \ {Home[t]} : communicationMutex'[p] = communicationMutex[p]
  BY <1>1, <1>2 DEF TypeOK
<1>4. ASSUME NEW u \in Thread \ {t}
      PROVE  communicationMutex'[Home[u]] = u <=> communicationMutex[Home[u]] = u
  BY <1>2, <1>3, ThreadFacts
<1>5. QED
  BY <1>1, <1>2, <1>3, <1>4, QuietStep DEF TypeOK, Clock

-----------------------------------------------------------------------------
\* What there is to send of a packet: headers and bodies in turn, or headers only.
LEMMA FramesFacts ==
  ASSUME NEW order \in Seq(Process), order # <<>>, NEW hasText \in BOOLEAN
  PROVE  LET f == Frames(order, hasText) IN
         /\ f \in Seq(Process \X {"header", "body"}) /\ DOMAIN f = 1 .. Len(f) /\ Len(f) \in Nat
         /\ f # <<>> /\ Head(f) = <<order[1], "header">>
         /\ \A i \in DOMAIN f :
              /\ f[i][2] = "header" => \E j \in DOMAIN order : /\ f[i] = <<order[j], "header">>
                                                               /\ hasText => i = 2 * j - 1
                                                               /\ ~hasText => i = j
              /\ f[i][2] = "body" => \E j \in DOMAIN order : f[i] = <<order[j], "body">> /\ hasText /\ i = 2 * j
         /\ \A j \in DOMAIN order :
              /\ hasText => /\ 2 * j - 1 \in DOMAIN f /\ f[2 * j - 1] = <<order[j], "header">>
                            /\ 2 * j \in DOMAIN f /\ f[2 * j] = <<order[j], "body">>
              /\ ~hasText => j \in DOMAIN f /\ f[j] = <<order[j], "header">>
<1> DEFINE n == Len(order)
           f == Frames(order, hasText)
<1>1. n \in Nat \ {0} /\ DOMAIN order = 1 .. n /\ \A j \in 1 .. n : order[j] \in Process
  BY EmptySeq
<1> HIDE DEF n, f
<1>2. CASE hasText
  <2>1. f = [i \in 1 .. 2 * n |-> <<order[(i + 1) \div 2], IF i % 2 = 1 THEN "header" ELSE "body">>]
    BY <1>2 DEF Frames, n, f
  <2>2. ASSUME NEW j \in 1 .. n
        PROVE  /\ 2 * j - 1 \in 1 .. 2 * n /\ ((2 * j - 1) + 1) \div 2 = j /\ (2 * j - 1) % 2 = 1
               /\ 2 * j \in 1 .. 2 * n /\ (2 * j + 1) \div 2 = j /\ (2 * j) % 2 = 0
    BY <1>1
  <2>3. ASSUME NEW j \in 1 .. n
        PROVE  f[2 * j - 1] = <<order[j], "header">> /\ f[2 * j] = <<order[j], "body">>
    <3>1. \A i \in 1 .. 2 * n : f[i] = <<order[(i + 1) \div 2], IF i % 2 = 1 THEN "header" ELSE "body">>
      BY <2>1
    <3>2. /\ f[2 * j - 1] = <<order[((2 * j - 1) + 1) \div 2], IF (2 * j - 1) % 2 = 1 THEN "header" ELSE "body">>
          /\ f[2 * j] = <<order[(2 * j + 1) \div 2], IF (2 * j) % 2 = 1 THEN "header" ELSE "body">>
      BY <2>2, <3>1, Zenon
    <3>3. /\ (IF (2 * j - 1) % 2 = 1 THEN "header" ELSE "body") = "header"
          /\ (IF (2 * j) % 2 = 1 THEN "header" ELSE "body") = "body"
      BY <2>2
    <3>4. QED
      BY <2>2, <3>2, <3>3, Zenon
  <2>4. ASSUME NEW i \in 1 .. 2 * n PROVE \E j \in 1 .. n : i = 2 * j - 1 \/ i = 2 * j
    <3>1. (i + 1) \div 2 \in 1 .. n /\ (i = 2 * ((i + 1) \div 2) - 1 \/ i = 2 * ((i + 1) \div 2))
      BY <1>1
    <3>2. QED
      BY <3>1
  <2>5. ASSUME NEW i \in 1 .. 2 * n
        PROVE  \/ \E j \in 1 .. n : f[i] = <<order[j], "header">> /\ i = 2 * j - 1
               \/ \E j \in 1 .. n : f[i] = <<order[j], "body">> /\ i = 2 * j
    BY <2>3, <2>4
  <2>6. f \in Seq(Process \X {"header", "body"}) /\ Len(f) = 2 * n /\ DOMAIN f = 1 .. 2 * n
    <3>1. DOMAIN f = 1 .. 2 * n /\ 2 * n \in Nat
      BY <1>1, <2>1
    <3>2. \A i \in 1 .. 2 * n : f[i] \in Process \X {"header", "body"}
      <4>1. ASSUME NEW i \in 1 .. 2 * n PROVE f[i] \in Process \X {"header", "body"}
        <5>1. PICK j \in 1 .. n : f[i] = <<order[j], "header">> \/ f[i] = <<order[j], "body">>
          BY <2>5
        <5>2. order[j] \in Process
          BY <1>1
        <5>3. <<order[j], "header">> \in Process \X {"header", "body"} /\ <<order[j], "body">> \in Process \X {"header", "body"}
          BY <5>2
        <5>4. QED
          BY <5>1, <5>3, Zenon
      <4>2. QED
        BY <4>1
    <3>3. f \in [1 .. 2 * n -> Process \X {"header", "body"}]
      BY <2>1, <3>1, <3>2
    <3>4. QED
      BY <3>1, <3>3
  <2>7. f # <<>> /\ Head(f) = <<order[1], "header">>
    <3>1. f[1] = <<order[1], "header">> /\ 1 \in DOMAIN f
      <4>1. 1 \in 1 .. n /\ 2 * 1 - 1 = 1
        BY <1>1
      <4>2. QED
        BY <2>2, <2>3, <2>6, <4>1
    <3>2. QED
      BY <2>6, <3>1
  <2>8. QED
    <3>1. ASSUME NEW i \in DOMAIN f
          PROVE  /\ f[i][2] = "header" => \E j \in DOMAIN order : f[i] = <<order[j], "header">> /\ i = 2 * j - 1
                 /\ f[i][2] = "body" => \E j \in DOMAIN order : f[i] = <<order[j], "body">> /\ i = 2 * j
      <4>1. CASE \E j \in 1 .. n : f[i] = <<order[j], "header">> /\ i = 2 * j - 1
        <5>1. f[i][2] = "header"
          BY <4>1
        <5>2. QED
          BY <1>1, <4>1, <5>1
      <4>2. CASE \E j \in 1 .. n : f[i] = <<order[j], "body">> /\ i = 2 * j
        <5>1. f[i][2] = "body"
          BY <4>2
        <5>2. QED
          BY <1>1, <4>2, <5>1
      <4>3. QED
        BY <2>5, <2>6, <4>1, <4>2
    <3>2. ASSUME NEW j \in DOMAIN order
          PROVE  /\ 2 * j - 1 \in DOMAIN f /\ f[2 * j - 1] = <<order[j], "header">>
                 /\ 2 * j \in DOMAIN f /\ f[2 * j] = <<order[j], "body">>
      BY <1>1, <2>2, <2>3, <2>6
    <3>3. f \in Seq(Process \X {"header", "body"}) /\ DOMAIN f = 1 .. Len(f) /\ Len(f) \in Nat
      BY <1>1, <2>6
    <3>4. QED
      BY <1>2, <2>7, <3>1, <3>2, <3>3, Zenon DEF f
<1>3. CASE ~hasText
  <2>1. f = [i \in 1 .. n |-> <<order[i], "header">>]
    BY <1>1, <1>3 DEF Frames, f
  <2>2. f \in Seq(Process \X {"header", "body"}) /\ Len(f) = n /\ DOMAIN f = 1 .. n
    BY <1>1, <2>1
  <2>3. f # <<>> /\ Head(f) = <<order[1], "header">>
    BY <1>1, <2>1, <2>2
  <2>4. QED
    BY <1>1, <1>3, <2>1, <2>2, <2>3 DEF f
<1>4. QED
  BY <1>2, <1>3

\* The recipients of a packet are other processes, each once.
LEMMA OrdersFacts ==
  ASSUME NEW t \in Thread, NEW order \in Orders(t)
  PROVE  /\ order \in Seq(Process) /\ order # <<>> /\ DOMAIN order = 1 .. Len(order) /\ Len(order) \in Nat
         /\ \A j \in DOMAIN order : order[j] \in Process \ {Home[t]}
         /\ \A i, j \in DOMAIN order : order[i] = order[j] => i = j
<1>1. PICK n \in 1 .. 2 : order \in [1 .. n -> Process \ {Home[t]}]
  BY DEF Orders
<1>2. order \in Seq(Process) /\ Len(order) = n /\ DOMAIN order = 1 .. n
  BY <1>1
<1>3. \A i, j \in DOMAIN order : order[i] = order[j] => i = j
  BY DEF Orders
<1>4. order # <<>>
  BY <1>2
<1>5. QED
  BY <1>1, <1>2, <1>3, <1>4

\* So every header that announces a body is followed by it, and no body comes alone.
LEMMA FramesInTurn ==
  ASSUME NEW order \in Seq(Process), order # <<>>, NEW hasText \in BOOLEAN,
         NEW i \in DOMAIN Frames(order, hasText)
  PROVE  LET f == Frames(order, hasText) IN
         IF f[i][2] = "header" THEN hasText => i + 1 \in DOMAIN f /\ f[i + 1] = <<f[i][1], "body">>
                               ELSE hasText /\ (i > 1 => f[i - 1] = <<f[i][1], "header">>)
<1> DEFINE f == Frames(order, hasText)
<1>1. f \in Seq(Process \X {"header", "body"})
  BY FramesFacts, Zenon
<1>2. /\ f[i][2] = "header" => \E j \in DOMAIN order : /\ f[i] = <<order[j], "header">>
                                                       /\ hasText => i = 2 * j - 1
      /\ f[i][2] = "body" => \E j \in DOMAIN order : f[i] = <<order[j], "body">> /\ hasText /\ i = 2 * j
  <2>1. f[i][2] = "header" => \E j \in DOMAIN order : f[i] = <<order[j], "header">> /\ (hasText => i = 2 * j - 1)
    BY FramesFacts, Zenon
  <2>2. f[i][2] = "body" => \E j \in DOMAIN order : f[i] = <<order[j], "body">> /\ hasText /\ i = 2 * j
    BY FramesFacts, Zenon
  <2>3. QED
    BY <2>1, <2>2
<1>3. ASSUME hasText, NEW j \in DOMAIN order
      PROVE  /\ 2 * j - 1 \in DOMAIN f /\ f[2 * j - 1] = <<order[j], "header">>
             /\ 2 * j \in DOMAIN f /\ f[2 * j] = <<order[j], "body">>
  BY <1>3, FramesFacts, Zenon
<1> SUFFICES IF f[i][2] = "header" THEN hasText => i + 1 \in DOMAIN f /\ f[i + 1] = <<f[i][1], "body">>
                                   ELSE hasText /\ (i > 1 => f[i - 1] = <<f[i][1], "header">>)
  OBVIOUS
<1>e. i \in DOMAIN f
  OBVIOUS
<1> HIDE DEF f
<1>4. f[i][2] = "header" \/ f[i][2] = "body"
  BY <1>1, <1>e
<1>5. CASE f[i][2] = "header"
  <2>1. SUFFICES ASSUME hasText PROVE i + 1 \in DOMAIN f /\ f[i + 1] = <<f[i][1], "body">>
    BY <1>5
  <2>2. PICK j \in DOMAIN order : f[i] = <<order[j], "header">> /\ i = 2 * j - 1
    BY <1>2, <1>5, <2>1
  <2>3. i + 1 = 2 * j /\ f[i][1] = order[j]
    BY <2>2
  <2>4. QED
    BY <1>3, <2>1, <2>3
<1>6. CASE f[i][2] = "body"
  <2>1. PICK j \in DOMAIN order : f[i] = <<order[j], "body">> /\ hasText /\ i = 2 * j
    BY <1>2, <1>6
  <2>2. i - 1 = 2 * j - 1
    BY <2>1
  <2>3. f[i][1] = order[j]
    BY <2>1
  <2>4. QED
    BY <1>3, <1>6, <2>1, <2>2, <2>3
<1>7. QED
  BY <1>4, <1>5, <1>6

\* A send begins: its first message is a header, and the lock is t's.
LEMMA BeginSendStep ==
  ASSUME IndInv, NEW t \in Thread, NEW order \in Orders(t), NEW hasText \in BOOLEAN,
         BeginSend(t, order, hasText)
  PROVE  IndInv'
<1> DEFINE f == Frames(order, hasText)
<1>1. /\ SendTag[t] # NoTag /\ sends[t] < MAX_SENDS[t] /\ pc[t] = "idle"
      /\ communicationMutex[Home[t]] = NoThread
      /\ currentLamportTime' = [currentLamportTime EXCEPT ![Home[t]] = After(Clock(t))]
      /\ wrapped' \subseteq wrapped \cup {Home[t]}
      /\ hand' = [hand EXCEPT ![t] = Stamped(t, hasText)]
      /\ todo' = [todo EXCEPT ![t] = f]
      /\ sends' = [sends EXCEPT ![t] = @ + 1]
      /\ pc' = [pc EXCEPT ![t] = "sending"]
      /\ communicationMutex' = [communicationMutex EXCEPT ![Home[t]] = t]
      /\ UNCHANGED <<net, timedOut>>
  BY DEF BeginSend, StampSend, SetClock, Sendable, Free
<1>2. order \in Seq(Process) /\ order # <<>>
  BY OrdersFacts
<1>3. f \in Seq(Process \X {"header", "body"}) /\ f # <<>> /\ Head(f) = <<order[1], "header">>
  <2>1. f \in Seq(Process \X {"header", "body"})
    BY <1>2, FramesFacts, Zenon
  <2>2. f # <<>>
    BY <1>2, FramesFacts, Zenon
  <2>3. Head(f) = <<order[1], "header">>
    BY <1>2, FramesFacts, Zenon
  <2>4. QED
    BY <2>1, <2>2, <2>3
<1>4. \A i \in DOMAIN f :
        IF f[i][2] = "header" THEN hasText => i + 1 \in DOMAIN f /\ f[i + 1] = <<f[i][1], "body">>
                              ELSE hasText /\ (i > 1 => f[i - 1] = <<f[i][1], "header">>)
  BY <1>2, FramesInTurn, Zenon
<1> HIDE DEF f
<1>5. /\ TypeOK /\ Home[t] \in Process /\ After(Clock(t)) \in LamportTime /\ t # NoThread
      /\ todo[t] = <<>> /\ SendTag[t] \in Tag
  <2>1. TypeOK /\ Home[t] \in Process /\ After(Clock(t)) \in LamportTime /\ t # NoThread /\ todo[t] = <<>>
    BY <1>1, ThreadFacts, TimeFacts DEF SendsInTurn
  <2>2. SendTag[t] \in Tag
    BY <1>1, SimpleAssumption
  <2>3. QED
    BY <2>1, <2>2
<1>6. /\ pc'[t] = "sending" /\ todo'[t] = f /\ communicationMutex'[Home[t]] = t
      /\ hand'[t] = Stamped(t, hasText)
      /\ currentLamportTime'[Home[t]] = After(Clock(t))
      /\ \A u \in Thread \ {t} : UNCHANGED <<pc[u], hand[u], todo[u]>>
      /\ \A p \in Process \ {Home[t]} : UNCHANGED <<communicationMutex[p], currentLamportTime[p]>>
  BY <1>1, <1>5 DEF TypeOK, Clock
<1>7. TypeOK'
  <2>1. /\ pc' \in [Thread -> {"idle", "sending", "body", "merge"}]
        /\ hand' \in [Thread -> Packet]
    <3>1. Stamped(t, hasText) \in Packet
      BY <1>5, TimeFacts DEF Stamped, Packet, Id, NoId, TypeOK
    <3>2. QED
      BY <1>1, <1>5, <3>1 DEF TypeOK
  <2>2. /\ communicationMutex' \in [Process -> Thread \cup {NoThread}]
        /\ currentLamportTime' \in [Process -> LamportTime] /\ wrapped' \subseteq Process
    BY <1>1, <1>5 DEF TypeOK
  <2>3. todo' \in [Thread -> Seq(Process \X {"header", "body"})]
    BY <1>1, <1>3, <1>5 DEF TypeOK
  <2>4. sends' \in [Thread -> Nat] /\ \A u \in Thread : sends'[u] <= MAX_SENDS[u]
    <3>1. \A u \in Thread : sends[u] \in Nat /\ sends[u] <= MAX_SENDS[u] /\ MAX_SENDS[u] \in Nat
      BY <1>5, SimpleAssumption DEF TypeOK
    <3>2. DOMAIN sends = Thread /\ sends[t] + 1 \in Nat /\ sends[t] + 1 <= MAX_SENDS[t]
      BY <1>1, <1>5, <3>1 DEF TypeOK
    <3>3. QED
      BY <1>1, <1>5, <3>1, <3>2 DEF TypeOK
  <2>5. QED
    BY <1>1, <1>5, <2>1, <2>2, <2>3, <2>4 DEF TypeOK
<1>8. InStep' /\ \A u \in Thread \ {t} : GetsItsBody(u)'
  <2>1. \A q \in Process : ~BodyDue(t, q) /\ ~BodyDue(t, q)'
    BY <1>3, <1>5, <1>6 DEF BodyDue
  <2>2. QED
    BY <1>1, <1>6, <2>1, QuietFrame
<1>9. SendsInTurn(t)'
  BY <1>4, <1>5, <1>6 DEF SendsInTurn, Clock, Stamped
<1>10. GetsItsBody(t)' /\ ~hand'[t].astray
  BY <1>6 DEF GetsItsBody, Stamped
<1>11. \A u \in Thread \ {t} : communicationMutex'[Home[u]] = u <=> communicationMutex[Home[u]] = u
  BY <1>1, <1>5, <1>6, ThreadFacts
<1>12. ASSUME NEW u \in Thread \ {t}, todo[u] # <<>> PROVE UNCHANGED Clock(u)
  <2>1. communicationMutex[Home[u]] = u /\ u # NoThread /\ Home[u] \in Process
    BY <1>12, ThreadFacts DEF SendsInTurn
  <2>2. QED
    BY <1>1, <1>6, <2>1 DEF Clock
<1>13. QED
  BY <1>1, <1>6, <1>7, <1>8, <1>9, <1>10, <1>11, <1>12, StepOf

\* The recipient of the message that a send of t makes next, and its part.
To(t) == Head(todo[t])[1]
Part(t) == Head(todo[t])[2]

\* One MPI_Send puts a message behind the others of its channel; nobody else of
\* the process is sending.
LEMMA SendFacts ==
  ASSUME IndInv, NEW t \in Thread, SendNext(t)
  PROVE  LET s == net[<<Home[t], To(t)>>]  more == net'[<<Home[t], To(t)>>] IN
         /\ To(t) \in Process /\ Part(t) \in {"header", "body"} /\ SendTag[t] \in Tag
         /\ Head(todo[t]) = <<To(t), Part(t)>>
         /\ NextMessage(t) \in Message
         /\ s \in Seq(Message) /\ DOMAIN s = 1 .. Len(s) /\ Len(s) \in Nat
         /\ more \in Seq(Message) /\ DOMAIN more = 1 .. Len(s) + 1 /\ Len(more) = Len(s) + 1 /\ more # <<>>
         /\ \A i \in DOMAIN s : more[i] = s[i]
         /\ more[Len(s) + 1] = NextMessage(t)
         /\ net' \in [Process \X Process -> Seq(Message)]
         /\ \A d \in Process \X Process : d # <<Home[t], To(t)>> => net'[d] = net[d]
         /\ \A u \in Thread : Home[u] = Home[t] /\ todo[u] # <<>> => u = t
<1> DEFINE s == net[<<Home[t], To(t)>>]
           more == net'[<<Home[t], To(t)>>]
<1>1. /\ todo[t] # <<>> /\ net' = [net EXCEPT ![<<Home[t], To(t)>>] = Append(@, NextMessage(t))]
  BY DEF SendNext, To, Part, NextMessage
<1>2. TypeOK /\ Home[t] \in Process /\ todo[t] \in Seq(Process \X {"header", "body"}) /\ SendTag[t] \in Tag
  BY <1>1, ThreadFacts DEF SendsInTurn
<1>3. /\ To(t) \in Process /\ Part(t) \in {"header", "body"} /\ Head(todo[t]) = <<To(t), Part(t)>>
  <2>1. Head(todo[t]) \in Process \X {"header", "body"}
    BY <1>1, <1>2
  <2>2. QED
    BY <2>1 DEF To, Part
<1>4. NextMessage(t) \in Message
  BY <1>2, <1>3, ThreadFacts DEF NextMessage, Part, Message, Packet
<1>5. s \in Seq(Message) /\ DOMAIN s = 1 .. Len(s) /\ Len(s) \in Nat
  BY <1>2, <1>3, ChannelFacts, Zenon
<1>6. /\ more = Append(s, NextMessage(t))
      /\ \A d \in Process \X Process : d # <<Home[t], To(t)>> => net'[d] = net[d]
      /\ net \in [Process \X Process -> Seq(Message)]
  BY <1>1, <1>2, <1>3 DEF TypeOK
<1> HIDE DEF s, more
<1>7. /\ more \in Seq(Message) /\ DOMAIN more = 1 .. Len(s) + 1 /\ Len(more) = Len(s) + 1 /\ more # <<>>
      /\ \A i \in DOMAIN s : more[i] = s[i]
      /\ more[Len(s) + 1] = NextMessage(t)
  <2>1. s \in Seq(Message) /\ NextMessage(t) \in Message /\ more = Append(s, NextMessage(t))
    BY <1>4, <1>5, <1>6
  <2>2. more \in Seq(Message) /\ DOMAIN more = 1 .. Len(s) + 1 /\ Len(more) = Len(s) + 1 /\ more # <<>>
    BY <2>1, Appended
  <2>3. (\A i \in DOMAIN s : more[i] = s[i]) /\ more[Len(s) + 1] = NextMessage(t)
    BY <2>1, Appended
  <2>4. QED
    BY <2>2, <2>3
<1>8. net' \in [Process \X Process -> Seq(Message)]
  BY <1>1, <1>6, <1>7 DEF s
<1>9. ASSUME NEW u \in Thread, Home[u] = Home[t], todo[u] # <<>> PROVE u = t
  BY <1>1, <1>9, ThreadFacts DEF SendsInTurn
<1>10. QED
  BY <1>2, <1>3, <1>4, <1>5, <1>6, <1>7, <1>8, <1>9, Zenon DEF s, more

\* What the recipient's threads take of that channel is as before, or, where
\* there was nothing for them, the message just sent.
LEMMA SentIsLast ==
  ASSUME IndInv, NEW t \in Thread, SendNext(t), NEW v \in Thread, Home[v] = To(t)
  PROVE  /\ Matching(v, Home[t]) # {} => /\ Matching(v, Home[t])' # {}
                                         /\ Min(Matching(v, Home[t])') = Min(Matching(v, Home[t]))
                                         /\ First(v, Home[t])' = First(v, Home[t])
         /\ Matching(v, Home[t]) = {} /\ Matches(v, SendTag[t]) =>
              /\ Matching(v, Home[t])' # {}
              /\ Min(Matching(v, Home[t])') = Len(net[<<Home[t], To(t)>>]) + 1
              /\ First(v, Home[t])' = NextMessage(t)
<1> DEFINE s == net[<<Home[t], To(t)>>]
           more == net'[<<Home[t], To(t)>>]
           S == Matching(v, Home[t])
           T == Matching(v, Home[t])'
           n == Len(s) + 1
<1>1. /\ s \in Seq(Message) /\ DOMAIN s = 1 .. Len(s) /\ Len(s) \in Nat
      /\ DOMAIN more = 1 .. Len(s) + 1
      /\ \A i \in DOMAIN s : more[i] = s[i]
      /\ more[Len(s) + 1] = NextMessage(t)
  BY SendFacts, Zenon
<1>2. /\ S = {k \in DOMAIN s : Matches(v, s[k].tag)}
      /\ T = {i \in DOMAIN more : Matches(v, more[i].tag)}
  BY DEF Matching, Matches
<1>3. First(v, Home[t]) = s[Min(S)] /\ First(v, Home[t])' = more[Min(T)]
  BY DEF First
<1> HIDE DEF s, more, S, T
<1>4. S \in SUBSET Nat /\ T \in SUBSET Nat
  BY <1>1, <1>2
<1>5. S \subseteq T /\ T \subseteq S \cup {n} /\ \A k \in S : k < n
  BY <1>1, <1>2
<1>6. ASSUME S # {} PROVE T # {} /\ Min(T) = Min(S) /\ First(v, Home[t])' = First(v, Home[t])
  <2>1. Min(S) \in S /\ \A k \in S : Min(S) <= k
    BY <1>4, <1>6, MinFacts, Zenon
  <2>2. \A i \in T : Min(S) <= i
    <3>1. ASSUME NEW i \in T PROVE Min(S) <= i
      <4>1. Min(S) \in Nat /\ n \in Nat /\ Min(S) < n
        <5>1. Min(S) \in Nat
          BY <1>4, <2>1
        <5>2. n \in Nat
          BY <1>1
        <5>3. Min(S) < n
          BY <1>5, <2>1, Zenon
        <5>4. QED
          BY <5>1, <5>2, <5>3
      <4>2. CASE i \in S
        BY <2>1, <4>2
      <4>3. CASE i = n
        BY <4>1, <4>3
      <4>4. QED
        BY <1>5, <4>2, <4>3
    <3>2. QED
      BY <3>1
  <2>3. Min(T) = Min(S)
    <3>1. Min(S) \in T
      BY <1>5, <2>1
    <3>2. QED
      BY <1>4, <2>2, <3>1, MinIs, Zenon
  <2>4. QED
    BY <1>1, <1>2, <1>3, <1>5, <2>1, <2>3
<1>7. ASSUME S = {}, Matches(v, SendTag[t]) PROVE T # {} /\ Min(T) = n /\ First(v, Home[t])' = NextMessage(t)
  <2>1. n \in DOMAIN more /\ more[n].tag = SendTag[t]
    BY <1>1 DEF NextMessage
  <2>2. T = {n}
    BY <1>2, <1>5, <1>7, <2>1
  <2>3. Min(T) = n
    <3>1. n \in T /\ \A i \in T : n <= i
      BY <1>1, <2>2
    <3>2. QED
      BY <1>4, <3>1, MinIs, Zenon
  <2>4. QED
    BY <1>1, <1>3, <2>2, <2>3
<1>8. QED
  BY <1>6, <1>7 DEF S, T, s

\* A body is told by its fields.
LEMMA BodyOf ==
  ASSUME NEW header \in Message, header.part = "header", header.hasText = TRUE,
         NEW body \in Message, body.part = "body",
         body.tag = header.tag, body.id = header.id
  PROVE  IsBodyOf(body, header)
BY DEF IsBodyOf, Message

\* One MPI_Send: headers and bodies stay in step.  A header that announces a body
\* leaves it as the next to be sent; a body comes behind its header, or the
\* thread it is for waits for it, or has given it up.
LEMMA SendInStep ==
  ASSUME IndInv, NEW t \in Thread, SendNext(t)
  PROVE  InStep' /\ \A v \in Thread : GetsItsBody(v)'
<1>a. PICK p \in Process, q \in Process : p = Home[t] /\ q = To(t)
  BY SendFacts, ThreadFacts
<1> DEFINE s == net[<<p, q>>]
           more == net'[<<p, q>>]
           e == NextMessage(t)
<1>b. PICK n, rest : n \in Nat /\ n = Len(net[<<p, q>>]) + 1 /\ rest = todo'[t]
  BY <1>a, ChannelFacts
<1>1. /\ q \in Process /\ Part(t) \in {"header", "body"} /\ SendTag[t] \in Tag
      /\ Head(todo[t]) = <<q, Part(t)>> /\ e \in Message
      /\ s \in Seq(Message) /\ DOMAIN s = 1 .. Len(s) /\ Len(s) \in Nat
      /\ more \in Seq(Message) /\ DOMAIN more = 1 .. Len(s) + 1 /\ Len(more) = Len(s) + 1 /\ more # <<>>
      /\ \A i \in DOMAIN s : more[i] = s[i]
      /\ more[n] = e
  BY <1>a, <1>b, SendFacts
<1>2. \A d \in Process \X Process : d # <<p, q>> => net'[d] = net[d]
  BY <1>a, <1>b, SendFacts
<1>3. \A u \in Thread : Home[u] = p /\ todo[u] # <<>> => u = t
  BY <1>a, <1>b, SendFacts
<1>4. /\ todo[t] # <<>> /\ todo' = [todo EXCEPT ![t] = Tail(@)]
      /\ UNCHANGED <<currentLamportTime, communicationMutex, pc, hand, sends, timedOut, wrapped>>
  BY DEF SendNext
<1>5. /\ TypeOK /\ SendsInTurn(t) /\ todo[t] \in Seq(Process \X {"header", "body"})
  BY ThreadFacts
<1>6. rest = Tail(todo[t]) /\ rest = todo'[t] /\ \A u \in Thread \ {t} : todo'[u] = todo[u]
  BY <1>4, <1>5, <1>b DEF TypeOK
<1>7. e = [tag |-> SendTag[t], part |-> Part(t), ts |-> hand[t].ts, hasText |-> hand[t].hasText,
           id |-> hand[t].id]
  BY DEF NextMessage, Part
<1>8. \A v, u \in Thread : (Awaits(v, Home[u])' <=> Awaits(v, Home[u]))
  BY <1>4 DEF Awaits
<1>9. \A u \in Thread \ {t}, d \in Process : BodyDue(u, d)' <=> BodyDue(u, d)
  BY <1>6 DEF BodyDue
<1>10. \A d \in Process : BodyDue(t, d) <=> Part(t) = "body" /\ d = q
  BY <1>1, <1>4 DEF BodyDue
<1>11. \A d \in Process : BodyDue(t, d)' <=> Part(t) = "header" /\ hand[t].hasText /\ d = q
  <2>1. /\ 1 \in DOMAIN todo[t] /\ Head(todo[t]) = todo[t][1]
        /\ rest # <<>> => 2 \in DOMAIN todo[t] /\ Head(rest) = todo[t][2]
        /\ 2 \in DOMAIN todo[t] => rest # <<>>
    <3>1. todo[t] \in Seq(Process \X {"header", "body"}) /\ todo[t] # <<>> /\ rest = Tail(todo[t])
      BY <1>4, <1>5, <1>6
    <3>2. 1 \in DOMAIN todo[t] /\ Head(todo[t]) = todo[t][1]
      BY <3>1, Shortened
    <3>3. rest # <<>> => 2 \in DOMAIN todo[t] /\ Head(rest) = todo[t][2]
      BY <3>1, Shortened
    <3>4. ASSUME 2 \in DOMAIN todo[t] PROVE rest # <<>>
      <4>1. rest \in Seq(Process \X {"header", "body"})
        BY <3>1
      <4>2. Len(rest) # 0
        BY <3>1, <3>4
      <4>3. QED
        BY <4>1, <4>2
    <3>5. QED
      BY <3>2, <3>3, <3>4
  <2>2. todo[t][1] = <<q, Part(t)>>
    BY <1>1, <2>1
  <2>3. \A i \in DOMAIN todo[t] :
          IF todo[t][i][2] = "header"
          THEN hand[t].hasText => i + 1 \in DOMAIN todo[t] /\ todo[t][i + 1] = <<todo[t][i][1], "body">>
          ELSE hand[t].hasText /\ (i > 1 => todo[t][i - 1] = <<todo[t][i][1], "header">>)
    BY <1>5 DEF SendsInTurn
  <2>4. ASSUME NEW d \in Process, rest # <<>>, Head(rest) = <<d, "body">>
        PROVE  Part(t) = "header" /\ hand[t].hasText /\ d = q
    <3>1. 2 \in DOMAIN todo[t] /\ todo[t][2] = <<d, "body">>
      BY <2>1, <2>4
    <3>2. hand[t].hasText /\ todo[t][2 - 1] = <<d, "header">>
      BY <2>3, <3>1
    <3>3. <<q, Part(t)>> = <<d, "header">>
      BY <2>2, <3>2
    <3>4. QED
      BY <3>2, <3>3
  <2>5. ASSUME Part(t) = "header", hand[t].hasText
        PROVE  rest # <<>> /\ Head(rest) = <<q, "body">>
    <3>1. 1 + 1 \in DOMAIN todo[t] /\ todo[t][1 + 1] = <<q, "body">>
      BY <2>1, <2>2, <2>3, <2>5
    <3>2. QED
      BY <2>1, <3>1
  <2>6. QED
    BY <1>6, <2>4, <2>5 DEF BodyDue
<1>12. p = Home[t] /\ q = To(t) /\ p \in Process /\ q \in Process /\ s = net[<<p, q>>] /\ more = net'[<<p, q>>] /\ n = Len(s) + 1
  BY <1>a, <1>b
<1> HIDE DEF s, more, e
\* The channel of the message.
<1>13. ASSUME NEW v \in Thread, Home[v] = q
       PROVE  /\ Matching(v, p) # {} => /\ Matching(v, p)' # {} /\ Min(Matching(v, p)') = Min(Matching(v, p))
                                        /\ First(v, p)' = First(v, p)
              /\ Matching(v, p) = {} /\ Matches(v, SendTag[t]) =>
                   Matching(v, p)' # {} /\ Min(Matching(v, p)') = n /\ First(v, p)' = e
  BY <1>12, <1>13, SentIsLast DEF e
<1>14. ASSUME NEW i \in DOMAIN s
       PROVE  HeaderIsFollowed(<<p, q>>, i)' /\ BodyIsLed(<<p, q>>, i)'
  <2>1. HeaderIsFollowed(<<p, q>>, i) /\ BodyIsLed(<<p, q>>, i)
    BY <1>1, <1>5, <1>12, ChannelFacts
  <2>2. /\ i \in DOMAIN more /\ i \in Nat /\ more[i] = s[i] /\ s[i] \in Message
        /\ i + 1 \in DOMAIN s => i + 1 \in DOMAIN more /\ more[i + 1] = s[i + 1]
        /\ i - 1 \in DOMAIN s => i - 1 \in DOMAIN more /\ more[i - 1] = s[i - 1]
    <3>1. i \in Nat /\ s[i] \in Message
      BY <1>1
    <3>2. DOMAIN s \subseteq DOMAIN more
      BY <1>1
    <3>3. QED
      BY <1>1, <3>1, <3>2
  <2>3. HeaderIsFollowed(<<p, q>>, i)'
    <3>1. SUFFICES ASSUME more[i].part = "header", more[i].hasText
                   PROVE  i + 1 \in DOMAIN more /\ IsBodyOf(more[i + 1], more[i])
      BY <1>12 DEF HeaderIsFollowed, IsBodyOf
    <3>2. CASE i + 1 \in DOMAIN s /\ IsBodyOf(s[i + 1], s[i])
      BY <2>2, <3>2 DEF IsBodyOf
    <3>3. CASE /\ i = Len(s)
               /\ \E u \in Thread : /\ Home[u] = p /\ BodyDue(u, q)
                                    /\ SendTag[u] = s[i].tag /\ hand[u].id = s[i].id
      <4>1. PICK u \in Thread : /\ Home[u] = p /\ BodyDue(u, q)
                                /\ SendTag[u] = s[i].tag /\ hand[u].id = s[i].id
        BY <3>3
      <4>2. u = t
        BY <1>3, <4>1 DEF BodyDue
      <4>3. Part(t) = "body" /\ hand[t].hasText
        <5>1. Part(t) = "body"
          BY <1>1, <1>10, <4>1, <4>2
        <5>2. 1 \in DOMAIN todo[t] /\ todo[t][1][2] = "body"
          BY <1>1, <1>4, <1>5, <5>1, Shortened
        <5>3. QED
          BY <1>5, <5>1, <5>2 DEF SendsInTurn
      <4>4. IsBodyOf(e, s[i])
        <5>1. s[i].hasText = TRUE
          BY <2>2, <3>1 DEF Message
        <5>2. e.tag = s[i].tag /\ e.part = "body" /\ e.id = s[i].id
          BY <1>7, <4>1, <4>2, <4>3, <5>1
        <5>3. QED
          BY <1>1, <2>2, <3>1, <5>1, <5>2, BodyOf
      <4>5. i + 1 = n /\ n \in DOMAIN more
        BY <1>1, <1>12, <3>3
      <4>6. QED
        BY <1>1, <2>2, <4>4, <4>5
    <3>4. QED
      BY <1>12, <2>1, <2>2, <3>1, <3>2, <3>3 DEF HeaderIsFollowed
  <2>4. BodyIsLed(<<p, q>>, i)'
    <3>1. ASSUME NEW v \in Thread, Home[v] = q, Matches(v, s[i].tag), Min(Matching(v, p)) = i
          PROVE  Min(Matching(v, p)') = i
      <4>1. Matching(v, p) # {}
        BY <1>12, <3>1 DEF Matching
      <4>2. QED
        BY <1>13, <3>1, <4>1
    <3>2. SUFFICES ASSUME more[i].part = "body"
                   PROVE  \/ i - 1 \in DOMAIN more /\ IsBodyOf(more[i], more[i - 1])
                          \/ \E v \in Thread : /\ Home[v] = q /\ Matches(v, more[i].tag)
                                               /\ \/ v \in timedOut'
                                                  \/ Awaits(v, p)' /\ Min(Matching(v, p)') = i
      BY <1>12 DEF BodyIsLed, IsBodyOf, Matches
    <3>3. \/ i - 1 \in DOMAIN s /\ IsBodyOf(s[i], s[i - 1])
          \/ \E v \in Thread : /\ Home[v] = q /\ Matches(v, s[i].tag)
                               /\ v \in timedOut \/ (Awaits(v, p) /\ Min(Matching(v, p)) = i)
      BY <1>12, <2>1, <2>2, <3>2 DEF BodyIsLed
    <3>4. QED
      BY <1>4, <2>2, <3>1, <3>3 DEF Awaits
  <2>5. QED
    BY <2>3, <2>4
<1>15. HeaderIsFollowed(<<p, q>>, n)'
  <2>1. SUFFICES ASSUME e.part = "header", e.hasText
                 PROVE  /\ n = Len(more)
                        /\ \E u \in Thread : /\ Home[u] = p /\ BodyDue(u, q)'
                                             /\ SendTag[u] = e.tag /\ hand'[u].id = e.id
    <3>1. more[n] = e
      BY <1>1
    <3>2. QED
      BY <1>12, <3>1 DEF HeaderIsFollowed
  <2>2. BodyDue(t, q)'
    BY <1>7, <1>11, <1>12, <2>1
  <2>3. QED
    BY <1>1, <1>4, <1>7, <1>12, <2>2
<1>16. ASSUME e.part = "body"
       PROVE  BodyIsLed(<<p, q>>, n)'
  <2>1. Part(t) = "body" /\ BodyDue(t, q) /\ BodyDueIsLed(t, q)
    BY <1>7, <1>10, <1>12, <1>16, ThreadFacts
  <2>3. more[n] = e
    BY <1>1
  <2>4. SUFFICES \/ n - 1 \in DOMAIN more /\ IsBodyOf(e, more[n - 1])
                 \/ \E v \in Thread : /\ Home[v] = q /\ Matches(v, e.tag)
                                      /\ v \in timedOut \/ (Awaits(v, p)' /\ Min(Matching(v, p)') = n)
    BY <1>4, <1>12, <2>3 DEF BodyIsLed, Matches
  <2>5. CASE /\ s # <<>>
             /\ Last(s) = [tag |-> SendTag[t], part |-> "header", ts |-> hand[t].ts, hasText |-> TRUE, id |-> hand[t].id]
    <3>1. Len(s) \in DOMAIN s /\ n - 1 = Len(s)
      BY <1>1, <1>12, <2>5
    <3>2. s[Len(s)] = [tag |-> SendTag[t], part |-> "header", ts |-> hand[t].ts, hasText |-> TRUE, id |-> hand[t].id] /\ s[Len(s)] \in Message
      <4>1. s[Len(s)] \in Message
        BY <1>1, <3>1
      <4>2. s[Len(s)] = [tag |-> SendTag[t], part |-> "header", ts |-> hand[t].ts, hasText |-> TRUE, id |-> hand[t].id]
        BY <2>5 DEF Last
      <4>3. QED
        BY <4>1, <4>2
    <3>4. IsBodyOf(e, s[Len(s)])
      BY <1>1, <1>7, <1>16, <3>2, BodyOf
    <3>5. n - 1 \in DOMAIN more /\ more[n - 1] = s[Len(s)]
      BY <1>1, <3>1
    <3>6. QED
      BY <3>4, <3>5
  <2>6. CASE \E v \in Thread : /\ Home[v] = q /\ Matches(v, SendTag[t])
                               /\ v \in timedOut \/ (Awaits(v, p) /\ Matching(v, p) = {})
    <3>1. PICK v \in Thread : /\ Home[v] = q /\ Matches(v, SendTag[t])
                              /\ v \in timedOut \/ (Awaits(v, p) /\ Matching(v, p) = {})
      BY <2>6
    <3>2. e.tag = SendTag[t]
      BY <1>7
    <3>3. CASE Awaits(v, p) /\ Matching(v, p) = {}
      BY <1>8, <1>12, <1>13, <3>1, <3>2, <3>3
    <3>4. QED
      BY <3>1, <3>2, <3>3
  <2>7. QED
    BY <1>12, <2>1, <2>5, <2>6 DEF BodyDueIsLed
<1>17. BodyIsLed(<<p, q>>, n)'
  <2>1. more[n] = e
    BY <1>1
  <2>2. QED
    BY <1>12, <1>16, <2>1 DEF BodyIsLed
\* The other channels.
<1>18. ASSUME NEW c \in Process, NEW d \in Process, <<c, d>> # <<p, q>>, NEW i \in DOMAIN net[<<c, d>>]
       PROVE  HeaderIsFollowed(<<c, d>>, i)' /\ BodyIsLed(<<c, d>>, i)'
  <2>1. UNCHANGED net[<<c, d>>]
    BY <1>2, <1>18
  <2>2. HeaderIsFollowed(<<c, d>>, i) /\ BodyIsLed(<<c, d>>, i)
    BY ChannelFacts, <1>18
  <2>3. ASSUME NEW u \in Thread, Home[u] = c, BodyDue(u, d)
        PROVE  BodyDue(u, d)'
    BY <1>9, <1>10, <1>12, <1>18, <2>3
  <2>4. HeaderIsFollowed(<<c, d>>, i)'
    BY <1>4, <2>1, <2>2, <2>3 DEF HeaderIsFollowed, IsBodyOf
  <2>5. ASSUME NEW v \in Thread, Home[v] = d
        PROVE  Matching(v, c)' = Matching(v, c) /\ Awaits(v, c)' = Awaits(v, c)
    BY <1>4, <2>1, <2>5, OtherChannel DEF Awaits
  <2>6. BodyIsLed(<<c, d>>, i)'
    BY <1>4, <2>1, <2>2, <2>5 DEF BodyIsLed, IsBodyOf, Matches
  <2>7. QED
    BY <2>4, <2>6
<1>19. ASSUME NEW u \in Thread, NEW d \in Process, BodyDue(u, d)'
       PROVE  BodyDueIsLed(u, d)'
  <2>1. CASE u = t
    \* t has just sent the header
    <3>1. Part(t) = "header" /\ hand[t].hasText = TRUE /\ d = q
      BY <1>11, <1>19, <2>1, ThreadFacts DEF Packet
    <3>2. more # <<>> /\ Last(more) = e
      <4>1. Len(more) = n /\ more # <<>>
        BY <1>1, <1>12
      <4>2. QED
        BY <1>1, <4>1 DEF Last
    <3>3. e = [tag |-> SendTag[t], part |-> "header", ts |-> hand[t].ts, hasText |-> TRUE, id |-> hand[t].id]
      BY <1>7, <3>1
    <3>4. QED
      BY <1>4, <1>12, <2>1, <3>1, <3>2, <3>3 DEF BodyDueIsLed
  <2>2. CASE u # t
    <3>1. BodyDue(u, d) /\ BodyDueIsLed(u, d) /\ Home[u] \in Process
      BY <1>9, <1>19, <2>2, ThreadFacts
    <3>2. Home[u] # p
      BY <1>3, <1>12, <2>2, <3>1 DEF BodyDue
    <3>3. UNCHANGED net[<<Home[u], d>>]
      BY <1>2, <3>1, <3>2
    <3>4. ASSUME NEW v \in Thread, Home[v] = d
          PROVE  Matching(v, Home[u])' = Matching(v, Home[u]) /\ Awaits(v, Home[u])' = Awaits(v, Home[u])
      BY <1>4, <3>3, <3>4, OtherChannel DEF Awaits
    <3>5. QED
      BY <1>4, <3>1, <3>3, <3>4 DEF BodyDueIsLed, Matches
  <2>3. QED
    BY <2>1, <2>2
<1>20. ASSUME NEW v \in Thread
       PROVE  GetsItsBody(v)'
  <2>1. SUFFICES ASSUME pc[v] = "body" PROVE GetsItsBody(v)'
    BY <1>4 DEF GetsItsBody
  <2>2. PICK c \in Process : c = hand[v].from
    BY <2>1, ThreadFacts
  <2>3. /\ RecvTag[v] # NoTag /\ hand[v].hasText /\ Home[v] \in Process
        /\ \/ hand[v].astray
           \/ Matching(v, c) # {} /\ First(v, c).part = "body" /\ First(v, c).id = hand[v].id
           \/ /\ Matching(v, c) = {}
              /\ \E u \in Thread : /\ Home[u] = c /\ BodyDue(u, Home[v])
                                   /\ Matches(v, SendTag[u]) /\ hand[u].id = hand[v].id
    BY <2>1, <2>2, ThreadFacts DEF GetsItsBody
  <2>4. SUFFICES ASSUME ~hand[v].astray
                 PROVE  \/ Matching(v, c)' # {} /\ First(v, c)'.part = "body" /\ First(v, c)'.id = hand[v].id
                        \/ /\ Matching(v, c)' = {}
                           /\ \E u \in Thread : /\ Home[u] = c /\ BodyDue(u, Home[v])'
                                                /\ Matches(v, SendTag[u]) /\ hand[u].id = hand[v].id
    BY <1>4, <2>1, <2>2, <2>3 DEF GetsItsBody, Matches
  <2>5. CASE c = p /\ Home[v] = q
    <3>1. CASE Matching(v, c) # {}
      BY <1>13, <2>3, <2>4, <2>5, <3>1
    <3>2. CASE Matching(v, c) = {}
      <4>1. PICK u \in Thread : /\ Home[u] = c /\ BodyDue(u, Home[v])
                                /\ Matches(v, SendTag[u]) /\ hand[u].id = hand[v].id
        BY <2>3, <2>4, <3>2
      <4>2. u = t
        BY <1>3, <2>5, <4>1 DEF BodyDue
      <4>3. Part(t) = "body"
        BY <1>10, <1>12, <2>5, <4>1, <4>2
      <4>4. Matching(v, c)' # {} /\ First(v, c)' = e
        BY <1>13, <2>5, <3>2, <4>1, <4>2
      <4>5. QED
        BY <1>7, <4>1, <4>2, <4>3, <4>4
    <3>3. QED
      BY <3>1, <3>2
  <2>6. CASE <<c, Home[v]>> # <<p, q>>
    <3>1. UNCHANGED net[<<c, Home[v]>>]
      BY <1>2, <2>3, <2>6
    <3>2. Matching(v, c)' = Matching(v, c) /\ First(v, c)' = First(v, c)
      BY <3>1, OtherChannel
    <3>3. ASSUME NEW u \in Thread, Home[u] = c, BodyDue(u, Home[v])
          PROVE  BodyDue(u, Home[v])'
      BY <1>9, <1>10, <1>12, <2>3, <2>6, <3>3
    <3>4. QED
      BY <2>3, <2>4, <3>2, <3>3
  <2>7. QED
    BY <2>5, <2>6
<1>21. ASSUME NEW c \in Process, NEW d \in Process, NEW i \in DOMAIN net'[<<c, d>>]
       PROVE  HeaderIsFollowed(<<c, d>>, i)' /\ BodyIsLed(<<c, d>>, i)'
  <2>1. CASE <<c, d>> = <<p, q>>
    <3>1. i \in DOMAIN s \/ i = n
      BY <1>1, <1>12, <1>21, <2>1
    <3>2. QED
      BY <1>14, <1>15, <1>17, <2>1, <3>1
  <2>2. CASE <<c, d>> # <<p, q>>
    BY <1>2, <1>18, <1>21, <2>2
  <2>3. QED
    BY <2>1, <2>2
<1>22. QED
  <2>1. \A u \in Thread, d \in Process : BodyDueIsLed(u, d)'
    BY <1>19 DEF BodyDueIsLed
  <2>2. QED
    BY <1>20, <1>21, <2>1 DEF InStep

\* What is left to send after one message is in turn as before.
LEMMA SendNextStep ==
  ASSUME IndInv, NEW t \in Thread, SendNext(t)
  PROVE  IndInv'
<1>1. /\ todo[t] # <<>> /\ todo' = [todo EXCEPT ![t] = Tail(@)]
      /\ UNCHANGED <<currentLamportTime, communicationMutex, pc, hand, sends, timedOut, wrapped>>
  BY DEF SendNext
<1>2. TypeOK /\ SendsInTurn(t) /\ todo[t] \in Seq(Process \X {"header", "body"})
  BY ThreadFacts
<1>3. PICK rest \in Seq(Process \X {"header", "body"}) : rest = Tail(todo[t]) /\ rest = todo'[t]
  <2>1. Tail(todo[t]) \in Seq(Process \X {"header", "body"})
    BY <1>1, <1>2
  <2>2. todo'[t] = Tail(todo[t])
    BY <1>1, <1>2 DEF TypeOK
  <2>3. QED
    BY <2>1, <2>2
<1>4. TypeOK'
  <2>1. net' \in [Process \X Process -> Seq(Message)]
    BY SendFacts, Zenon
  <2>2. todo' \in [Thread -> Seq(Process \X {"header", "body"})]
    BY <1>1, <1>2, <1>3 DEF TypeOK
  <2>3. QED
    BY <1>1, <1>2, <2>1, <2>2 DEF TypeOK
<1>5. SendsInTurn(t)'
  <2>1. \A i \in DOMAIN rest : i \in Nat /\ i >= 1 /\ i + 1 \in DOMAIN todo[t] /\ rest[i] = todo[t][i + 1]
    BY <1>1, <1>2, <1>3, Shortened
  <2>2. \A i \in DOMAIN todo[t] : i \in Nat /\ (i > 1 => i - 1 \in DOMAIN rest /\ rest[i - 1] = todo[t][i])
    BY <1>1, <1>2, <1>3, Shortened
  <2>3. \A i \in DOMAIN todo[t] :
          IF todo[t][i][2] = "header"
          THEN hand[t].hasText => i + 1 \in DOMAIN todo[t] /\ todo[t][i + 1] = <<todo[t][i][1], "body">>
          ELSE hand[t].hasText /\ (i > 1 => todo[t][i - 1] = <<todo[t][i][1], "header">>)
    BY <1>2 DEF SendsInTurn
  <2>4. ASSUME NEW i \in DOMAIN rest
        PROVE  IF rest[i][2] = "header"
               THEN hand[t].hasText => i + 1 \in DOMAIN rest /\ rest[i + 1] = <<rest[i][1], "body">>
               ELSE hand[t].hasText /\ (i > 1 => rest[i - 1] = <<rest[i][1], "header">>)
    <3>1. i \in Nat /\ i >= 1 /\ i + 1 \in DOMAIN todo[t] /\ rest[i] = todo[t][i + 1]
      BY <2>1
    <3>2. CASE rest[i][2] = "header"
      <4>1. hand[t].hasText => (i + 1) + 1 \in DOMAIN todo[t] /\ todo[t][(i + 1) + 1] = <<rest[i][1], "body">>
        BY <2>3, <3>1, <3>2
      <4>2. (i + 1) + 1 > 1 /\ ((i + 1) + 1) - 1 = i + 1
        BY <3>1
      <4>3. QED
        BY <2>2, <3>2, <4>1, <4>2
    <3>3. CASE rest[i][2] # "header"
      <4>1. hand[t].hasText /\ (i + 1 > 1 => todo[t][(i + 1) - 1] = <<rest[i][1], "header">>)
        BY <2>3, <3>1, <3>3
      <4>2. i + 1 > 1 /\ (i + 1) - 1 = i
        BY <3>1
      <4>3. ASSUME i > 1 PROVE rest[i - 1] = todo[t][i]
        <5>1. i \in DOMAIN todo[t]
          BY <1>2, <3>1
        <5>2. QED
          BY <2>2, <4>3, <5>1
      <4>4. QED
        BY <3>3, <4>1, <4>2, <4>3
    <3>4. QED
      BY <3>2, <3>3
  <2>5. QED
    BY <1>1, <1>2, <1>3, <2>4 DEF SendsInTurn, Clock
<1>6. \A u \in Thread \ {t} : UNCHANGED <<pc[u], hand[u], todo[u]>>
  BY <1>1, <1>2 DEF TypeOK
<1>7. /\ hand'[t].astray => t \in timedOut'
      /\ pc'[t] = "merge" => hand'[t].from \in Process /\ (~hand'[t].astray => IsWhole(t)')
  BY <1>1 DEF IndInv, AstrayOnlyAfterTimeout, IsWhole
<1>8. QED
  BY <1>1, <1>4, <1>5, <1>6, <1>7, SendInStep, StepOf DEF Clock

-----------------------------------------------------------------------------
\* Every step keeps the invariant.
LEMMA NextIndInv == IndInv /\ [Next]_vars => IndInv'
<1> SUFFICES ASSUME IndInv, [Next]_vars PROVE IndInv'
  OBVIOUS
<1>1. CASE UNCHANGED vars
  <2>1. /\ TypeOK' /\ AstrayOnlyAfterTimeout'
        /\ \A u \in Thread : (pc[u] = "merge" /\ ~hand[u].astray => IsWhole(u))'
    BY <1>1 DEF IndInv, TypeOK, AstrayOnlyAfterTimeout, IsWhole, vars
  <2>2. \A u \in Thread, p \in Process : Matching(u, p)' = Matching(u, p) /\ First(u, p)' = First(u, p)
    BY <1>1 DEF Matching, First, vars
  <2>3. \A u \in Thread, p \in Process : /\ BodyDue(u, p)' <=> BodyDue(u, p)
                                         /\ Awaits(u, p)' <=> Awaits(u, p)
    BY <1>1 DEF BodyDue, Awaits, vars
  <2>4. ASSUME NEW p \in Process, NEW q \in Process, NEW i \in DOMAIN net[<<p, q>>]
        PROVE  HeaderIsFollowed(<<p, q>>, i)' /\ BodyIsLed(<<p, q>>, i)'
    <3>1. HeaderIsFollowed(<<p, q>>, i) /\ BodyIsLed(<<p, q>>, i)
      BY ChannelFacts, <2>4
    <3>2. HeaderIsFollowed(<<p, q>>, i)'
      BY <1>1, <2>3, <3>1 DEF HeaderIsFollowed, IsBodyOf, vars
    <3>3. BodyIsLed(<<p, q>>, i)'
      BY <1>1, <2>2, <2>3, <3>1 DEF BodyIsLed, IsBodyOf, vars
    <3>4. QED
      BY <3>2, <3>3
  <2>5. ASSUME NEW u \in Thread
        PROVE  SendsInTurn(u)' /\ GetsItsBody(u)' /\ \A q \in Process : BodyDueIsLed(u, q)'
    <3>1. SendsInTurn(u) /\ GetsItsBody(u) /\ Home[u] \in Process /\ \A q \in Process : BodyDueIsLed(u, q)
      BY ThreadFacts
    <3>2. SendsInTurn(u)'
      BY <1>1, <3>1 DEF SendsInTurn, Clock, vars
    <3>3. GetsItsBody(u)'
      BY <1>1, <2>2, <2>3, <3>1 DEF GetsItsBody, vars
    <3>4. \A q \in Process : BodyDueIsLed(u, q)'
      <4>1. ASSUME NEW q \in Process PROVE BodyDueIsLed(u, q)'
        <5>1. BodyDueIsLed(u, q)
          BY <3>1
        <5>2. UNCHANGED <<net, hand, timedOut>>
          BY <1>1 DEF vars
        <5>3. QED
          BY <2>2, <2>3, <3>1, <5>1, <5>2 DEF BodyDueIsLed
      <4>2. QED
        BY <4>1
    <3>5. QED
      BY <3>2, <3>3, <3>4
  <2>6. InStep'
    BY <1>1, <2>4, <2>5 DEF InStep, vars
  <2>7. \A u \in Thread : (pc[u] = "merge" => hand[u].from \in Process)'
    BY <1>1 DEF IndInv, vars
  <2>8. QED
    BY <2>1, <2>5, <2>6, <2>7, IndInvFrom DEF AstrayOnlyAfterTimeout
<1>2. ASSUME NEW t \in Thread, NEW order \in Orders(t), NEW hasText \in BOOLEAN,
             BeginSend(t, order, hasText)
      PROVE  IndInv'
  BY <1>2, BeginSendStep
<1>3. ASSUME NEW t \in Thread,
             SendNext(t) \/ EndSend(t) \/ ReceiveBody(t) \/ MergeClock(t) \/ BodyTimeout(t)
      PROVE  IndInv'
  BY <1>3, SendNextStep, EndSendStep, ReceiveBodyStep, MergeClockStep, BodyTimeoutStep
<1>4. ASSUME NEW t \in Thread, NEW p \in Process, ReceiveHeader(t, p) \/ HeaderTimeout(t, p)
      PROVE  IndInv'
  BY <1>4, ReceiveHeaderStep, HeaderTimeoutStep
<1>5. QED
  BY <1>1, <1>2, <1>3, <1>4 DEF Next, Quiet

\* Headers and bodies stay in step on every channel, whatever times out.
THEOREM Invariance == Spec => []IndInv
<1>1. QED
  BY InitIndInv, NextIndInv, PTL DEF Spec

\* The variables have their types.
THEOREM TypeCorrect == Spec => []TypeOK
<1>1. IndInv => TypeOK
  BY DEF IndInv
<1>2. QED
  BY Invariance, <1>1, PTL

\* A thread takes a body for a header, or the reverse, only after a faulty timeout
\* of its own.
THEOREM AstrayOwnTimeout == Spec => []AstrayOnlyAfterTimeout
<1>1. IndInv => AstrayOnlyAfterTimeout
  BY DEF IndInv
<1>2. QED
  BY Invariance, <1>1, PTL

\* A thread whose own timeouts did not go wrong returns whole packets: the text is
\* of the send of the header.
THEOREM PacketsAreWhole == Spec => []MessagesAreWhole
<1>1. IndInv => MessagesAreWhole
  BY DEF IndInv, AstrayOnlyAfterTimeout, MessagesAreWhole
<1>2. QED
  BY Invariance, <1>1, PTL

-----------------------------------------------------------------------------
(***************************************************************************)
(* SimpleCommunicator implements LogicalClock.  What is in transit is a    *)
(* set, from which a receipt takes one packet, and so the packets must     *)
(* differ: that is the second invariant, TimestampsDiffer.                 *)
(***************************************************************************)

\* A step that puts no header on the network, and keeps the place of none twice.
FewerHeaders ==
  \A p, q \in Process : \A i, j \in HeadersOf(p, q)' :
    \E k, l \in HeadersOf(p, q) :
      /\ net'[<<p, q>>][i].ts = net[<<p, q>>][k].ts /\ net'[<<p, q>>][j].ts = net[<<p, q>>][l].ts
      /\ k = l => i = j

\* A step in which no clock goes back but one that wraps around.
ClocksAdvance ==
  /\ wrapped \subseteq wrapped'
  /\ \A p \in Process \ wrapped' : /\ currentLamportTime'[p] \in Nat
                                   /\ currentLamportTime'[p] >= currentLamportTime[p]

\* Time stands still in a step that stamps and merges nothing.
LEMMA ClocksStill ==
  ASSUME IndInv, UNCHANGED <<currentLamportTime, wrapped>>
  PROVE  ClocksAdvance
<1>1. \A p \in Process : currentLamportTime[p] \in Nat
  BY TimeFacts DEF IndInv, TypeOK
<1>2. QED
  BY <1>1 DEF ClocksAdvance

\* Before anybody has called anything.
LEMMA InitDiffer == Init => TimestampsDiffer
<1> SUFFICES ASSUME Init PROVE TimestampsDiffer
  OBVIOUS
<1>1. \A p, q \in Process : HeadersOf(p, q) = {}
  <2>1. \A c \in Process \X Process : net[c] = <<>> /\ DOMAIN net[c] = {}
    BY DEF Init
  <2>2. QED
    BY <2>1 DEF HeadersOf
<1>2. ASSUME NEW t \in Thread PROVE YetToSend(t) /\ JustReceived(t)
  <2>1. pc[t] = "idle" /\ todo[t] = <<>>
    BY DEF Init
  <2>2. DOMAIN todo[t] = {}
    BY <2>1
  <2>3. YetToSend(t)
    BY <2>2 DEF YetToSend, Owes
  <2>4. JustReceived(t)
    BY <2>1 DEF JustReceived, Holds
  <2>5. QED
    BY <2>3, <2>4
<1>3. QED
  BY <1>1, <1>2 DEF TimestampsDiffer, OnNetwork

\* What the second invariant says of a header: no other one between the two
\* processes, on the network or elsewhere, has its timestamp.
LEMMA HeaderFacts ==
  ASSUME IndInv, TimestampsDiffer,
         NEW p \in Process \ wrapped, NEW q \in Process, NEW i \in HeadersOf(p, q)
  PROVE  /\ net[<<p, q>>][i].ts \in Nat /\ currentLamportTime[p] \in Nat
         /\ net[<<p, q>>][i].ts <= currentLamportTime[p]
         /\ \A j \in HeadersOf(p, q) : net[<<p, q>>][i].ts = net[<<p, q>>][j].ts => i = j
         /\ \A u \in Thread : Home[u] = p /\ Owes(u, q) => hand[u].ts # net[<<p, q>>][i].ts
         /\ \A u \in Thread : Holds(u, p) /\ Home[u] = q => hand[u].ts # net[<<p, q>>][i].ts
<1>1. i \in DOMAIN net[<<p, q>>] /\ net[<<p, q>>][i] \in Message
  BY ChannelFacts DEF HeadersOf
<1>2. net[<<p, q>>][i].ts \in Nat /\ currentLamportTime[p] \in Nat
  BY <1>1, TimeFacts DEF Message, IndInv, TypeOK
<1>3. /\ net[<<p, q>>][i].ts <= currentLamportTime[p]
      /\ \A j \in HeadersOf(p, q) : net[<<p, q>>][i].ts = net[<<p, q>>][j].ts => i = j
  BY DEF TimestampsDiffer, OnNetwork
<1>4. \A u \in Thread : Home[u] = p /\ Owes(u, q) => hand[u].ts # net[<<p, q>>][i].ts
  BY DEF TimestampsDiffer, YetToSend
<1>5. \A u \in Thread : Holds(u, p) /\ Home[u] = q => hand[u].ts # net[<<p, q>>][i].ts
  BY DEF TimestampsDiffer, JustReceived
<1>6. QED
  BY <1>2, <1>3, <1>4, <1>5

\* A step of t that sends nothing: packets differ as before, but for what t has
\* just received.
LEMMA DifferFrame ==
  ASSUME IndInv, TimestampsDiffer, NEW t \in Thread, FewerHeaders, UNCHANGED todo, todo[t] = <<>>,
         ClocksAdvance,
         \A u \in Thread \ {t} : UNCHANGED <<pc[u], hand[u]>>,
         \A p \in Process \ wrapped' : Holds(t, p)' =>
           \A u \in Thread \ {t} : Holds(u, p) /\ Home[u] = Home[t] => hand[u].ts # hand'[t].ts,
         JustReceived(t)'
  PROVE  TimestampsDiffer'
<1>1. OnNetwork'
  <2>1. ASSUME NEW p \in Process \ wrapped', NEW q \in Process,
               NEW i \in HeadersOf(p, q)', NEW j \in HeadersOf(p, q)'
        PROVE  /\ net'[<<p, q>>][i].ts <= currentLamportTime'[p]
               /\ net'[<<p, q>>][i].ts = net'[<<p, q>>][j].ts => i = j
    <3>1. PICK k \in HeadersOf(p, q), l \in HeadersOf(p, q) :
            /\ net'[<<p, q>>][i].ts = net[<<p, q>>][k].ts /\ net'[<<p, q>>][j].ts = net[<<p, q>>][l].ts
            /\ k = l => i = j
      BY <2>1 DEF FewerHeaders
    <3>2. QED
      BY <2>1, <3>1, HeaderFacts DEF ClocksAdvance
  <2>2. QED
    BY <2>1 DEF OnNetwork
<1>2. ASSUME NEW u \in Thread PROVE YetToSend(u)'
  <2>1. YetToSend(u) /\ UNCHANGED todo[u] /\ Home[u] \in Process
    BY ThreadFacts DEF TimestampsDiffer
  <2>2. CASE todo[u] = <<>>
    <3>1. DOMAIN todo'[u] = {}
      BY <2>2
    <3>2. QED
      BY <3>1 DEF YetToSend, Owes
  <2>3. CASE todo[u] # <<>>
    <3>1. UNCHANGED hand[u] /\ \A q \in Process : Owes(u, q)' <=> Owes(u, q)
      BY <2>3 DEF Owes
    <3>2. ASSUME NEW q \in Process, Home[u] \notin wrapped', Owes(u, q), NEW i \in HeadersOf(Home[u], q)'
          PROVE  net'[<<Home[u], q>>][i].ts # hand[u].ts
      <4>1. PICK k \in HeadersOf(Home[u], q) : net'[<<Home[u], q>>][i].ts = net[<<Home[u], q>>][k].ts
        BY <2>1, <3>2 DEF FewerHeaders
      <4>2. QED
        BY <2>1, <3>2, <4>1, HeaderFacts DEF ClocksAdvance
    <3>3. QED
      BY <2>1, <3>1, <3>2 DEF YetToSend
  <2>4. QED
    BY <2>2, <2>3
<1>3. ASSUME NEW u \in Thread \ {t} PROVE JustReceived(u)'
  <2>1. JustReceived(u) /\ UNCHANGED <<pc[u], hand[u]>> /\ Home[u] \in Process
    BY ThreadFacts DEF TimestampsDiffer
  <2>2. SUFFICES ASSUME NEW f \in Process \ wrapped', Holds(u, f)'
                 PROVE  /\ hand'[u].ts <= currentLamportTime'[f]
                        /\ \A i \in HeadersOf(f, Home[u])' : net'[<<f, Home[u]>>][i].ts # hand'[u].ts
                        /\ \A v \in Thread \ {u} :
                             /\ Owes(v, Home[u])' /\ Home[v] = f => hand'[v].ts # hand'[u].ts
                             /\ Holds(v, f)' /\ Home[v] = Home[u] => hand'[v].ts # hand'[u].ts
    BY DEF JustReceived
  <2>3. Holds(u, f) /\ f \in Process \ wrapped
    BY <2>1, <2>2 DEF Holds, ClocksAdvance
  <2>4. hand[u].ts <= currentLamportTime'[f]
    <3>1. hand[u].ts \in Nat /\ currentLamportTime[f] \in Nat /\ hand[u].ts <= currentLamportTime[f]
      BY <2>1, <2>3, ThreadFacts, TimeFacts DEF JustReceived, TypeOK, Packet
    <3>2. QED
      BY <2>2, <3>1 DEF ClocksAdvance
  <2>5. ASSUME NEW i \in HeadersOf(f, Home[u])' PROVE net'[<<f, Home[u]>>][i].ts # hand[u].ts
    <3>1. PICK k \in HeadersOf(f, Home[u]) : net'[<<f, Home[u]>>][i].ts = net[<<f, Home[u]>>][k].ts
      BY <2>1, <2>5 DEF FewerHeaders
    <3>2. QED
      BY <2>1, <2>3, <3>1, HeaderFacts
  <2>6. ASSUME NEW v \in Thread \ {u}
        PROVE  /\ Owes(v, Home[u])' /\ Home[v] = f => hand'[v].ts # hand[u].ts
               /\ Holds(v, f)' /\ Home[v] = Home[u] => hand'[v].ts # hand[u].ts
    <3>1. ASSUME Owes(v, Home[u])', Home[v] = f PROVE hand'[v].ts # hand[u].ts
      <4>1. Owes(v, Home[u])
        BY <3>1 DEF Owes
      <4>2. v # t
        <5>1. DOMAIN todo[t] = {}
          OBVIOUS
        <5>2. QED
          BY <4>1, <5>1 DEF Owes
      <4>3. QED
        BY <2>1, <2>3, <3>1, <4>1, <4>2 DEF JustReceived
    <3>2. ASSUME Holds(v, f)', Home[v] = Home[u] PROVE hand'[v].ts # hand[u].ts
      <4>1. CASE v = t
        BY <2>1, <2>2, <2>3, <3>2, <4>1
      <4>2. CASE v # t
        <5>1. Holds(v, f) /\ UNCHANGED hand[v]
          BY <3>2, <4>2 DEF Holds
        <5>2. QED
          BY <2>1, <2>3, <3>2, <5>1 DEF JustReceived
      <4>3. QED
        BY <4>1, <4>2
    <3>3. QED
      BY <3>1, <3>2
  <2>7. QED
    BY <2>1, <2>4, <2>5, <2>6
<1>4. QED
  BY <1>1, <1>2, <1>3 DEF TimestampsDiffer

\* A receive leaves all headers but the one it may have got.
LEMMA TakeHeaders ==
  ASSUME IndInv, NEW t \in Thread, NEW p \in Process, Take(t, p)
  PROVE  /\ \A i, j \in HeadersOf(p, Home[t])' :
              \E k, l \in HeadersOf(p, Home[t]) \ {Place(t, p)} :
                /\ Queue(t, p)'[i] = Queue(t, p)[k] /\ Queue(t, p)'[j] = Queue(t, p)[l]
                /\ k = l => i = j
         /\ \A k \in HeadersOf(p, Home[t]) \ {Place(t, p)} :
              \E i \in HeadersOf(p, Home[t])' : Queue(t, p)'[i] = Queue(t, p)[k]
         /\ \A a, b \in Process : <<a, b>> # <<p, Home[t]>> =>
              net'[<<a, b>>] = net[<<a, b>>] /\ HeadersOf(a, b)' = HeadersOf(a, b)
         /\ FewerHeaders
<1>1. PICK s, rest, r :
        /\ s = Queue(t, p) /\ rest = Queue(t, p)' /\ r = Place(t, p)
  OBVIOUS
<1>2. /\ s \in Seq(Message) /\ r \in DOMAIN s /\ rest \in Seq(Message)
      /\ DOMAIN s = 1 .. Len(s) /\ Len(s) \in Nat /\ DOMAIN rest = 1 .. Len(rest) /\ Len(rest) = Len(s) - 1
  BY <1>1, TakeFacts, Zenon
<1>3. \A i \in DOMAIN rest : /\ i < r => i \in DOMAIN s /\ rest[i] = s[i]
                             /\ ~(i < r) => i + 1 \in DOMAIN s /\ rest[i] = s[i + 1]
  BY <1>1, TakeFacts, Zenon
<1>4. \A k \in DOMAIN s : /\ k < r => k \in DOMAIN rest /\ rest[k] = s[k]
                          /\ k > r => k - 1 \in DOMAIN rest /\ rest[k - 1] = s[k]
  BY <1>1, TakeFacts, Zenon
<1>5. \A d \in Process \X Process : d # <<p, Home[t]>> => net'[d] = net[d]
  BY TakeFacts, Zenon
<1>6. PICK S, T :
        /\ S = HeadersOf(p, Home[t]) /\ T = HeadersOf(p, Home[t])'
        /\ S = {k \in DOMAIN s : s[k].part = "header"} /\ T = {i \in DOMAIN rest : rest[i].part = "header"}
  BY <1>1 DEF HeadersOf, Queue
<1>7. \A i, j \in T : \E k, l \in S \ {r} : rest[i] = s[k] /\ rest[j] = s[l] /\ (k = l => i = j)
  <2>1. ASSUME NEW i \in T PROVE i \in Nat /\ (IF i < r THEN i ELSE i + 1) \in S \ {r}
                                 /\ rest[i] = s[IF i < r THEN i ELSE i + 1]
    <3>1. CASE i < r
      BY <1>2, <1>3, <1>6, <3>1
    <3>2. CASE ~(i < r)
      BY <1>2, <1>3, <1>6, <3>2
    <3>3. QED
      BY <1>2, <1>6, <3>1, <3>2
  <2>2. ASSUME NEW i \in T, NEW j \in T,
               (IF i < r THEN i ELSE i + 1) = (IF j < r THEN j ELSE j + 1)
        PROVE  i = j
    BY <1>2, <2>1, <2>2
  <2>3. QED
    BY <2>1, <2>2, Zenon
<1>8. \A k \in S \ {r} : \E i \in T : rest[i] = s[k]
  <2>1. ASSUME NEW k \in S \ {r} PROVE \E i \in T : rest[i] = s[k]
    <3>1. k \in DOMAIN s /\ k \in Nat /\ r \in Nat
      BY <1>2, <1>6
    <3>2. CASE k < r
      BY <1>4, <1>6, <3>1, <3>2
    <3>3. CASE k > r
      BY <1>4, <1>6, <3>1, <3>3
    <3>4. QED
      BY <3>1, <3>2, <3>3
  <2>2. QED
    BY <2>1
<1>9. ASSUME NEW a \in Process, NEW b \in Process, <<a, b>> # <<p, Home[t]>>
      PROVE  net'[<<a, b>>] = net[<<a, b>>] /\ HeadersOf(a, b)' = HeadersOf(a, b)
  BY <1>5, <1>9 DEF HeadersOf
<1>10. FewerHeaders
  <2>1. ASSUME NEW a \in Process, NEW b \in Process, NEW i \in HeadersOf(a, b)', NEW j \in HeadersOf(a, b)'
        PROVE  \E k, l \in HeadersOf(a, b) :
                 /\ net'[<<a, b>>][i].ts = net[<<a, b>>][k].ts /\ net'[<<a, b>>][j].ts = net[<<a, b>>][l].ts
                 /\ k = l => i = j
    <3>1. CASE <<a, b>> # <<p, Home[t]>>
      BY <1>9, <2>1, <3>1
    <3>2. CASE <<a, b>> = <<p, Home[t]>>
      <4>1. a = p /\ b = Home[t]
        BY <3>2
      <4>2. i \in T /\ j \in T /\ net'[<<a, b>>] = rest /\ net[<<a, b>>] = s /\ HeadersOf(a, b) = S
        BY <1>1, <1>6, <2>1, <4>1 DEF Queue
      <4>3. PICK k \in S \ {r}, l \in S \ {r} : rest[i] = s[k] /\ rest[j] = s[l] /\ (k = l => i = j)
        BY <1>7, <4>2
      <4>4. QED
        BY <4>2, <4>3
    <3>3. QED
      BY <3>1, <3>2
  <2>2. QED
    BY <2>1 DEF FewerHeaders
<1>11. \A i, j \in HeadersOf(p, Home[t])' :
         \E k, l \in HeadersOf(p, Home[t]) \ {Place(t, p)} :
           /\ Queue(t, p)'[i] = Queue(t, p)[k] /\ Queue(t, p)'[j] = Queue(t, p)[l]
           /\ k = l => i = j
  BY <1>1, <1>6, <1>7
<1>12. \A k \in HeadersOf(p, Home[t]) \ {Place(t, p)} :
         \E i \in HeadersOf(p, Home[t])' : Queue(t, p)'[i] = Queue(t, p)[k]
  BY <1>1, <1>6, <1>8
<1>13. QED
  BY <1>9, <1>10, <1>11, <1>12, Zenon

\* A step that leaves the network alone.
LEMMA SameHeaders ==
  ASSUME UNCHANGED net
  PROVE  FewerHeaders /\ \A p, q \in Process : HeadersOf(p, q)' = HeadersOf(p, q)
<1>1. \A p, q \in Process : HeadersOf(p, q)' = HeadersOf(p, q)
  BY DEF HeadersOf
<1>2. QED
  BY <1>1 DEF FewerHeaders

\* A clock is set to a later time, or wraps around.
LEMMA SetsClock ==
  ASSUME IndInv, NEW t \in Thread, NEW time \in LamportTime, SetClock(t, time),
         time # 0 => time > Clock(t)
  PROVE  /\ ClocksAdvance
         /\ Clock(t)' = time /\ (Home[t] \in wrapped' <=> time = 0 \/ Home[t] \in wrapped)
         /\ \A p \in Process \ {Home[t]} : /\ currentLamportTime'[p] = currentLamportTime[p]
                                           /\ p \in wrapped' <=> p \in wrapped
<1>1. /\ currentLamportTime \in [Process -> LamportTime] /\ Home[t] \in Process
      /\ currentLamportTime' = [currentLamportTime EXCEPT ![Home[t]] = time]
      /\ wrapped' = IF time = 0 THEN wrapped \cup {Home[t]} ELSE wrapped
  BY ThreadFacts DEF TypeOK, SetClock
<1>n. time \in Nat /\ \A p \in Process : currentLamportTime[p] \in Nat
  BY <1>1, TimeFacts
<1>2. Clock(t)' = time /\ \A p \in Process \ {Home[t]} : currentLamportTime'[p] = currentLamportTime[p]
  BY <1>1 DEF Clock
<1>3. ASSUME NEW p \in Process, p \notin wrapped'
      PROVE  currentLamportTime'[p] \in Nat /\ currentLamportTime'[p] >= currentLamportTime[p]
  <2>1. CASE p = Home[t]
    BY <1>1, <1>n, <1>2, <1>3, <2>1 DEF Clock
  <2>2. CASE p # Home[t]
    BY <1>n, <1>2, <2>2
  <2>3. QED
    BY <2>1, <2>2
<1>4. QED
  BY <1>1, <1>2, <1>3 DEF ClocksAdvance

\* A thread that has nothing in hand after the step.
LEMMA EmptyHanded ==
  ASSUME IndInv, TimestampsDiffer, NEW t \in Thread, FewerHeaders, Return(t), todo[t] = <<>>,
         ClocksAdvance
  PROVE  TimestampsDiffer'
<1>1. /\ pc'[t] = "idle" /\ UNCHANGED <<todo, sends>>
      /\ \A u \in Thread \ {t} : UNCHANGED <<pc[u], hand[u], todo[u]>>
  BY ReturnFacts
<1>2. JustReceived(t)'
  BY <1>1 DEF JustReceived, Holds
<1>3. \A p : ~Holds(t, p)'
  BY <1>1 DEF Holds
<1>4. UNCHANGED todo /\ \A u \in Thread \ {t} : UNCHANGED <<pc[u], hand[u]>>
  BY <1>1
<1>5. QED
  BY <1>1, <1>2, <1>3, <1>4, DifferFrame

\* The ends of a send and of a receive, and the timeouts.
LEMMA ReturnDiffer ==
  ASSUME IndInv, TimestampsDiffer, NEW t \in Thread,
         \/ EndSend(t) \/ MergeClock(t) \/ BodyTimeout(t) \/ \E p \in Process : HeaderTimeout(t, p)
  PROVE  TimestampsDiffer'
<1>1. /\ TypeOK /\ Home[t] \in Process /\ todo[t] \in Seq(Process \X {"header", "body"})
      /\ currentLamportTime \in [Process -> LamportTime]
      /\ pc[t] # "sending" => todo[t] = <<>>
      /\ pc[t] = "body" => hand[t].from \in Process
  <2>1. TypeOK /\ Home[t] \in Process /\ todo[t] \in Seq(Process \X {"header", "body"})
    BY ThreadFacts
  <2>2. /\ pc[t] # "sending" => todo[t] = <<>>
        /\ pc[t] = "body" => hand[t].from \in Process
    BY ThreadFacts DEF SendsInTurn
  <2>3. QED
    BY <2>1, <2>2 DEF TypeOK
<1>2. CASE EndSend(t)
  BY <1>1, <1>2, SameHeaders, ClocksStill, EmptyHanded DEF EndSend
<1>3. CASE MergeClock(t)
  <2>1. /\ SetClock(t, Merged(hand[t].ts, Clock(t)))
        /\ UNCHANGED net /\ Return(t) /\ pc[t] = "merge"
    BY <1>3 DEF MergeClock
  <2>2. hand[t].ts \in LamportTime /\ Clock(t) \in LamportTime
    BY ThreadFacts DEF Packet
  <2>3. ClocksAdvance
    BY <1>1, <2>1, <2>2, MergedFacts, SetsClock
  <2>4. QED
    BY <1>1, <2>1, <2>3, SameHeaders, EmptyHanded
<1>4. CASE BodyTimeout(t)
  <2>1. Return(t) /\ pc[t] = "body" /\ UNCHANGED <<currentLamportTime, wrapped>>
    BY <1>4 DEF BodyTimeout
  <2>2. UNCHANGED net \/ Take(t, hand[t].from)
    BY <1>4 DEF BodyTimeout
  <2>3. FewerHeaders
    BY <1>1, <2>1, <2>2, SameHeaders, TakeHeaders
  <2>4. QED
    BY <1>1, <2>1, <2>3, ClocksStill, EmptyHanded
<1>5. ASSUME NEW p \in Process, HeaderTimeout(t, p) PROVE TimestampsDiffer'
  <2>1. Return(t) /\ pc[t] = "idle" /\ Take(t, p) /\ UNCHANGED <<currentLamportTime, wrapped>>
    BY <1>5 DEF HeaderTimeout, Listening
  <2>2. FewerHeaders
    BY <2>1, TakeHeaders
  <2>3. QED
    BY <1>1, <2>1, <2>2, ClocksStill, EmptyHanded
<1>6. QED
  BY <1>2, <1>3, <1>4, <1>5

\* A thread that receives has sent all it had to, and what it and the others
\* owe does not change.
LEMMA Receiving ==
  ASSUME IndInv, NEW t \in Thread, pc[t] # "sending"
  PROVE  todo[t] = <<>> /\ \A q : ~Owes(t, q)
<1>1. todo[t] = <<>>
  BY ThreadFacts DEF SendsInTurn
<1>2. DOMAIN todo[t] = {}
  BY <1>1
<1>3. QED
  BY <1>1, <1>2 DEF Owes

\* The receive of a body: the packet in hand is the same, or the thread astray.
LEMMA ReceiveBodyDiffer ==
  ASSUME IndInv, TimestampsDiffer, NEW t \in Thread, ReceiveBody(t)
  PROVE  TimestampsDiffer'
<1>1. PICK p \in Process : p = hand[t].from /\ pc[t] = "body" /\ Take(t, p)
  BY ThreadFacts DEF ReceiveBody, BodySource
<1>2. /\ UNCHANGED <<currentLamportTime, wrapped, todo>>
      /\ hand'[t].from = p /\ hand'[t].ts = hand[t].ts
      /\ \A q : Holds(t, q)' => q = p /\ Holds(t, p)
      /\ \A u \in Thread \ {t} : UNCHANGED <<pc[u], hand[u]>>
  <2>1. /\ UNCHANGED <<currentLamportTime, wrapped, todo>> /\ pc' = [pc EXCEPT ![t] = "merge"]
        /\ hand' = [hand EXCEPT ![t].text = First(t, p).id, ![t].from = p,
                                ![t].astray = @ \/ First(t, p).part # "body"]
    BY <1>1 DEF ReceiveBody, BodySource
  <2>2. /\ hand'[t] = [hand[t] EXCEPT !.text = First(t, p).id, !.from = p,
                                      !.astray = @ \/ First(t, p).part # "body"]
        /\ \A u \in Thread \ {t} : UNCHANGED <<pc[u], hand[u]>>
    BY <2>1, ThreadFacts DEF TypeOK
  <2>3. hand[t] \in Packet
    BY ThreadFacts
  <2>4. hand'[t].from = p /\ hand'[t].ts = hand[t].ts
    BY <2>2, <2>3 DEF Packet
  <2>5. hand'[t].astray = (hand[t].astray \/ First(t, p).part # "body")
    BY <2>2, <2>3, Zenon DEF Packet
  <2>6. \A q : Holds(t, q)' => q = p /\ Holds(t, p)
    BY <1>1, <2>4, <2>5 DEF Holds
  <2>7. QED
    BY <2>1, <2>2, <2>4, <2>6
<1>3. /\ FewerHeaders
      /\ \A i \in HeadersOf(p, Home[t])' : \E k \in HeadersOf(p, Home[t]) :
           net'[<<p, Home[t]>>][i].ts = net[<<p, Home[t]>>][k].ts
  <2>1. FewerHeaders /\ Home[t] \in Process
    BY <1>1, TakeHeaders, ThreadFacts
  <2>2. QED
    BY <2>1 DEF FewerHeaders
<1>4. JustReceived(t)
  BY DEF TimestampsDiffer
<1>5. Holds(t, p) /\ p \notin wrapped =>
        /\ hand[t].ts <= currentLamportTime[p]
        /\ \A i \in HeadersOf(p, Home[t]) : net[<<p, Home[t]>>][i].ts # hand[t].ts
        /\ \A u \in Thread \ {t} : Owes(u, Home[t]) /\ Home[u] = p => hand[u].ts # hand[t].ts
        /\ \A u \in Thread \ {t} : Holds(u, p) /\ Home[u] = Home[t] => hand[u].ts # hand[t].ts
  BY <1>4 DEF JustReceived
<1>6. \A u \in Thread \ {t} : Owes(u, Home[t])' <=> Owes(u, Home[t])
  BY <1>2 DEF Owes
<1>7. \A u \in Thread \ {t} : Holds(u, p)' <=> Holds(u, p)
  BY <1>2 DEF Holds
<1>8. JustReceived(t)'
  BY <1>2, <1>3, <1>5, <1>6, <1>7 DEF JustReceived
<1>9. todo[t] = <<>> /\ UNCHANGED todo /\ ClocksAdvance
  BY <1>1, <1>2, Receiving, ClocksStill
<1>10. \A q \in Process \ wrapped' : Holds(t, q)' =>
         \A u \in Thread \ {t} : Holds(u, q) /\ Home[u] = Home[t] => hand[u].ts # hand'[t].ts
  BY <1>2, <1>5
<1>11. QED
  BY <1>2, <1>3, <1>8, <1>9, <1>10, DifferFrame

\* The receive of a header: it is in hand, and no longer on the network.
LEMMA ReceiveHeaderDiffer ==
  ASSUME IndInv, TimestampsDiffer, NEW t \in Thread, NEW p \in Process, ReceiveHeader(t, p)
  PROVE  TimestampsDiffer'
<1>1. PICK got, r, header :
        /\ got = First(t, p) /\ r = Place(t, p) /\ header \in HeadersIn(got)
        /\ pc[t] = "idle" /\ Take(t, p)
        /\ pc' = [pc EXCEPT ![t] = IF header.hasText THEN "body" ELSE "merge"]
        /\ hand' = [hand EXCEPT ![t] = [from |-> p, ts |-> header.ts, hasText |-> header.hasText,
                                        id |-> got.id, text |-> NoId, astray |-> got.part # "header"]]
        /\ UNCHANGED <<currentLamportTime, wrapped, todo>>
  BY DEF ReceiveHeader, Listening
<1>2. /\ \A q : Holds(t, q)' => q = p /\ got.part = "header"
      /\ got.part = "header" => hand'[t].ts = got.ts
      /\ \A u \in Thread \ {t} : UNCHANGED <<pc[u], hand[u]>>
  <2>1. /\ hand'[t] = [from |-> p, ts |-> header.ts, hasText |-> header.hasText,
                       id |-> got.id, text |-> NoId, astray |-> got.part # "header"]
        /\ \A u \in Thread \ {t} : UNCHANGED <<pc[u], hand[u]>>
    BY <1>1, ThreadFacts DEF TypeOK
  <2>2. hand'[t].from = p /\ hand'[t].ts = header.ts
    BY <2>1
  <2>3. \A b \in BOOLEAN : \A h : h = [from |-> p, ts |-> header.ts, hasText |-> header.hasText,
                                      id |-> got.id, text |-> NoId, astray |-> b] => h.astray = b
    OBVIOUS
  <2>4. hand'[t].astray = (got.part # "header")
    BY <2>1, <2>3, Zenon
  <2>5. \A q : Holds(t, q)' => q = p /\ got.part = "header"
    BY <2>2, <2>4 DEF Holds
  <2>6. got.part = "header" => header.ts = got.ts
    BY <1>1 DEF HeadersIn
  <2>7. QED
    BY <2>1, <2>2, <2>5, <2>6
<1>3. Home[t] \in Process /\ got = net[<<p, Home[t]>>][r] /\ r \in DOMAIN net[<<p, Home[t]>>]
  BY <1>1, TakeFacts, ThreadFacts, Zenon DEF Queue
<1>4. FewerHeaders
  BY <1>1, TakeHeaders
<1>5. \A i \in HeadersOf(p, Home[t])' : \E k \in HeadersOf(p, Home[t]) \ {r} :
        net'[<<p, Home[t]>>][i].ts = net[<<p, Home[t]>>][k].ts
  <2>1. \A i, j \in HeadersOf(p, Home[t])' :
          \E k, l \in HeadersOf(p, Home[t]) \ {Place(t, p)} :
            /\ Queue(t, p)'[i] = Queue(t, p)[k] /\ Queue(t, p)'[j] = Queue(t, p)[l]
            /\ k = l => i = j
    <3>1. Take(t, p)
      BY <1>1
    <3>2. QED
      BY <3>1, TakeHeaders
  <2>2. QED
    BY <1>1, <2>1 DEF Queue
<1>6. ASSUME got.part = "header", p \notin wrapped
      PROVE  /\ got.ts <= currentLamportTime[p]
             /\ \A k \in HeadersOf(p, Home[t]) : net[<<p, Home[t]>>][k].ts = got.ts => k = r
             /\ \A u \in Thread : Home[u] = p /\ Owes(u, Home[t]) => hand[u].ts # got.ts
             /\ \A u \in Thread : Holds(u, p) /\ Home[u] = Home[t] => hand[u].ts # got.ts
  <2>1. r \in HeadersOf(p, Home[t])
    BY <1>3, <1>6 DEF HeadersOf
  <2>2. QED
    BY <1>3, <1>6, <2>1, HeaderFacts
<1>7. ASSUME NEW u \in Thread \ {t}
      PROVE  (Owes(u, Home[t])' <=> Owes(u, Home[t])) /\ (Holds(u, p)' <=> Holds(u, p))
  BY <1>1, <1>2 DEF Owes, Holds
<1>8. JustReceived(t)'
  <2>1. SUFFICES ASSUME Holds(t, p)', p \notin wrapped PROVE JustReceived(t)'
    BY <1>1, <1>2 DEF JustReceived
  <2>h. /\ \A k \in HeadersOf(p, Home[t]) : net[<<p, Home[t]>>][k].ts = got.ts => k = r
        /\ \A u \in Thread : Home[u] = p /\ Owes(u, Home[t]) => hand[u].ts # got.ts
        /\ \A u \in Thread : Holds(u, p) /\ Home[u] = Home[t] => hand[u].ts # got.ts
    BY <1>2, <1>6, <2>1
  <2>u. \A u \in Thread \ {t} : hand'[u].ts = hand[u].ts
    BY <1>2
  <2>2. \A i \in HeadersOf(p, Home[t])' : net'[<<p, Home[t]>>][i].ts # got.ts
    BY <1>5, <2>h
  <2>3. ASSUME NEW u \in Thread \ {t}, Owes(u, Home[t])', Home[u] = p PROVE hand'[u].ts # got.ts
    <3>1. Owes(u, Home[t])
      BY <1>7, <2>3
    <3>2. QED
      BY <2>3, <2>h, <2>u, <3>1
  <2>4. ASSUME NEW u \in Thread \ {t}, Holds(u, p)', Home[u] = Home[t] PROVE hand'[u].ts # got.ts
    <3>1. Holds(u, p)
      BY <1>7, <2>4
    <3>2. QED
      BY <2>4, <2>h, <2>u, <3>1
  <2>5. QED
    BY <1>1, <1>2, <1>6, <2>1, <2>2, <2>3, <2>4 DEF JustReceived
<1>9. todo[t] = <<>> /\ UNCHANGED todo /\ ClocksAdvance
  BY <1>1, Receiving, ClocksStill
<1>10. \A q \in Process \ wrapped' : Holds(t, q)' =>
         \A u \in Thread \ {t} : Holds(u, q) /\ Home[u] = Home[t] => hand[u].ts # hand'[t].ts
  BY <1>1, <1>2, <1>6
<1>11. QED
  BY <1>2, <1>4, <1>8, <1>9, <1>10, DifferFrame

\* Every header is to be sent once to each recipient.
LEMMA FramesDiffer ==
  ASSUME NEW t \in Thread, NEW order \in Orders(t), NEW hasText \in BOOLEAN
  PROVE  LET f == Frames(order, hasText) IN \A i, j \in DOMAIN f : f[i] = f[j] => i = j
<1>1. /\ order \in Seq(Process) /\ order # <<>>
      /\ \A i, j \in DOMAIN order : order[i] = order[j] => i = j
  BY OrdersFacts
<1>2. PICK f : f = Frames(order, hasText)
  OBVIOUS
<1>3. f \in Seq(Process \X {"header", "body"})
  BY <1>1, <1>2, FramesFacts, Zenon
<1>4. \A i \in DOMAIN f :
        f[i][2] = "header" => \E a \in DOMAIN order : /\ f[i] = <<order[a], "header">>
                                                      /\ hasText => i = 2 * a - 1
                                                      /\ ~hasText => i = a
  BY <1>1, <1>2, FramesFacts, Zenon
<1>5. \A i \in DOMAIN f :
        f[i][2] = "body" => \E a \in DOMAIN order : f[i] = <<order[a], "body">> /\ hasText /\ i = 2 * a
  BY <1>1, <1>2, FramesFacts, Zenon
<1>6. ASSUME NEW i \in DOMAIN f, NEW j \in DOMAIN f, f[i] = f[j] PROVE i = j
  <2>1. f[i][2] \in {"header", "body"} /\ f[j][2] = f[i][2] /\ f[j][1] = f[i][1]
    BY <1>3, <1>6
  <2>2. CASE f[i][2] = "header"
    <3>1. PICK a \in DOMAIN order : f[i] = <<order[a], "header">> /\ i = IF hasText THEN 2 * a - 1 ELSE a
      BY <1>4, <2>2
    <3>2. PICK b \in DOMAIN order : f[j] = <<order[b], "header">> /\ j = IF hasText THEN 2 * b - 1 ELSE b
      BY <1>4, <2>1, <2>2
    <3>3. a = b
      BY <1>1, <2>1, <3>1, <3>2
    <3>4. QED
      BY <3>1, <3>2, <3>3
  <2>3. CASE f[i][2] = "body"
    <3>1. PICK a \in DOMAIN order : f[i] = <<order[a], "body">> /\ i = 2 * a
      BY <1>5, <2>3
    <3>2. PICK b \in DOMAIN order : f[j] = <<order[b], "body">> /\ j = 2 * b
      BY <1>5, <2>1, <2>3
    <3>3. a = b
      BY <1>1, <2>1, <3>1, <3>2
    <3>4. QED
      BY <3>1, <3>2, <3>3
  <2>4. QED
    BY <2>1, <2>2, <2>3
<1>7. QED
  BY <1>2, <1>6

\* A send begins: its timestamp is above all others of the process.
LEMMA BeginSendDiffer ==
  ASSUME IndInv, TimestampsDiffer, NEW t \in Thread, NEW order \in Orders(t), NEW hasText \in BOOLEAN,
         BeginSend(t, order, hasText)
  PROVE  TimestampsDiffer'
<1>1. PICK f :
        /\ f = Frames(order, hasText)
        /\ SetClock(t, After(Clock(t)))
        /\ hand' = [hand EXCEPT ![t] = Stamped(t, hasText)]
        /\ todo' = [todo EXCEPT ![t] = f]
        /\ pc' = [pc EXCEPT ![t] = "sending"]
        /\ UNCHANGED net
  BY DEF BeginSend, StampSend
<1>2. \A i, j \in DOMAIN f : f[i] = f[j] => i = j
  BY <1>1, FramesDiffer, Zenon
<1>3. TypeOK /\ Home[t] \in Process /\ Clock(t) \in LamportTime /\ Clock(t) \in Nat
  BY ThreadFacts, TimeFacts
<1>4. /\ pc'[t] = "sending" /\ todo'[t] = f /\ hand'[t].ts = After(Clock(t))
      /\ \A u \in Thread \ {t} : UNCHANGED <<pc[u], hand[u], todo[u]>>
  BY <1>1, <1>3 DEF TypeOK, Stamped
<1>a. After(Clock(t)) \in LamportTime /\ (After(Clock(t)) # 0 => After(Clock(t)) = Clock(t) + 1)
  BY <1>3, TimeFacts
<1>b. After(Clock(t)) # 0 => After(Clock(t)) > Clock(t)
  BY <1>3, <1>a
<1>c. ClocksAdvance /\ (Home[t] \in wrapped' <=> After(Clock(t)) = 0 \/ Home[t] \in wrapped)
  BY <1>1, <1>a, <1>b, SetsClock
<1>d. Home[t] \notin wrapped' => hand'[t].ts = currentLamportTime[Home[t]] + 1
  BY <1>4, <1>a, <1>c DEF Clock
<1>5. /\ \A p \in Process : currentLamportTime[p] \in Nat
      /\ \A p \in Process \ wrapped' : /\ p \notin wrapped /\ currentLamportTime'[p] \in Nat
                                       /\ currentLamportTime[p] <= currentLamportTime'[p]
  <2>1. \A p \in Process : currentLamportTime[p] \in Nat
    BY <1>3, TimeFacts DEF TypeOK
  <2>2. QED
    BY <1>c, <2>1 DEF ClocksAdvance
<1>6. \A p, q \in Process : HeadersOf(p, q)' = HeadersOf(p, q)
  BY <1>1, SameHeaders
<1>7. OnNetwork'
  <2>1. ASSUME NEW p \in Process \ wrapped', NEW q \in Process, NEW i \in HeadersOf(p, q)'
        PROVE  /\ net'[<<p, q>>][i].ts <= currentLamportTime'[p]
               /\ \A j \in HeadersOf(p, q)' : net'[<<p, q>>][i].ts = net'[<<p, q>>][j].ts => i = j
    <3>1. i \in HeadersOf(p, q) /\ net' = net /\ HeadersOf(p, q)' = HeadersOf(p, q)
      BY <1>1, <1>6, <2>1
    <3>2. /\ net[<<p, q>>][i].ts \in Nat /\ net[<<p, q>>][i].ts <= currentLamportTime[p]
          /\ \A j \in HeadersOf(p, q) : net[<<p, q>>][i].ts = net[<<p, q>>][j].ts => i = j
      BY <1>5, <3>1, HeaderFacts
    <3>3. QED
      BY <1>5, <3>1, <3>2
  <2>2. QED
    BY <2>1 DEF OnNetwork
<1>8. YetToSend(t)'
  <2>1. ASSUME NEW q \in Process, NEW i \in HeadersOf(Home[t], q), Home[t] \notin wrapped'
        PROVE  net[<<Home[t], q>>][i].ts # hand'[t].ts
    <3>1. net[<<Home[t], q>>][i].ts \in Nat /\ net[<<Home[t], q>>][i].ts <= Clock(t)
      BY <1>3, <1>5, <2>1, HeaderFacts DEF Clock
    <3>2. QED
      BY <1>3, <1>d, <2>1, <3>1 DEF Clock
  <2>2. QED
    BY <1>1, <1>2, <1>3, <1>4, <1>6, <2>1 DEF YetToSend
<1>9. ASSUME NEW u \in Thread \ {t} PROVE YetToSend(u)'
  <2>1. YetToSend(u) /\ Home[u] \in Process
    BY ThreadFacts DEF TimestampsDiffer
  <2>2. Home[u] \notin wrapped' => Home[u] \notin wrapped
    BY <1>5, <2>1
  <2>3. \A q : Owes(u, q)' <=> Owes(u, q)
    BY <1>4 DEF Owes
  <2>4. QED
    BY <1>1, <1>4, <1>6, <2>1, <2>2, <2>3 DEF YetToSend
<1>10. JustReceived(t)'
  BY <1>4 DEF JustReceived, Holds
<1>11. ASSUME NEW u \in Thread \ {t} PROVE JustReceived(u)'
  <2>1. JustReceived(u) /\ Home[u] \in Process /\ UNCHANGED <<pc[u], hand[u]>>
    BY <1>4, ThreadFacts DEF TimestampsDiffer
  <2>2. SUFFICES ASSUME NEW p \in Process \ wrapped', Holds(u, p)'
                 PROVE  /\ hand'[u].ts <= currentLamportTime'[p]
                        /\ \A i \in HeadersOf(p, Home[u])' : net'[<<p, Home[u]>>][i].ts # hand'[u].ts
                        /\ \A v \in Thread \ {u} :
                             /\ Owes(v, Home[u])' /\ Home[v] = p => hand'[v].ts # hand'[u].ts
                             /\ Holds(v, p)' /\ Home[v] = Home[u] => hand'[v].ts # hand'[u].ts
    BY DEF JustReceived
  <2>3. Holds(u, p) /\ p \in Process \ wrapped
    BY <1>5, <2>1, <2>2 DEF Holds
  <2>4. hand[u].ts \in Nat /\ hand[u].ts <= currentLamportTime[p] /\ hand[u].ts <= currentLamportTime'[p]
    <3>1. hand[u].ts \in Nat /\ hand[u].ts <= currentLamportTime[p]
      BY <2>1, <2>3, ThreadFacts, TimeFacts DEF JustReceived, Packet
    <3>2. QED
      BY <1>5, <3>1
  <2>5. \A i \in HeadersOf(p, Home[u])' : net'[<<p, Home[u]>>][i].ts # hand[u].ts
    BY <1>1, <1>6, <2>1, <2>3 DEF JustReceived
  <2>6. ASSUME NEW v \in Thread \ {u}, Owes(v, Home[u])', Home[v] = p PROVE hand'[v].ts # hand[u].ts
    <3>1. CASE v = t
      <4>1. hand'[v].ts = currentLamportTime[p] + 1
        BY <1>d, <2>2, <2>6, <3>1
      <4>2. QED
        BY <1>5, <2>4, <4>1
    <3>2. CASE v # t
      BY <1>4, <2>1, <2>3, <2>6, <3>2 DEF JustReceived, Owes
    <3>3. QED
      BY <3>1, <3>2
  <2>7. ASSUME NEW v \in Thread \ {u}, Holds(v, p)', Home[v] = Home[u]
        PROVE  hand'[v].ts # hand[u].ts
    <3>1. v # t
      BY <1>4, <2>7 DEF Holds
    <3>2. Holds(v, p) /\ UNCHANGED hand[v]
      BY <1>4, <2>7, <3>1 DEF Holds
    <3>3. QED
      BY <2>1, <2>3, <2>7, <3>2 DEF JustReceived
  <2>8. QED
    BY <2>1, <2>4, <2>5, <2>6, <2>7
<1>12. QED
  BY <1>7, <1>8, <1>9, <1>10, <1>11 DEF TimestampsDiffer

\* One MPI_Send adds the header it makes, if it makes one, and no other.
LEMMA SentHeaders ==
  ASSUME IndInv, NEW t \in Thread, SendNext(t)
  PROVE  /\ \A p, q \in Process : \A i \in HeadersOf(p, q)' :
              \/ i \in HeadersOf(p, q) /\ net'[<<p, q>>][i] = net[<<p, q>>][i]
              \/ /\ p = Home[t] /\ q = To(t) /\ Part(t) = "header"
                 /\ i = Len(net[<<p, q>>]) + 1 /\ net'[<<p, q>>][i].ts = hand[t].ts
         /\ \A p, q \in Process : \A i \in HeadersOf(p, q) :
              i \in HeadersOf(p, q)' /\ net'[<<p, q>>][i] = net[<<p, q>>][i]
         /\ \A q \in Process : q = To(t) /\ Part(t) = "header" =>
              \E i \in HeadersOf(Home[t], q)' : net'[<<Home[t], q>>][i].ts = hand[t].ts
<1>1. PICK to, s, more, n :
        /\ to = To(t) /\ s = net[<<Home[t], to>>] /\ more = net'[<<Home[t], to>>] /\ n = Len(s)
  OBVIOUS
<1>2. /\ to \in Process /\ DOMAIN s = 1 .. n /\ DOMAIN more = 1 .. n + 1 /\ n \in Nat
      /\ \A i \in DOMAIN s : more[i] = s[i]
  BY <1>1, SendFacts, Zenon
<1>3. \A d \in Process \X Process : d # <<Home[t], to>> => net'[d] = net[d]
  BY <1>1, SendFacts, Zenon
<1>4. more[n + 1] = NextMessage(t)
  BY <1>1, SendFacts, Zenon
<1>5. more[n + 1].part = Part(t) /\ more[n + 1].ts = hand[t].ts /\ Home[t] \in Process
  BY <1>4, ThreadFacts DEF NextMessage, Part
<1>6. ASSUME NEW p \in Process, NEW q \in Process, <<p, q>> # <<Home[t], to>>
      PROVE  net'[<<p, q>>] = net[<<p, q>>] /\ HeadersOf(p, q)' = HeadersOf(p, q)
  BY <1>3, <1>6 DEF HeadersOf
<1>7. /\ HeadersOf(Home[t], to) = {i \in DOMAIN s : s[i].part = "header"}
      /\ HeadersOf(Home[t], to)' = {i \in DOMAIN more : more[i].part = "header"}
  BY <1>1 DEF HeadersOf
<1>8. ASSUME NEW p \in Process, NEW q \in Process, NEW i \in HeadersOf(p, q)'
      PROVE  \/ i \in HeadersOf(p, q) /\ net'[<<p, q>>][i] = net[<<p, q>>][i]
             \/ /\ p = Home[t] /\ q = To(t) /\ Part(t) = "header"
                /\ i = Len(net[<<p, q>>]) + 1 /\ net'[<<p, q>>][i].ts = hand[t].ts
  <2>1. CASE p = Home[t] /\ q = to
    <3>1. i \in DOMAIN more /\ more[i].part = "header"
      BY <1>7, <1>8, <2>1
    <3>2. i \in DOMAIN s \/ i = n + 1
      BY <1>2, <3>1
    <3>3. QED
      BY <1>1, <1>2, <1>5, <1>7, <2>1, <3>1, <3>2
  <2>2. CASE <<p, q>> # <<Home[t], to>>
    BY <1>6, <1>8, <2>2
  <2>3. QED
    BY <2>1, <2>2
<1>9. ASSUME NEW p \in Process, NEW q \in Process, NEW i \in HeadersOf(p, q)
      PROVE  i \in HeadersOf(p, q)' /\ net'[<<p, q>>][i] = net[<<p, q>>][i]
  <2>1. CASE p = Home[t] /\ q = to
    <3>1. i \in DOMAIN s /\ s[i].part = "header" /\ i \in DOMAIN more
      BY <1>2, <1>7, <1>9, <2>1
    <3>2. QED
      BY <1>1, <1>2, <1>7, <2>1, <3>1
  <2>2. CASE <<p, q>> # <<Home[t], to>>
    BY <1>6, <1>9, <2>2
  <2>3. QED
    BY <2>1, <2>2
<1>10. Part(t) = "header" => \E i \in HeadersOf(Home[t], to)' : net'[<<Home[t], to>>][i].ts = hand[t].ts
  BY <1>1, <1>2, <1>5, <1>7
<1>11. QED
  BY <1>1, <1>8, <1>9, <1>10, Zenon

\* And the send has one message less to make.
LEMMA SentRest ==
  ASSUME IndInv, NEW t \in Thread, SendNext(t)
  PROVE  /\ 1 \in DOMAIN todo[t] /\ todo[t][1] = <<To(t), Part(t)>>
         /\ \A i \in DOMAIN todo'[t] :
              i \in Nat /\ i >= 1 /\ i + 1 \in DOMAIN todo[t] /\ todo'[t][i] = todo[t][i + 1]
         /\ \A i \in DOMAIN todo[t] :
              i \in Nat /\ (i > 1 => i - 1 \in DOMAIN todo'[t] /\ todo'[t][i - 1] = todo[t][i])
         /\ \A u \in Thread \ {t} : UNCHANGED todo[u]
         /\ UNCHANGED <<currentLamportTime, wrapped, pc, hand>>
         /\ pc[t] = "sending" /\ hand[t].ts = Clock(t) /\ hand[t].from = Home[t]
<1>1. /\ todo[t] # <<>> /\ todo' = [todo EXCEPT ![t] = Tail(@)]
      /\ UNCHANGED <<currentLamportTime, wrapped, pc, hand>>
  BY DEF SendNext
<1>2. todo \in [Thread -> Seq(Process \X {"header", "body"})] /\ todo[t] \in Seq(Process \X {"header", "body"})
  BY ThreadFacts DEF TypeOK
<1>3. todo'[t] = Tail(todo[t]) /\ \A u \in Thread \ {t} : UNCHANGED todo[u]
  BY <1>1, <1>2
<1>4. Head(todo[t]) = <<To(t), Part(t)>>
  BY SendFacts, Zenon
<1>5. PICK a, b : a = todo[t] /\ b = todo'[t]
  OBVIOUS
<1>6. a \in Seq(Process \X {"header", "body"}) /\ a # <<>> /\ b = Tail(a)
  BY <1>1, <1>2, <1>3, <1>5
<1>7. /\ 1 \in DOMAIN a /\ Head(a) = a[1]
      /\ \A i \in DOMAIN b : i \in Nat /\ i >= 1 /\ i + 1 \in DOMAIN a /\ b[i] = a[i + 1]
      /\ \A i \in DOMAIN a : i \in Nat /\ (i > 1 => i - 1 \in DOMAIN b /\ b[i - 1] = a[i])
  BY <1>6, Shortened
<1>8. pc[t] = "sending" /\ hand[t].ts = Clock(t) /\ hand[t].from = Home[t]
  BY <1>1, ThreadFacts DEF SendsInTurn
<1>9. QED
  BY <1>1, <1>3, <1>4, <1>5, <1>7, <1>8

\* So it owes what it did, but for the header it has sent.
LEMMA SentOwes ==
  ASSUME IndInv, TimestampsDiffer, NEW t \in Thread, SendNext(t)
  PROVE  /\ \A u \in Thread, q \in Process : Owes(u, q)' => Owes(u, q)
         /\ \A u \in Thread, q \in Process :
              Owes(u, q) => Owes(u, q)' \/ (u = t /\ q = To(t) /\ Part(t) = "header")
         /\ \A q \in Process : q = To(t) /\ Part(t) = "header" => Owes(t, q) /\ ~Owes(t, q)'
<1>1. PICK a, b : a = todo[t] /\ b = todo'[t]
  OBVIOUS
<1>2. 1 \in DOMAIN a /\ a[1] = <<To(t), Part(t)>> /\ \A u \in Thread \ {t} : UNCHANGED todo[u]
  BY <1>1, SentRest
<1>3. \A i \in DOMAIN b : i \in Nat /\ i >= 1 /\ i + 1 \in DOMAIN a /\ b[i] = a[i + 1]
  BY <1>1, SentRest
<1>4. \A i \in DOMAIN a : i \in Nat /\ (i > 1 => i - 1 \in DOMAIN b /\ b[i - 1] = a[i])
  BY <1>1, SentRest
<1>5. \A i \in DOMAIN a : i = 1 \/ i > 1
  <2>1. a \in Seq(Process \X {"header", "body"})
    BY <1>1, ThreadFacts
  <2>2. QED
    BY <2>1
<1>6. \A i, j \in DOMAIN a : a[i] = a[j] => i = j
  BY <1>1 DEF TimestampsDiffer, YetToSend
<1>7. \A q : /\ Owes(t, q) <=> \E i \in DOMAIN a : a[i] = <<q, "header">>
             /\ Owes(t, q)' <=> \E i \in DOMAIN b : b[i] = <<q, "header">>
  BY <1>1 DEF Owes
<1>8. \A u \in Thread \ {t} : \A q : Owes(u, q)' <=> Owes(u, q)
  BY <1>2 DEF Owes
<1>9. \A q : Owes(t, q)' => Owes(t, q)
  BY <1>3, <1>7
<1>10. ASSUME NEW q \in Process, Owes(t, q) PROVE Owes(t, q)' \/ (q = To(t) /\ Part(t) = "header")
  <2>1. PICK i \in DOMAIN a : a[i] = <<q, "header">>
    BY <1>7, <1>10
  <2>2. CASE i = 1
    BY <1>2, <2>1, <2>2
  <2>3. CASE i > 1
    BY <1>4, <1>7, <2>1, <2>3
  <2>4. QED
    BY <1>5, <2>2, <2>3
<1>11. ASSUME NEW q \in Process, q = To(t), Part(t) = "header" PROVE Owes(t, q) /\ ~Owes(t, q)'
  <2>1. Owes(t, q)
    BY <1>2, <1>7, <1>11
  <2>2. ASSUME NEW i \in DOMAIN b, b[i] = <<q, "header">> PROVE FALSE
    <3>1. i + 1 \in DOMAIN a /\ a[i + 1] = a[1] /\ i \in Nat /\ i >= 1
      BY <1>2, <1>3, <1>11, <2>2
    <3>2. i + 1 = 1
      BY <1>2, <1>6, <3>1
    <3>3. QED
      BY <3>1, <3>2
  <2>3. QED
    BY <1>7, <2>1, <2>2
<1>12. QED
  BY <1>8, <1>9, <1>10, <1>11

\* One MPI_Send: the timestamp of the header is new to the channel.
LEMMA SendNextDiffer ==
  ASSUME IndInv, TimestampsDiffer, NEW t \in Thread, SendNext(t)
  PROVE  TimestampsDiffer'
<1>1. PICK to, n : to = To(t) /\ n = Len(net[<<Home[t], to>>]) + 1
  OBVIOUS
<1>2. \A p, q \in Process : \A i \in HeadersOf(p, q)' :
        \/ i \in HeadersOf(p, q) /\ net'[<<p, q>>][i] = net[<<p, q>>][i]
        \/ /\ p = Home[t] /\ q = to /\ Part(t) = "header"
           /\ i = n /\ net'[<<p, q>>][i].ts = hand[t].ts
  <2>1. \A p, q \in Process : \A i \in HeadersOf(p, q)' :
          \/ i \in HeadersOf(p, q) /\ net'[<<p, q>>][i] = net[<<p, q>>][i]
          \/ /\ p = Home[t] /\ q = To(t) /\ Part(t) = "header"
             /\ i = Len(net[<<p, q>>]) + 1 /\ net'[<<p, q>>][i].ts = hand[t].ts
    BY SentHeaders, Zenon
  <2>2. QED
    BY <1>1, <2>1
<1>3. /\ UNCHANGED <<currentLamportTime, wrapped, pc, hand>> /\ \A u \in Thread \ {t} : UNCHANGED todo[u]
      /\ pc[t] = "sending" /\ hand[t].ts = currentLamportTime[Home[t]] /\ Home[t] \in Process
      /\ hand[t].ts \in Nat
  BY SentRest, ThreadFacts, TimeFacts DEF Clock
<1>4. /\ to \in Process
      /\ \A u \in Thread : Home[u] = Home[t] /\ todo[u] # <<>> => u = t
  <2>1. to \in Process
    BY <1>1, SendFacts, Zenon
  <2>2. \A u \in Thread : Home[u] = Home[t] /\ todo[u] # <<>> => u = t
    BY SendFacts, Zenon
  <2>3. QED
    BY <2>1, <2>2
<1>5. /\ \A u \in Thread, q \in Process : Owes(u, q)' => Owes(u, q)
      /\ Part(t) = "header" => Owes(t, to) /\ ~Owes(t, to)'
  <2>1. \A q \in Process : q = To(t) /\ Part(t) = "header" => Owes(t, q) /\ ~Owes(t, q)'
    BY SentOwes
  <2>2. \A u \in Thread, q \in Process : Owes(u, q)' => Owes(u, q)
    BY SentOwes
  <2>3. Part(t) = "header" => Owes(t, to) /\ ~Owes(t, to)'
    BY <1>1, <1>4, <2>1
  <2>4. QED
    BY <2>2, <2>3
<1>6. \A u \in Thread, q \in Process : Owes(u, q) => todo[u] # <<>>
  <2>1. ASSUME NEW u \in Thread, NEW q \in Process, Owes(u, q), todo[u] = <<>> PROVE FALSE
    <3>1. DOMAIN todo[u] = {}
      BY <2>1
    <3>2. QED
      BY <2>1, <3>1 DEF Owes
  <2>2. QED
    BY <2>1
<1>7. OnNetwork'
  <2>1. ASSUME NEW p \in Process \ wrapped, NEW q \in Process, NEW i \in HeadersOf(p, q)'
        PROVE  net'[<<p, q>>][i].ts <= currentLamportTime'[p]
    <3>1. CASE i \in HeadersOf(p, q) /\ net'[<<p, q>>][i] = net[<<p, q>>][i]
      BY <1>3, <3>1, HeaderFacts
    <3>2. CASE p = Home[t] /\ net'[<<p, q>>][i].ts = hand[t].ts
      BY <1>3, <3>2
    <3>3. QED
      BY <1>2, <2>1, <3>1, <3>2
  <2>2. ASSUME NEW p \in Process \ wrapped, NEW q \in Process,
               NEW i \in HeadersOf(p, q)', NEW j \in HeadersOf(p, q)',
               net'[<<p, q>>][i].ts = net'[<<p, q>>][j].ts
        PROVE  i = j
    <3>1. ASSUME p = Home[t], q = to, Part(t) = "header", NEW k \in HeadersOf(p, q)
          PROVE  net[<<p, q>>][k].ts # hand[t].ts
      BY <1>3, <1>4, <1>5, <3>1, HeaderFacts
    <3>2. CASE i \in HeadersOf(p, q) /\ net'[<<p, q>>][i] = net[<<p, q>>][i]
      <4>1. CASE j \in HeadersOf(p, q) /\ net'[<<p, q>>][j] = net[<<p, q>>][j]
        BY <2>2, <3>2, <4>1, HeaderFacts
      <4>2. CASE p = Home[t] /\ q = to /\ Part(t) = "header" /\ net'[<<p, q>>][j].ts = hand[t].ts
        BY <2>2, <3>1, <3>2, <4>2
      <4>3. QED
        BY <1>2, <2>2, <4>1, <4>2
    <3>3. CASE p = Home[t] /\ q = to /\ Part(t) = "header" /\ i = n /\ net'[<<p, q>>][i].ts = hand[t].ts
      <4>1. CASE j \in HeadersOf(p, q) /\ net'[<<p, q>>][j] = net[<<p, q>>][j]
        BY <2>2, <3>1, <3>3, <4>1
      <4>2. CASE j = n
        BY <3>3, <4>2
      <4>3. QED
        BY <1>2, <2>2, <4>1, <4>2
    <3>4. QED
      BY <1>2, <2>2, <3>2, <3>3
  <2>3. QED
    BY <1>3, <2>1, <2>2 DEF OnNetwork
<1>8. ASSUME NEW u \in Thread PROVE YetToSend(u)'
  <2>1. YetToSend(u) /\ Home[u] \in Process
    BY ThreadFacts DEF TimestampsDiffer
  <2>2. \A i, j \in DOMAIN todo'[u] : todo'[u][i] = todo'[u][j] => i = j
    <3>1. CASE u = t
      <4>1. \A i \in DOMAIN todo'[t] : i \in Nat /\ i + 1 \in DOMAIN todo[t] /\ todo'[t][i] = todo[t][i + 1]
        BY SentRest
      <4>2. \A i, j \in DOMAIN todo[t] : todo[t][i] = todo[t][j] => i = j
        BY <2>1, <3>1 DEF YetToSend
      <4>3. ASSUME NEW i \in DOMAIN todo'[t], NEW j \in DOMAIN todo'[t], todo'[t][i] = todo'[t][j]
            PROVE  i = j
        <5>1. i + 1 = j + 1 /\ i \in Nat /\ j \in Nat
          BY <4>1, <4>2, <4>3
        <5>2. QED
          BY <5>1
      <4>4. QED
        BY <3>1, <4>3
    <3>2. CASE u # t
      BY <1>3, <2>1, <3>2 DEF YetToSend
    <3>3. QED
      BY <3>1, <3>2
  <2>3. ASSUME NEW q \in Process, Home[u] \notin wrapped, Owes(u, q)', NEW i \in HeadersOf(Home[u], q)'
        PROVE  net'[<<Home[u], q>>][i].ts # hand[u].ts
    <3>1. Owes(u, q)
      BY <1>5, <2>3
    <3>2. CASE i \in HeadersOf(Home[u], q) /\ net'[<<Home[u], q>>][i] = net[<<Home[u], q>>][i]
      BY <2>1, <2>3, <3>1, <3>2, HeaderFacts
    <3>3. CASE Home[u] = Home[t] /\ q = to /\ Part(t) = "header"
      <4>1. u = t
        BY <1>4, <1>6, <3>1, <3>3
      <4>2. QED
        BY <1>5, <2>3, <3>3, <4>1
    <3>4. QED
      BY <1>2, <2>1, <2>3, <3>2, <3>3
  <2>4. QED
    BY <1>3, <2>2, <2>3 DEF YetToSend
<1>9. ASSUME NEW u \in Thread PROVE JustReceived(u)'
  <2>1. JustReceived(u) /\ Home[u] \in Process
    BY ThreadFacts DEF TimestampsDiffer
  <2>2. SUFFICES ASSUME NEW p \in Process \ wrapped, Holds(u, p)
                 PROVE  /\ hand[u].ts <= currentLamportTime[p]
                        /\ \A i \in HeadersOf(p, Home[u])' : net'[<<p, Home[u]>>][i].ts # hand[u].ts
                        /\ \A v \in Thread \ {u} :
                             /\ Owes(v, Home[u])' /\ Home[v] = p => hand[v].ts # hand[u].ts
                             /\ Holds(v, p) /\ Home[v] = Home[u] => hand[v].ts # hand[u].ts
    BY <1>3 DEF JustReceived, Holds
  <2>4. ASSUME NEW i \in HeadersOf(p, Home[u])' PROVE net'[<<p, Home[u]>>][i].ts # hand[u].ts
    <3>1. CASE i \in HeadersOf(p, Home[u]) /\ net'[<<p, Home[u]>>][i] = net[<<p, Home[u]>>][i]
      BY <2>1, <2>2, <3>1, HeaderFacts
    <3>2. CASE p = Home[t] /\ Home[u] = to /\ Part(t) = "header" /\ net'[<<p, Home[u]>>][i].ts = hand[t].ts
      <4>1. u # t /\ Owes(t, Home[u])
        BY <1>3, <1>5, <2>2, <3>2 DEF Holds
      <4>2. QED
        BY <2>1, <2>2, <3>2, <4>1 DEF JustReceived
    <3>3. QED
      BY <1>2, <2>1, <2>4, <3>1, <3>2
  <2>5. \A v \in Thread \ {u} : Owes(v, Home[u])' /\ Home[v] = p => hand[v].ts # hand[u].ts
    BY <1>5, <2>1, <2>2 DEF JustReceived
  <2>6. /\ hand[u].ts <= currentLamportTime[p]
        /\ \A v \in Thread \ {u} : Holds(v, p) /\ Home[v] = Home[u] => hand[v].ts # hand[u].ts
    BY <2>1, <2>2 DEF JustReceived
  <2>7. QED
    BY <2>4, <2>5, <2>6
<1>10. QED
  BY <1>7, <1>8, <1>9 DEF TimestampsDiffer

\* Every step keeps the second invariant.
LEMMA NextDiffer == IndInv /\ TimestampsDiffer /\ [Next]_vars => TimestampsDiffer'
<1> SUFFICES ASSUME IndInv, TimestampsDiffer, [Next]_vars PROVE TimestampsDiffer'
  OBVIOUS
<1>1. CASE UNCHANGED vars
  <2>1. \A p, q \in Process : HeadersOf(p, q)' = HeadersOf(p, q)
    BY <1>1, SameHeaders DEF vars
  <2>2. OnNetwork'
    <3>1. OnNetwork /\ net' = net /\ currentLamportTime' = currentLamportTime /\ wrapped' = wrapped
      BY <1>1 DEF TimestampsDiffer, vars
    <3>2. ASSUME NEW p \in Process \ wrapped, NEW q \in Process, NEW i \in HeadersOf(p, q)
          PROVE  /\ net[<<p, q>>][i].ts <= currentLamportTime[p]
                 /\ \A j \in HeadersOf(p, q) : net[<<p, q>>][i].ts = net[<<p, q>>][j].ts => i = j
      BY <3>1, <3>2 DEF OnNetwork
    <3>3. ASSUME NEW p \in Process \ wrapped', NEW q \in Process, NEW i \in HeadersOf(p, q)'
          PROVE  /\ net'[<<p, q>>][i].ts <= currentLamportTime'[p]
                 /\ \A j \in HeadersOf(p, q)' : net'[<<p, q>>][i].ts = net'[<<p, q>>][j].ts => i = j
      BY <2>1, <3>1, <3>2, <3>3
    <3>4. QED
      BY <3>3 DEF OnNetwork
  <2>3. ASSUME NEW t \in Thread PROVE YetToSend(t)' /\ JustReceived(t)'
    <3>1. YetToSend(t) /\ JustReceived(t)
      BY DEF TimestampsDiffer
    <3>2. \A u \in Thread : \A q : Owes(u, q)' <=> Owes(u, q)
      BY <1>1 DEF Owes, vars
    <3>3. YetToSend(t)'
      BY <1>1, <3>1, <3>2 DEF YetToSend, HeadersOf, vars
    <3>4. JustReceived(t)'
      BY <1>1, <3>1, <3>2 DEF JustReceived, Holds, HeadersOf, vars
    <3>5. QED
      BY <3>3, <3>4
  <2>4. QED
    BY <2>2, <2>3 DEF TimestampsDiffer
<1>2. ASSUME NEW t \in Thread, NEW order \in Orders(t), NEW hasText \in BOOLEAN,
             BeginSend(t, order, hasText)
      PROVE  TimestampsDiffer'
  BY <1>2, BeginSendDiffer
<1>3. ASSUME NEW t \in Thread,
             SendNext(t) \/ EndSend(t) \/ ReceiveBody(t) \/ MergeClock(t) \/ BodyTimeout(t)
      PROVE  TimestampsDiffer'
  BY <1>3, SendNextDiffer, ReceiveBodyDiffer, ReturnDiffer
<1>4. ASSUME NEW t \in Thread, NEW p \in Process, ReceiveHeader(t, p) \/ HeaderTimeout(t, p)
      PROVE  TimestampsDiffer'
  BY <1>4, ReceiveHeaderDiffer, ReturnDiffer
<1>5. QED
  BY <1>1, <1>2, <1>3, <1>4 DEF Next, Quiet

\* No two packets in transit between two processes have the same timestamp, and
\* no sender's clock is behind them.
THEOREM PacketsDiffer == Spec => []TimestampsDiffer
<1>1. QED
  BY InitDiffer, NextDiffer, Invariance, PTL DEF Spec

-----------------------------------------------------------------------------
(***************************************************************************)
(* The refinement.                                                         *)
(***************************************************************************)

\* The three places where a packet in transit is.
OnTheNetwork(x) ==
  \E p, q \in Process : \E i \in HeadersOf(p, q) :
    x = [from |-> p, to |-> q, ts |-> net[<<p, q>>][i].ts]

WithSender(x, t) == \E q \in Process : Owes(t, q) /\ x = [from |-> Home[t], to |-> q, ts |-> hand[t].ts]

WithRecipient(x, t) ==
  \E p \in Process : Holds(t, p) /\ x = [from |-> p, to |-> Home[t], ts |-> hand[t].ts]

Underway(x) == OnTheNetwork(x) \/ \E t \in Thread : WithSender(x, t) \/ WithRecipient(x, t)

\* There are no others; those of a process whose clock has wrapped around do not count.
Places == \A x : x \in inTransitBar <=> Underway(x) /\ x.from \notin wrapped

LEMMA InTransit == IndInv => Places
<1> SUFFICES ASSUME IndInv, NEW x
             PROVE  x \in inTransitBar <=> Underway(x) /\ x.from \notin wrapped
  BY DEF Places
<1> DEFINE N == UNION {{[from |-> c[1], to |-> c[2], ts |-> net[c][i].ts] :
                          i \in {j \in DOMAIN net[c] : net[c][j].part = "header"}} :
                       c \in {d \in DOMAIN net : d[1] \notin wrapped}}
           S == UNION {{[from |-> Home[t], to |-> todo[t][i][1], ts |-> hand[t].ts] :
                          i \in {j \in DOMAIN todo[t] : todo[t][j][2] = "header"}} :
                       t \in {u \in Thread : Home[u] \notin wrapped}}
           R == {[from |-> hand[t].from, to |-> Home[t], ts |-> hand[t].ts] :
                          t \in {u \in Thread : \E p \in Process \ wrapped : Holds(u, p)}}
<1>1. inTransitBar = N \cup S \cup R
  BY DEF inTransitBar
<1>2. DOMAIN net = Process \X Process
  BY DEF IndInv, TypeOK
<1>3. x \in N <=> OnTheNetwork(x) /\ x.from \notin wrapped
  <2>1. ASSUME x \in N PROVE OnTheNetwork(x) /\ x.from \notin wrapped
    <3>1. PICK c \in Process \X Process : c[1] \notin wrapped /\ \E i \in DOMAIN net[c] :
            net[c][i].part = "header" /\ x = [from |-> c[1], to |-> c[2], ts |-> net[c][i].ts]
      BY <1>2, <2>1
    <3>2. PICK p \in Process, q \in Process : c = <<p, q>>
      OBVIOUS
    <3>3. QED
      BY <3>1, <3>2 DEF OnTheNetwork, HeadersOf
  <2>2. ASSUME OnTheNetwork(x), x.from \notin wrapped PROVE x \in N
    <3>1. PICK p \in Process, q \in Process : \E i \in HeadersOf(p, q) :
            x = [from |-> p, to |-> q, ts |-> net[<<p, q>>][i].ts]
      BY <2>2 DEF OnTheNetwork
    <3>2. PICK c \in Process \X Process : c = <<p, q>>
      OBVIOUS
    <3>3. PICK i \in {j \in DOMAIN net[c] : net[c][j].part = "header"} :
            x = [from |-> c[1], to |-> c[2], ts |-> net[c][i].ts]
      BY <3>1, <3>2 DEF HeadersOf
    <3>4. c[1] \notin wrapped
      BY <2>2, <3>3
    <3>5. QED
      BY <1>2, <3>3, <3>4
  <2>3. QED
    BY <2>1, <2>2
<1>4. x \in S <=> x.from \notin wrapped /\ \E t \in Thread : WithSender(x, t)
  <2>1. ASSUME NEW t \in Thread
        PROVE  (\E i \in {j \in DOMAIN todo[t] : todo[t][j][2] = "header"} :
                  x = [from |-> Home[t], to |-> todo[t][i][1], ts |-> hand[t].ts])
                 <=> WithSender(x, t)
    <3>1. todo[t] \in Seq(Process \X {"header", "body"})
      BY ThreadFacts
    <3>2. ASSUME NEW i \in DOMAIN todo[t]
          PROVE  todo[t][i][1] \in Process /\ todo[t][i] = <<todo[t][i][1], todo[t][i][2]>>
      BY <3>1, <3>2
    <3>3. QED
      BY <3>2 DEF WithSender, Owes
  <2>2. \A t \in Thread : WithSender(x, t) => x.from = Home[t]
    BY DEF WithSender
  <2>3. ASSUME x \in S PROVE x.from \notin wrapped /\ \E t \in Thread : WithSender(x, t)
    <3>1. PICK t \in Thread : /\ Home[t] \notin wrapped
                              /\ \E i \in {j \in DOMAIN todo[t] : todo[t][j][2] = "header"} :
                                   x = [from |-> Home[t], to |-> todo[t][i][1], ts |-> hand[t].ts]
      BY <2>3
    <3>2. QED
      BY <2>1, <2>2, <3>1
  <2>4. ASSUME x.from \notin wrapped, NEW t \in Thread, WithSender(x, t) PROVE x \in S
    <3>1. Home[t] \notin wrapped
      BY <2>2, <2>4
    <3>2. \E i \in {j \in DOMAIN todo[t] : todo[t][j][2] = "header"} :
            x = [from |-> Home[t], to |-> todo[t][i][1], ts |-> hand[t].ts]
      BY <2>1, <2>4
    <3>3. QED
      BY <3>1, <3>2
  <2>5. QED
    BY <2>3, <2>4
<1>5. x \in R <=> x.from \notin wrapped /\ \E t \in Thread : WithRecipient(x, t)
  <2>1. ASSUME x \in R PROVE x.from \notin wrapped /\ \E t \in Thread : WithRecipient(x, t)
    <3>1. PICK t \in Thread : /\ x = [from |-> hand[t].from, to |-> Home[t], ts |-> hand[t].ts]
                              /\ \E p \in Process \ wrapped : Holds(t, p)
      BY <2>1
    <3>2. QED
      BY <3>1 DEF WithRecipient, Holds
  <2>2. ASSUME x.from \notin wrapped, NEW t \in Thread, WithRecipient(x, t) PROVE x \in R
    <3>1. PICK p \in Process : Holds(t, p) /\ x = [from |-> p, to |-> Home[t], ts |-> hand[t].ts]
      BY <2>2 DEF WithRecipient
    <3>2. p \in Process \ wrapped /\ p = hand[t].from
      BY <2>2, <3>1 DEF Holds
    <3>3. QED
      BY <3>1, <3>2
  <2>3. QED
    BY <2>1, <2>2
<1> HIDE DEF N, S, R
<1>6. QED
  BY <1>1, <1>3, <1>4, <1>5 DEF Underway

\* Nor after the step.
LEMMA InTransitNext == IndInv' => Places'
BY InTransit, PTL

\* Nothing is in transit at first.
LEMMA BarInit == Init => Abstract!Init
<1> SUFFICES ASSUME Init PROVE Abstract!Init
  OBVIOUS
<1>1. IndInv /\ Places
  BY InitIndInv, InTransit
<1>2. ASSUME NEW x PROVE x \notin inTransitBar
  <2>1. ~OnTheNetwork(x)
    <3>1. \A c \in Process \X Process : net[c] = <<>> /\ DOMAIN net[c] = {}
      BY DEF Init
    <3>2. \A p, q \in Process : HeadersOf(p, q) = {}
      BY <3>1 DEF HeadersOf
    <3>3. QED
      BY <3>2 DEF OnTheNetwork
  <2>2. ASSUME NEW t \in Thread PROVE ~WithSender(x, t) /\ ~WithRecipient(x, t)
    <3>1. pc[t] = "idle"
      BY DEF Init
    <3>2. \A q : ~Owes(t, q)
      BY <1>1, <3>1, Receiving
    <3>3. QED
      BY <3>1, <3>2 DEF WithSender, WithRecipient, Holds
  <2>3. QED
    BY <1>1, <2>1, <2>2 DEF Places, Underway
<1>3. inTransitBar = {} /\ {Home[t] : t \in timedOut} = {}
  BY <1>2 DEF Init
<1>4. QED
  BY <1>3 DEF Init, Abstract!Init

\* What a step leaves alone.
LEMMA OthersAlike ==
  ASSUME NEW x, NEW u, UNCHANGED <<pc[u], hand[u], todo[u]>>
  PROVE  (WithSender(x, u)' <=> WithSender(x, u)) /\ (WithRecipient(x, u)' <=> WithRecipient(x, u))
BY DEF WithSender, WithRecipient, Owes, Holds

LEMMA NetworkAlike ==
  ASSUME NEW x, UNCHANGED net
  PROVE  OnTheNetwork(x)' <=> OnTheNetwork(x)
<1>1. \A p, q \in Process : HeadersOf(p, q)' = HeadersOf(p, q)
  BY SameHeaders
<1>2. QED
  BY <1>1 DEF OnTheNetwork

\* A step after which the same packets are under way.
LEMMA SameTransit ==
  ASSUME IndInv, IndInv', UNCHANGED wrapped, \A x : Underway(x)' <=> Underway(x)
  PROVE  UNCHANGED inTransitBar
<1>1. ASSUME NEW x PROVE x \in inTransitBar' <=> x \in inTransitBar
  BY InTransit, InTransitNext DEF Places
<1>2. QED
  BY <1>1

\* The ends of a send.
LEMMA EndSendBar ==
  ASSUME IndInv, NEW t \in Thread, EndSend(t), IndInv'
  PROVE  UNCHANGED <<currentLamportTime, inTransitBar, timedOut, wrapped>>
<1>1. /\ pc[t] = "sending" /\ todo[t] = <<>> /\ Return(t)
      /\ UNCHANGED <<currentLamportTime, net, timedOut, wrapped>>
  BY DEF EndSend
<1>2. /\ pc'[t] = "idle" /\ todo'[t] = <<>>
      /\ \A u \in Thread \ {t} : UNCHANGED <<pc[u], hand[u], todo[u]>>
  BY <1>1, ReturnFacts
<1>3. ASSUME NEW x PROVE Underway(x)' <=> Underway(x)
  <2>1. OnTheNetwork(x)' <=> OnTheNetwork(x)
    BY <1>1, NetworkAlike
  <2>2. \A u \in Thread \ {t} : /\ WithSender(x, u)' <=> WithSender(x, u)
                                /\ WithRecipient(x, u)' <=> WithRecipient(x, u)
    BY <1>2, OthersAlike
  <2>3. ~WithSender(x, t) /\ ~WithSender(x, t)' /\ ~WithRecipient(x, t) /\ ~WithRecipient(x, t)'
    <3>1. DOMAIN todo[t] = {} /\ DOMAIN todo'[t] = {}
      BY <1>1, <1>2
    <3>2. QED
      BY <1>1, <1>2, <3>1 DEF WithSender, WithRecipient, Owes, Holds
  <2>4. QED
    BY <2>1, <2>2, <2>3 DEF Underway
<1>4. inTransitBar' = inTransitBar
  BY <1>1, <1>3, SameTransit
<1>5. QED
  BY <1>1, <1>4

\* Each recipient gets a header.
LEMMA FramesHeaders ==
  ASSUME NEW order \in Seq(Process), order # <<>>, NEW hasText \in BOOLEAN
  PROVE  \A q : (\E i \in DOMAIN Frames(order, hasText) : Frames(order, hasText)[i] = <<q, "header">>)
                  <=> \E j \in DOMAIN order : q = order[j]
<1>1. PICK f : f = Frames(order, hasText)
  OBVIOUS
<1>2. ASSUME NEW i \in DOMAIN f, f[i][2] = "header" PROVE \E j \in DOMAIN order : f[i] = <<order[j], "header">>
  BY <1>1, <1>2, FramesFacts, Zenon
<1>3. \A j \in DOMAIN order :
        /\ hasText => /\ 2 * j - 1 \in DOMAIN f /\ f[2 * j - 1] = <<order[j], "header">>
                      /\ 2 * j \in DOMAIN f /\ f[2 * j] = <<order[j], "body">>
        /\ ~hasText => j \in DOMAIN f /\ f[j] = <<order[j], "header">>
  BY <1>1, FramesFacts, Zenon
<1>4. ASSUME NEW q, NEW i \in DOMAIN f, f[i] = <<q, "header">> PROVE \E j \in DOMAIN order : q = order[j]
  <2>1. f[i][2] = "header" /\ f[i][1] = q
    BY <1>4
  <2>2. PICK j \in DOMAIN order : f[i] = <<order[j], "header">>
    BY <1>2, <1>4, <2>1
  <2>3. QED
    BY <2>1, <2>2
<1>5. ASSUME NEW j \in DOMAIN order PROVE \E i \in DOMAIN f : f[i] = <<order[j], "header">>
  BY <1>3, <1>5
<1>6. QED
  BY <1>1, <1>4, <1>5

\* send() begins: its packets are in transit from now on, or its clock wraps around.
LEMMA BeginSendBar ==
  ASSUME IndInv, NEW t \in Thread, NEW order \in Orders(t), NEW hasText \in BOOLEAN,
         BeginSend(t, order, hasText), IndInv'
  PROVE  \/ \E R \in SUBSET (Process \ {Home[t]}) : Abstract!Send(Home[t], R)
         \/ Abstract!Wrap(Home[t])
<1>1. PICK R : R = {order[j] : j \in DOMAIN order}
  OBVIOUS
<1>2. /\ order \in Seq(Process) /\ order # <<>>
      /\ R \in SUBSET (Process \ {Home[t]})
  BY <1>1, OrdersFacts
<1>3. PICK f, n :
        /\ f = Frames(order, hasText) /\ n = After(currentLamportTime[Home[t]])
        /\ pc[t] = "idle"
        /\ currentLamportTime' = [currentLamportTime EXCEPT ![Home[t]] = n]
        /\ wrapped' = IF n = 0 THEN wrapped \cup {Home[t]} ELSE wrapped
        /\ hand' = [hand EXCEPT ![t] = Stamped(t, hasText)]
        /\ todo' = [todo EXCEPT ![t] = f]
        /\ pc' = [pc EXCEPT ![t] = "sending"]
        /\ UNCHANGED <<net, timedOut>>
  BY DEF BeginSend, StampSend, Sendable, SetClock, Clock
<1>4. /\ pc'[t] = "sending" /\ todo'[t] = f /\ hand'[t].ts = n
      /\ \A u \in Thread \ {t} : UNCHANGED <<pc[u], hand[u], todo[u]>>
  BY <1>3, ThreadFacts DEF TypeOK, Stamped, Clock
<1>5. \A q \in Process : Owes(t, q)' <=> q \in R
  <2>1. f = Frames(order, hasText)
    BY <1>3
  <2>2. \A q : (\E i \in DOMAIN Frames(order, hasText) : Frames(order, hasText)[i] = <<q, "header">>)
                 <=> \E j \in DOMAIN order : q = order[j]
    BY <1>2, FramesHeaders
  <2>3. \A q : (\E i \in DOMAIN f : f[i] = <<q, "header">>) <=> \E j \in DOMAIN order : q = order[j]
    BY <2>1, <2>2
  <2>4. QED
    BY <1>1, <1>4, <2>3 DEF Owes
<1>6. PICK new : new = {[from |-> Home[t], to |-> q, ts |-> n] : q \in R}
  OBVIOUS
<1>7. ASSUME NEW x PROVE Underway(x)' <=> Underway(x) \/ x \in new
  <2>1. OnTheNetwork(x)' <=> OnTheNetwork(x)
    BY <1>3, NetworkAlike
  <2>2. \A u \in Thread \ {t} : /\ WithSender(x, u)' <=> WithSender(x, u)
                                /\ WithRecipient(x, u)' <=> WithRecipient(x, u)
    BY <1>4, OthersAlike
  <2>3. ~WithSender(x, t) /\ ~WithRecipient(x, t) /\ ~WithRecipient(x, t)'
    BY <1>3, <1>4, Receiving DEF WithSender, WithRecipient, Holds
  <2>4. WithSender(x, t)' <=> x \in new
    BY <1>2, <1>4, <1>5, <1>6 DEF WithSender
  <2>5. QED
    BY <2>1, <2>2, <2>3, <2>4 DEF Underway
<1>a. \A x \in new : x.from = Home[t]
  BY <1>6
<1>b. /\ \A x : x \in inTransitBar <=> Underway(x) /\ x.from \notin wrapped
      /\ \A x : x \in inTransitBar' <=> Underway(x)' /\ x.from \notin wrapped'
  BY InTransit, InTransitNext DEF Places
<1>c. Home[t] \in Process /\ (n # 0 => n = currentLamportTime[Home[t]] + 1)
  BY <1>3, ThreadFacts, TimeFacts DEF Clock
<1>8. CASE Home[t] \notin wrapped'
  <2>1. n # 0 /\ wrapped' = wrapped /\ Home[t] \notin wrapped
    BY <1>3, <1>8
  <2>2. inTransitBar' = inTransitBar \cup new
    BY <1>7, <1>a, <1>b, <2>1
  <2>3. Abstract!Send(Home[t], R)
    BY <1>3, <1>6, <1>c, <2>1, <2>2 DEF Abstract!Send
  <2>4. QED
    BY <1>2, <2>3
<1>9. CASE Home[t] \in wrapped'
  <2>1. wrapped' = wrapped \cup {Home[t]}
    BY <1>3, <1>9
  <2>2. \A x : x \in inTransitBar' <=> x \in inTransitBar /\ x.from # Home[t]
    BY <1>7, <1>a, <1>b, <2>1
  <2>3. inTransitBar' = {packet \in inTransitBar \ {} : packet.from # Home[t]}
    BY <2>2
  <2>4. currentLamportTime' = [currentLamportTime EXCEPT ![Home[t]] = currentLamportTime'[Home[t]]]
    BY <1>3, <1>c, ThreadFacts DEF TypeOK
  <2>5. Abstract!Wrap(Home[t])
    <3>1. {} \in SUBSET {packet \in inTransitBar : packet.to = Home[t]}
      OBVIOUS
    <3>2. QED
      BY <1>3, <2>1, <2>3, <2>4, <3>1 DEF Abstract!Wrap
  <2>6. QED
    BY <2>5
<1>10. QED
  BY <1>8, <1>9

\* One MPI_Send: its packet was in transit already.
LEMMA SendNextBar ==
  ASSUME IndInv, TimestampsDiffer, NEW t \in Thread, SendNext(t), IndInv'
  PROVE  UNCHANGED <<currentLamportTime, inTransitBar, timedOut, wrapped>>
<1>1. PICK to : to = To(t)
  OBVIOUS
<1>2. /\ UNCHANGED <<currentLamportTime, pc, hand, timedOut, wrapped>> /\ pc[t] = "sending"
      /\ \A u \in Thread \ {t} : UNCHANGED todo[u]
      /\ Home[t] \in Process
  BY SentRest, ThreadFacts DEF SendNext
<1>3. to \in Process
  BY <1>1, SendFacts, Zenon
<1>4. PICK sent : sent = [from |-> Home[t], to |-> to, ts |-> hand[t].ts]
  OBVIOUS
<1>5. ASSUME NEW x PROVE OnTheNetwork(x)' <=> OnTheNetwork(x) \/ (Part(t) = "header" /\ x = sent)
  <2>1. ASSUME OnTheNetwork(x)' PROVE OnTheNetwork(x) \/ (Part(t) = "header" /\ x = sent)
    <3>e. PICK p, q \in Process : \E i \in HeadersOf(p, q)' :
            x = [from |-> p, to |-> q, ts |-> net'[<<p, q>>][i].ts]
      BY <2>1 DEF OnTheNetwork
    <3>1. PICK i \in HeadersOf(p, q)' : x = [from |-> p, to |-> q, ts |-> net'[<<p, q>>][i].ts]
      BY <3>e
    <3>2. \/ i \in HeadersOf(p, q) /\ net'[<<p, q>>][i] = net[<<p, q>>][i]
          \/ p = Home[t] /\ q = to /\ Part(t) = "header" /\ net'[<<p, q>>][i].ts = hand[t].ts
      BY <1>1, <3>1, SentHeaders
    <3>3. QED
      BY <1>4, <3>1, <3>2 DEF OnTheNetwork
  <2>2. ASSUME OnTheNetwork(x) PROVE OnTheNetwork(x)'
    <3>e. PICK p, q \in Process : \E i \in HeadersOf(p, q) :
            x = [from |-> p, to |-> q, ts |-> net[<<p, q>>][i].ts]
      BY <2>2 DEF OnTheNetwork
    <3>1. PICK i \in HeadersOf(p, q) : x = [from |-> p, to |-> q, ts |-> net[<<p, q>>][i].ts]
      BY <3>e
    <3>2. i \in HeadersOf(p, q)' /\ net'[<<p, q>>][i] = net[<<p, q>>][i]
      BY <3>1, SentHeaders
    <3>3. QED
      BY <3>1, <3>2 DEF OnTheNetwork
  <2>3. ASSUME Part(t) = "header", x = sent PROVE OnTheNetwork(x)'
    <3>1. PICK i \in HeadersOf(Home[t], to)' : net'[<<Home[t], to>>][i].ts = hand[t].ts
      BY <1>1, <1>3, <2>3, SentHeaders
    <3>2. QED
      BY <1>2, <1>3, <1>4, <2>3, <3>1 DEF OnTheNetwork
  <2>4. QED
    BY <2>1, <2>2, <2>3
<1>6. ASSUME NEW x, NEW u \in Thread
      PROVE  WithSender(x, u) <=> WithSender(x, u)' \/ (u = t /\ Part(t) = "header" /\ x = sent)
  <2>1. \A q \in Process : /\ Owes(u, q)' => Owes(u, q)
                           /\ Owes(u, q) => Owes(u, q)' \/ (u = t /\ q = to /\ Part(t) = "header")
                           /\ q = to /\ Part(t) = "header" => Owes(t, q)
    BY <1>1, SentOwes
  <2>2. QED
    BY <1>2, <1>3, <1>4, <2>1 DEF WithSender
<1>7. \A x : \A u \in Thread : WithRecipient(x, u)' <=> WithRecipient(x, u)
  BY <1>2 DEF WithRecipient, Holds
<1>8. ASSUME NEW x PROVE Underway(x)' <=> Underway(x)
  BY <1>5, <1>6, <1>7 DEF Underway
<1>9. inTransitBar' = inTransitBar
  BY <1>2, <1>8, SameTransit
<1>10. QED
  BY <1>2, <1>9

\* A receive takes from the network the packet whose header it gets, and no other.
LEMMA TakenFromNetwork ==
  ASSUME IndInv, NEW t \in Thread, NEW p \in Process, Take(t, p), NEW x
  PROVE  /\ OnTheNetwork(x)' => OnTheNetwork(x)
         /\ OnTheNetwork(x) => \/ OnTheNetwork(x)'
                               \/ /\ First(t, p).part = "header"
                                  /\ x = [from |-> p, to |-> Home[t], ts |-> First(t, p).ts]
         /\ First(t, p).part = "header" /\ x = [from |-> p, to |-> Home[t], ts |-> First(t, p).ts]
              => OnTheNetwork(x)
<1>1. PICK q, r, got : q = Home[t] /\ r = Place(t, p) /\ got = First(t, p)
  OBVIOUS
<1>2. q \in Process /\ got = net[<<p, q>>][r] /\ r \in DOMAIN net[<<p, q>>]
  BY <1>1, TakeFacts, ThreadFacts, Zenon DEF Queue
<1>3. \A a, b \in Process : <<a, b>> # <<p, q>> =>
        net'[<<a, b>>] = net[<<a, b>>] /\ HeadersOf(a, b)' = HeadersOf(a, b)
  BY <1>1, TakeHeaders
<1>4. \A k \in HeadersOf(p, q) \ {r} : \E i \in HeadersOf(p, q)' : net'[<<p, q>>][i] = net[<<p, q>>][k]
  <2>1. \A k \in HeadersOf(p, Home[t]) \ {Place(t, p)} :
          \E i \in HeadersOf(p, Home[t])' : Queue(t, p)'[i] = Queue(t, p)[k]
    BY TakeHeaders, Zenon
  <2>2. QED
    BY <1>1, <2>1 DEF Queue
<1>5. ASSUME OnTheNetwork(x)' PROVE OnTheNetwork(x)
  <2>1. FewerHeaders
    BY TakeHeaders
  <2>2. PICK a, b \in Process : \E i \in HeadersOf(a, b)' : x = [from |-> a, to |-> b, ts |-> net'[<<a, b>>][i].ts]
    BY <1>5 DEF OnTheNetwork
  <2>3. PICK i \in HeadersOf(a, b)' : x = [from |-> a, to |-> b, ts |-> net'[<<a, b>>][i].ts]
    BY <2>2
  <2>4. PICK k \in HeadersOf(a, b) : net'[<<a, b>>][i].ts = net[<<a, b>>][k].ts
    BY <2>1, <2>3 DEF FewerHeaders
  <2>5. QED
    BY <2>3, <2>4 DEF OnTheNetwork
<1>6. ASSUME OnTheNetwork(x)
      PROVE  OnTheNetwork(x)' \/ (got.part = "header" /\ x = [from |-> p, to |-> q, ts |-> got.ts])
  <2>1. PICK a, b \in Process : \E k \in HeadersOf(a, b) : x = [from |-> a, to |-> b, ts |-> net[<<a, b>>][k].ts]
    BY <1>6 DEF OnTheNetwork
  <2>2. PICK k \in HeadersOf(a, b) : x = [from |-> a, to |-> b, ts |-> net[<<a, b>>][k].ts]
    BY <2>1
  <2>3. CASE <<a, b>> # <<p, q>>
    BY <1>3, <2>2, <2>3 DEF OnTheNetwork
  <2>4. CASE a = p /\ b = q /\ k # r
    <3>1. PICK i \in HeadersOf(a, b)' : net'[<<a, b>>][i] = net[<<a, b>>][k]
      BY <1>4, <2>2, <2>4
    <3>2. QED
      BY <2>2, <3>1 DEF OnTheNetwork
  <2>5. CASE a = p /\ b = q /\ k = r
    BY <1>2, <2>2, <2>5 DEF HeadersOf
  <2>6. QED
    BY <2>3, <2>4, <2>5
<1>7. ASSUME got.part = "header", x = [from |-> p, to |-> q, ts |-> got.ts] PROVE OnTheNetwork(x)
  BY <1>2, <1>7 DEF OnTheNetwork, HeadersOf
<1>8. QED
  BY <1>1, <1>5, <1>6, <1>7

\* The receive of a header: the packet is now with its recipient, unless it was
\* the body of one that is lost.
LEMMA ReceiveHeaderBar ==
  ASSUME IndInv, NEW t \in Thread, NEW p \in Process, ReceiveHeader(t, p), IndInv'
  PROVE  UNCHANGED <<currentLamportTime, inTransitBar, timedOut, wrapped>>
<1>1. PICK got, header :
        /\ got = First(t, p) /\ pc[t] = "idle" /\ Take(t, p) /\ header \in HeadersIn(got)
        /\ pc' = [pc EXCEPT ![t] = IF header.hasText THEN "body" ELSE "merge"]
        /\ hand' = [hand EXCEPT ![t] = [from |-> p, ts |-> header.ts, hasText |-> header.hasText,
                                        id |-> got.id, text |-> NoId, astray |-> got.part # "header"]]
        /\ UNCHANGED <<currentLamportTime, todo, timedOut, wrapped>>
  BY DEF ReceiveHeader, Listening
<1>2. /\ \A q : Holds(t, q)' <=> q = p /\ got.part = "header"
      /\ got.part = "header" => hand'[t].ts = got.ts
      /\ \A u \in Thread \ {t} : UNCHANGED <<pc[u], hand[u], todo[u]>>
  <2>1. /\ hand'[t] = [from |-> p, ts |-> header.ts, hasText |-> header.hasText,
                       id |-> got.id, text |-> NoId, astray |-> got.part # "header"]
        /\ pc'[t] \in {"body", "merge"}
        /\ \A u \in Thread \ {t} : UNCHANGED <<pc[u], hand[u], todo[u]>>
    BY <1>1, ThreadFacts DEF TypeOK
  <2>2. hand'[t].from = p /\ hand'[t].ts = header.ts
    BY <2>1
  <2>3. \A b \in BOOLEAN : \A h : h = [from |-> p, ts |-> header.ts, hasText |-> header.hasText,
                                      id |-> got.id, text |-> NoId, astray |-> b] => h.astray = b
    OBVIOUS
  <2>4. hand'[t].astray = (got.part # "header")
    BY <2>1, <2>3, Zenon
  <2>5. \A q : Holds(t, q)' <=> q = p /\ got.part = "header"
    BY <2>1, <2>2, <2>4 DEF Holds
  <2>6. got.part = "header" => header.ts = got.ts
    BY <1>1 DEF HeadersIn
  <2>7. QED
    BY <2>1, <2>2, <2>5, <2>6
<1>3. \A q : ~Owes(t, q) /\ ~Owes(t, q)'
  BY <1>1, Receiving DEF Owes
<1>4. ASSUME NEW x PROVE Underway(x)' <=> Underway(x)
  <2>1. \A u \in Thread \ {t} : /\ WithSender(x, u)' <=> WithSender(x, u)
                                /\ WithRecipient(x, u)' <=> WithRecipient(x, u)
    BY <1>2, OthersAlike
  <2>2. ~WithSender(x, t) /\ ~WithSender(x, t)' /\ ~WithRecipient(x, t)
    BY <1>1, <1>3 DEF WithSender, WithRecipient, Holds
  <2>3. WithRecipient(x, t)' <=> got.part = "header" /\ x = [from |-> p, to |-> Home[t], ts |-> got.ts]
    BY <1>2 DEF WithRecipient
  <2>4. OnTheNetwork(x)' \/ WithRecipient(x, t)' <=> OnTheNetwork(x)
    BY <1>1, <2>3, TakenFromNetwork
  <2>5. QED
    BY <2>1, <2>2, <2>4 DEF Underway
<1>5. inTransitBar' = inTransitBar
  BY <1>1, <1>4, SameTransit
<1>6. QED
  BY <1>1, <1>5

\* A step of t that drops at most packets sent to its process, which is faulty
\* from now on.
LEMMA LoseBar ==
  ASSUME IndInv, NEW t \in Thread, pc[t] # "sending", UNCHANGED todo, \A p : ~Holds(t, p)',
         \A u \in Thread \ {t} : UNCHANGED <<pc[u], hand[u], todo[u]>>,
         UNCHANGED net \/ \E p \in Process : Take(t, p),
         timedOut' = timedOut \cup {t}, UNCHANGED <<currentLamportTime, wrapped>>, IndInv'
  PROVE  Abstract!Lose(Home[t])
<1>2. \A q : ~Owes(t, q) /\ ~Owes(t, q)'
  BY Receiving DEF Owes
<1>3. ASSUME NEW x
      PROVE  /\ x \in inTransitBar' => x \in inTransitBar
             /\ x \in inTransitBar => x \in inTransitBar' \/ x.to = Home[t]
  <2>1. \A u \in Thread \ {t} : /\ WithSender(x, u)' <=> WithSender(x, u)
                                /\ WithRecipient(x, u)' <=> WithRecipient(x, u)
    BY OthersAlike
  <2>2. /\ ~WithSender(x, t) /\ ~WithSender(x, t)' /\ ~WithRecipient(x, t)'
        /\ WithRecipient(x, t) => x.to = Home[t]
    BY <1>2 DEF WithSender, WithRecipient
  <2>3. /\ OnTheNetwork(x)' => OnTheNetwork(x)
        /\ OnTheNetwork(x) => OnTheNetwork(x)' \/ x.to = Home[t]
    BY NetworkAlike, TakenFromNetwork
  <2>4. /\ Underway(x)' => Underway(x)
        /\ Underway(x) => Underway(x)' \/ x.to = Home[t]
    BY <2>1, <2>2, <2>3 DEF Underway
  <2>5. QED
    BY <2>4, InTransit, InTransitNext DEF Places
<1>4. PICK lost : lost = inTransitBar \ inTransitBar'
  OBVIOUS
<1>5. lost \in SUBSET {packet \in inTransitBar : packet.to = Home[t]} /\ inTransitBar' = inTransitBar \ lost
  BY <1>3, <1>4
<1>6. {Home[u] : u \in timedOut'} = {Home[u] : u \in timedOut} \cup {Home[t]}
  OBVIOUS
<1>7. QED
  BY <1>5, <1>6 DEF Abstract!Lose

\* A receive that times out holds nothing any more.
LEMMA TimeoutBar ==
  ASSUME IndInv, NEW t \in Thread, pc[t] # "sending", Return(t),
         UNCHANGED net \/ \E p \in Process : Take(t, p),
         timedOut' = timedOut \cup {t}, UNCHANGED <<currentLamportTime, wrapped>>, IndInv'
  PROVE  Abstract!Lose(Home[t])
<1>1. /\ pc'[t] = "idle" /\ UNCHANGED todo
      /\ \A u \in Thread \ {t} : UNCHANGED <<pc[u], hand[u], todo[u]>>
  BY ReturnFacts
<1>2. \A p : ~Holds(t, p)'
  BY <1>1 DEF Holds
<1>3. QED
  BY <1>1, <1>2, LoseBar

\* The receive of a body: no packet moves, or the thread is astray and may drop one.
LEMMA ReceiveBodyBar ==
  ASSUME IndInv, NEW t \in Thread, ReceiveBody(t), IndInv'
  PROVE  \/ UNCHANGED <<currentLamportTime, inTransitBar, timedOut, wrapped>>
         \/ Abstract!Lose(Home[t])
<1>1. PICK p \in Process :
        /\ p = hand[t].from /\ pc[t] = "body" /\ Take(t, p)
        /\ pc' = [pc EXCEPT ![t] = "merge"]
        /\ hand' = [hand EXCEPT ![t].text = First(t, p).id, ![t].from = p,
                                ![t].astray = @ \/ First(t, p).part # "body"]
        /\ UNCHANGED <<currentLamportTime, todo, timedOut, wrapped>>
  BY ThreadFacts DEF ReceiveBody, BodySource
<1>2. hand[t] \in Packet /\ hand[t].astray \in BOOLEAN /\ (hand[t].astray => t \in timedOut)
  BY ThreadFacts DEF Packet
<1>3. /\ pc'[t] = "merge"
      /\ hand'[t] = [hand[t] EXCEPT !.text = First(t, p).id, !.from = p,
                                    !.astray = @ \/ First(t, p).part # "body"]
      /\ \A u \in Thread \ {t} : UNCHANGED <<pc[u], hand[u], todo[u]>>
  BY <1>1, ThreadFacts DEF TypeOK
<1>4. hand'[t].from = p /\ hand'[t].ts = hand[t].ts
  BY <1>2, <1>3 DEF Packet
<1>5. hand'[t].astray = (hand[t].astray \/ First(t, p).part # "body")
  BY <1>2, <1>3, Zenon DEF Packet
<1>6. CASE hand[t].astray
  <2>1. \A q : ~Holds(t, q)'
    BY <1>5, <1>6 DEF Holds
  <2>2. timedOut' = timedOut \cup {t}
    BY <1>1, <1>2, <1>6
  <2>3. Abstract!Lose(Home[t])
    BY <1>1, <1>3, <2>1, <2>2, LoseBar
  <2>4. QED
    BY <2>3
<1>7. CASE ~hand[t].astray
  <2>1. First(t, p).part = "body"
    BY <1>1, <1>7, ThreadFacts DEF GetsItsBody, Take
  <2>2. ~hand'[t].astray
    BY <1>5, <1>7, <2>1
  <2>3. \A q : ~Owes(t, q) /\ ~Owes(t, q)'
    BY <1>1, Receiving DEF Owes
  <2>4. ASSUME NEW x PROVE Underway(x)' <=> Underway(x)
    <3>1. \A u \in Thread \ {t} : /\ WithSender(x, u)' <=> WithSender(x, u)
                                  /\ WithRecipient(x, u)' <=> WithRecipient(x, u)
      BY <1>3, OthersAlike
    <3>2. ~WithSender(x, t) /\ ~WithSender(x, t)'
      BY <2>3 DEF WithSender
    <3>3. WithRecipient(x, t)' <=> WithRecipient(x, t)
      BY <1>1, <1>3, <1>4, <1>7, <2>2 DEF WithRecipient, Holds
    <3>4. OnTheNetwork(x)' <=> OnTheNetwork(x)
      BY <1>1, <2>1, TakenFromNetwork
    <3>5. QED
      BY <3>1, <3>2, <3>3, <3>4 DEF Underway
  <2>5. inTransitBar' = inTransitBar
    BY <1>1, <2>4, SameTransit
  <2>6. QED
    BY <1>1, <2>5
<1>8. QED
  BY <1>2, <1>6, <1>7

\* A receive returns: the packet leaves, and the clock goes beyond its timestamp;
\* or the clock goes forward by a time that means nothing; or it wraps around.
LEMMA MergeClockBar ==
  ASSUME IndInv, TimestampsDiffer, NEW t \in Thread, MergeClock(t), IndInv'
  PROVE  \/ \E packet \in inTransitBar : Abstract!Receive(packet)
         \/ Abstract!Skip(Home[t]) \/ Abstract!Wrap(Home[t])
<1>1. /\ pc[t] = "merge" /\ Return(t)
      /\ SetClock(t, Merged(hand[t].ts, Clock(t)))
      /\ UNCHANGED <<net, timedOut>>
  BY DEF MergeClock
<1>2. PICK f, n, packet, p, now :
        /\ f = hand[t].from /\ n = hand[t].ts /\ p = Home[t] /\ packet = [from |-> f, to |-> p, ts |-> n]
        /\ now = Merged(n, Clock(t))
  OBVIOUS
<1>3. /\ f \in Process /\ p \in Process /\ n \in LamportTime /\ Clock(t) \in LamportTime
      /\ n \in Nat /\ Clock(t) \in Nat
      /\ packet.to = p /\ packet.from = f /\ packet.ts = n
  <2>1. f \in Process /\ p \in Process /\ n \in LamportTime /\ Clock(t) \in LamportTime
    BY <1>1, <1>2, ThreadFacts DEF IndInv, Packet
  <2>2. QED
    BY <1>2, <2>1, TimeFacts
<1>4. /\ pc'[t] = "idle" /\ UNCHANGED todo
      /\ \A u \in Thread \ {t} : UNCHANGED <<pc[u], hand[u], todo[u]>>
  BY <1>1, ReturnFacts
<1>5. \A q : ~Owes(t, q) /\ ~Owes(t, q)'
  BY <1>1, <1>4, Receiving DEF Owes
<1>6. /\ currentLamportTime' = [currentLamportTime EXCEPT ![p] = now]
      /\ currentLamportTime' = [currentLamportTime EXCEPT ![p] = currentLamportTime'[p]]
      /\ wrapped' = IF now = 0 THEN wrapped \cup {p} ELSE wrapped
      /\ currentLamportTime'[p] = now /\ currentLamportTime[p] = Clock(t)
  BY <1>1, <1>2, <1>3, ThreadFacts DEF SetClock, Clock, TypeOK
<1>7. now # 0 => now = (IF n > Clock(t) THEN n ELSE Clock(t)) + 1 /\ now > Clock(t)
  BY <1>2, <1>3, MergedFacts
<1>8. ASSUME NEW x
      PROVE  Underway(x) <=> Underway(x)' \/ (Holds(t, f) /\ x = packet)
  <2>1. \A u \in Thread \ {t} : /\ WithSender(x, u)' <=> WithSender(x, u)
                                /\ WithRecipient(x, u)' <=> WithRecipient(x, u)
    BY <1>4, OthersAlike
  <2>2. /\ ~WithSender(x, t) /\ ~WithSender(x, t)' /\ ~WithRecipient(x, t)'
        /\ WithRecipient(x, t) <=> Holds(t, f) /\ x = packet
    BY <1>2, <1>3, <1>4, <1>5 DEF WithSender, WithRecipient, Holds
  <2>3. OnTheNetwork(x)' <=> OnTheNetwork(x)
    BY <1>1, NetworkAlike
  <2>4. QED
    BY <2>1, <2>2, <2>3 DEF Underway
<1>9. /\ \A x : x \in inTransitBar <=> Underway(x) /\ x.from \notin wrapped
      /\ \A x : x \in inTransitBar' <=> Underway(x)' /\ x.from \notin wrapped'
  BY InTransit, InTransitNext DEF Places
<1>10. CASE p \in wrapped'
  <2>1. wrapped' = wrapped \cup {p}
    BY <1>6, <1>10
  <2>2. PICK received : received = {x \in inTransitBar : x.to = p /\ x.from # p /\ x \notin inTransitBar'}
    OBVIOUS
  <2>3. ASSUME NEW x PROVE x \in inTransitBar' <=> x \in inTransitBar \ received /\ x.from # p
    <3>1. x \in inTransitBar' => x \in inTransitBar /\ x.from # p
      BY <1>8, <1>9, <2>1
    <3>2. x \in inTransitBar /\ x.from # p /\ x \notin inTransitBar' => x.to = p
      BY <1>3, <1>8, <1>9, <2>1
    <3>3. QED
      BY <2>2, <3>1, <3>2
  <2>4. /\ inTransitBar' = {x \in inTransitBar \ received : x.from # p}
        /\ received \in SUBSET {x \in inTransitBar : x.to = p}
    BY <2>2, <2>3
  <2>5. Abstract!Wrap(p)
    BY <1>1, <1>6, <2>1, <2>4 DEF Abstract!Wrap
  <2>6. QED
    BY <1>2, <2>5
<1>11. CASE p \notin wrapped' /\ ~(Holds(t, f) /\ f \notin wrapped)
  <2>1. now # 0 /\ wrapped' = wrapped /\ p \notin wrapped
    BY <1>6, <1>11
  <2>2. ASSUME NEW x PROVE x \in inTransitBar' <=> x \in inTransitBar
    BY <1>3, <1>8, <1>9, <1>11, <2>1
  <2>3. inTransitBar' = inTransitBar
    BY <2>2
  <2>4. p \in {Home[u] : u \in timedOut} \/ wrapped # {}
    <3>1. CASE f \in wrapped
      BY <3>1
    <3>2. CASE ~Holds(t, f)
      BY <1>1, <1>2, <3>2, ThreadFacts DEF Holds
    <3>3. QED
      BY <1>11, <3>1, <3>2
  <2>5. Abstract!Skip(p)
    BY <1>1, <1>6, <1>7, <2>1, <2>3, <2>4 DEF Abstract!Skip
  <2>6. QED
    BY <1>2, <2>5
<1>12. CASE p \notin wrapped' /\ Holds(t, f) /\ f \notin wrapped
  <2>1. now # 0 /\ wrapped' = wrapped /\ p \notin wrapped
    BY <1>6, <1>12
  <2>2. /\ \A i \in HeadersOf(f, p) : net[<<f, p>>][i].ts # n
        /\ \A u \in Thread \ {t} : /\ Owes(u, p) /\ Home[u] = f => hand[u].ts # n
                                   /\ Holds(u, f) /\ Home[u] = p => hand[u].ts # n
    <3>1. JustReceived(t) /\ f \in Process \ wrapped
      BY <1>3, <1>12 DEF TimestampsDiffer
    <3>2. QED
      BY <1>2, <1>12, <3>1 DEF JustReceived
  <2>3. ~OnTheNetwork(packet)'
    <3>1. ASSUME OnTheNetwork(packet) PROVE FALSE
      <4>1. PICK a, b \in Process : \E i \in HeadersOf(a, b) :
              packet = [from |-> a, to |-> b, ts |-> net[<<a, b>>][i].ts]
        BY <3>1 DEF OnTheNetwork
      <4>2. a = f /\ b = p
        BY <1>3, <4>1
      <4>3. QED
        BY <1>3, <2>2, <4>1, <4>2
    <3>2. QED
      BY <1>1, <3>1, NetworkAlike
  <2>4. ASSUME NEW u \in Thread \ {t} PROVE ~WithSender(packet, u)' /\ ~WithRecipient(packet, u)'
    <3>1. ASSUME WithSender(packet, u) PROVE FALSE
      <4>1. PICK q \in Process : Owes(u, q) /\ packet = [from |-> Home[u], to |-> q, ts |-> hand[u].ts]
        BY <3>1 DEF WithSender
      <4>2. Home[u] = f /\ q = p /\ hand[u].ts = n
        BY <1>3, <4>1
      <4>3. QED
        BY <2>2, <4>1, <4>2
    <3>2. ASSUME WithRecipient(packet, u) PROVE FALSE
      <4>1. PICK q \in Process : Holds(u, q) /\ packet = [from |-> q, to |-> Home[u], ts |-> hand[u].ts]
        BY <3>2 DEF WithRecipient
      <4>2. q = f /\ Home[u] = p /\ hand[u].ts = n
        BY <1>3, <4>1
      <4>3. QED
        BY <2>2, <4>1, <4>2
    <3>3. QED
      BY <1>4, <3>1, <3>2, OthersAlike
  <2>5. ~Underway(packet)'
    <3>1. ~WithSender(packet, t)' /\ ~WithRecipient(packet, t)'
      BY <1>4, <1>5 DEF WithSender, WithRecipient, Holds
    <3>2. QED
      BY <2>3, <2>4, <3>1 DEF Underway
  <2>6. ASSUME NEW x PROVE x \in inTransitBar' <=> x \in inTransitBar /\ x # packet
    BY <1>8, <1>9, <2>1, <2>5
  <2>7. packet \in inTransitBar
    BY <1>3, <1>8, <1>9, <1>12
  <2>8. inTransitBar' = inTransitBar \ {packet}
    BY <2>6
  <2>9. PICK later : later = IF n > Clock(t) THEN n ELSE Clock(t)
    OBVIOUS
  <2>10. /\ later \in {currentLamportTime[packet.to], packet.ts}
         /\ later >= currentLamportTime[packet.to] /\ later >= packet.ts
         /\ currentLamportTime' = [currentLamportTime EXCEPT ![packet.to] = later + 1]
    <3>1. later \in {Clock(t), n} /\ later >= Clock(t) /\ later >= n
      BY <1>3, <2>9
    <3>2. now = later + 1
      BY <1>7, <2>1, <2>9
    <3>3. currentLamportTime[packet.to] = Clock(t) /\ packet.ts = n
      BY <1>3, <1>6
    <3>4. currentLamportTime' = [currentLamportTime EXCEPT ![packet.to] = now]
      BY <1>3, <1>6
    <3>5. QED
      BY <3>1, <3>2, <3>3, <3>4
  <2>11. Abstract!Receive(packet)
    BY <1>1, <1>3, <2>1, <2>7, <2>8, <2>10 DEF Abstract!Receive
  <2>12. QED
    BY <2>7, <2>11
<1>13. QED
  BY <1>10, <1>11, <1>12

\* Every step is a step of LogicalClock, or leaves its variables as they are.
LEMMA NextBar ==
  IndInv /\ TimestampsDiffer /\ [Next]_vars /\ IndInv'
    => [Abstract!Next]_<<currentLamportTime, inTransitBar, {Home[t] : t \in timedOut}, wrapped>>
<1> SUFFICES ASSUME IndInv, TimestampsDiffer, [Next]_vars, IndInv'
             PROVE  Abstract!Next \/ UNCHANGED <<currentLamportTime, inTransitBar, timedOut, wrapped>>
  OBVIOUS
<1>1. CASE UNCHANGED vars
  BY <1>1 DEF inTransitBar, Holds, vars
<1>2. ASSUME NEW t \in Thread, NEW order \in Orders(t), NEW hasText \in BOOLEAN,
             BeginSend(t, order, hasText)
      PROVE  Abstract!Next
  BY <1>2, BeginSendBar, ThreadFacts DEF Abstract!Next
<1>3. ASSUME NEW t \in Thread, SendNext(t) \/ EndSend(t)
      PROVE  UNCHANGED <<currentLamportTime, inTransitBar, timedOut, wrapped>>
  BY <1>3, SendNextBar, EndSendBar
<1>b. ASSUME NEW t \in Thread, ReceiveBody(t)
      PROVE  Abstract!Next \/ UNCHANGED <<currentLamportTime, inTransitBar, timedOut, wrapped>>
  BY <1>b, ReceiveBodyBar, ThreadFacts DEF Abstract!Next
<1>4. ASSUME NEW t \in Thread, MergeClock(t) PROVE Abstract!Next
  BY <1>4, MergeClockBar, ThreadFacts DEF Abstract!Next
<1>5. ASSUME NEW t \in Thread, BodyTimeout(t) PROVE Abstract!Next
  <2>1. /\ pc[t] = "body" /\ Return(t) /\ timedOut' = timedOut \cup {t}
        /\ UNCHANGED <<currentLamportTime, wrapped>>
        /\ UNCHANGED net \/ Take(t, hand[t].from)
    BY <1>5 DEF BodyTimeout
  <2>2. hand[t].from \in Process /\ Home[t] \in Process
    BY <2>1, ThreadFacts
  <2>3. Abstract!Lose(Home[t])
    BY <2>1, <2>2, TimeoutBar
  <2>4. QED
    BY <2>2, <2>3 DEF Abstract!Next
<1>6. ASSUME NEW t \in Thread, NEW p \in Process, HeaderTimeout(t, p) PROVE Abstract!Next
  <2>1. pc[t] = "idle" /\ Return(t) /\ timedOut' = timedOut \cup {t}
        /\ UNCHANGED <<currentLamportTime, wrapped>> /\ Take(t, p)
    BY <1>6 DEF HeaderTimeout, Listening
  <2>2. Abstract!Lose(Home[t])
    BY <2>1, TimeoutBar
  <2>3. QED
    BY <2>2, ThreadFacts DEF Abstract!Next
<1>7. ASSUME NEW t \in Thread, NEW p \in Process, ReceiveHeader(t, p)
      PROVE  UNCHANGED <<currentLamportTime, inTransitBar, timedOut, wrapped>>
  BY <1>7, ReceiveHeaderBar
<1>8. QED
  BY <1>1, <1>2, <1>3, <1>b, <1>4, <1>5, <1>6, <1>7 DEF Next, Quiet

\* A packet in two messages is as good as one: send and receive behave as if they
\* were atomic, for any number of processes, threads and tags, and a process loses
\* packets only if a receive of its own timed out.  From then on a receive may take
\* anything for a timestamp, which makes the clock of its process go forward, until
\* a clock wraps around: of that process's timestamps nothing is promised.
THEOREM SimpleImplementsLogicalClock == Spec => ImplementsLogicalClock
<1>1. QED
  BY BarInit, Invariance, PacketsDiffer, NextBar, PTL DEF Spec, ImplementsLogicalClock, Abstract!Spec

=============================================================================
