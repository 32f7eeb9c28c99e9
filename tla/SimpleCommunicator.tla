------------------------- MODULE SimpleCommunicator -------------------------
(***************************************************************************)
(* MpiSimpleCommunicator, which MpiOptimizedCommunicator overrides: a      *)
(* packet is two MPI messages of one tag, a header and, if there is a      *)
(* text, a body.  Only their order keeps the two together: a receive that  *)
(* takes the one for the other does not notice, and goes on.               *)
(*                                                                         *)
(* Two things may go wrong with a receive that times out.  The header is   *)
(* there and the body is not, so that the body is left behind; and the     *)
(* message arrives between the last MPI_Test and MPI_Cancel, so that it is *)
(* taken and thrown away.  Faults says which of them happen.               *)
(***************************************************************************)
EXTENDS Naturals, Sequences, FiniteSetsExt, SequencesExt

CONSTANTS
  Process, Thread, Tag,
  Home,       \* Home[t]: the process of thread t
  SendTag,    \* SendTag[t]: the tag t sends with, NoTag if it never sends
  RecvTag,    \* RecvTag[t]: the tag t receives with, NoTag if it never does,
              \* AnyTag (MPI_ANY_TAG) if it takes what comes
  Patient,    \* the threads that receive without a timeout
  Faults,     \* what may go wrong with a timeout: "late body", "late cancel"
  NoTag, AnyTag, NoThread,
  ULONG_MAX,  \* the greatest value of an unsigned long, after which comes 0
  Unwritten,  \* the times that the bytes of a text, or memory that nobody has
              \* written, may read as
  MAX_SENDS   \* MAX_SENDS[t], bound: how often t sends

LamportTime == 0 .. ULONG_MAX

ASSUME TimeAssumption == ULONG_MAX \in Nat /\ Unwritten \subseteq LamportTime

ASSUME SimpleAssumption ==
  /\ Home \in [Thread -> Process] /\ MAX_SENDS \in [Thread -> Nat]
  /\ SendTag \in [Thread -> Tag \cup {NoTag}] /\ RecvTag \in [Thread -> Tag \cup {NoTag, AnyTag}]
  /\ NoTag \notin Tag /\ AnyTag \notin Tag \cup {NoTag} /\ NoThread \notin Thread
  /\ Patient \subseteq Thread /\ Faults \subseteq {"late body", "late cancel"}
  \* two threads of a process never receive the same messages
  /\ \A t, u \in Thread : t # u /\ Home[t] = Home[u] /\ NoTag \notin {RecvTag[t], RecvTag[u]}
                            => AnyTag \notin {RecvTag[t], RecvTag[u]} /\ RecvTag[t] # RecvTag[u]

VARIABLES
  currentLamportTime,   \* currentLamportTime[p]
  communicationMutex,   \* communicationMutex[p]: the thread that holds it
  net,                  \* net[<<p, q>>]: the MPI messages on their way
  pc,                   \* pc[t]: where thread t is
  todo,                 \* todo[t]: the MPI messages its send has still to make
  hand,                 \* hand[t]: the packet t sends, or receives, so far
  sends,                \* sends[t]: how often t has sent
  timedOut,             \* the threads that had a faulty timeout
  wrapped               \* the processes whose clock has gone from ULONG_MAX to 0

vars == <<currentLamportTime, communicationMutex, net, pc, todo, hand, sends, timedOut, wrapped>>

\* A packet is told by the thread that sends it and the number of the send.
NoId == <<NoThread, 0>>

\* id is the packet whose first message was sent or received, text the one whose
\* second message was received.  astray: t took a message for what it is not.
NoPacket == [from |-> NoThread, ts |-> 0, hasText |-> FALSE, id |-> NoId,
             text |-> NoId, astray |-> FALSE]

Init ==
  /\ currentLamportTime = [p \in Process |-> 0]
  /\ communicationMutex = [p \in Process |-> NoThread]
  /\ net = [c \in Process \X Process |-> <<>>]
  /\ pc = [t \in Thread |-> "idle"]
  /\ todo = [t \in Thread |-> <<>>]
  /\ hand = [t \in Thread |-> NoPacket]
  /\ sends = [t \in Thread |-> 0]
  /\ timedOut = {}
  /\ wrapped = {}

Clock(t) == currentLamportTime[Home[t]]

Free(t) == communicationMutex[Home[t]] = NoThread

\* One more, in the width of the clock.
After(time) == IF time = ULONG_MAX THEN 0 ELSE time + 1

\* The clock of the process of t becomes time, which is 0 when it wraps around.
SetClock(t, time) ==
  /\ currentLamportTime' = [currentLamportTime EXCEPT ![Home[t]] = time]
  /\ wrapped' = IF time = 0 THEN wrapped \cup {Home[t]} ELSE wrapped

-----------------------------------------------------------------------------
(***************************************************************************)
(* send(), under the lock.                                                 *)
(***************************************************************************)

\* A header for each recipient in turn, each followed by the body if there is one.
Frames(order, hasText) ==
  IF hasText THEN [i \in 1 .. 2 * Len(order) |->
                     <<order[(i + 1) \div 2], IF i % 2 = 1 THEN "header" ELSE "body">>]
             ELSE [i \in DOMAIN order |-> <<order[i], "header">>]

Sendable(t) == SendTag[t] # NoTag /\ sends[t] < MAX_SENDS[t] /\ pc[t] = "idle"

\* The packet t sends next.
Stamped(t, hasText) ==
  [from |-> Home[t], ts |-> After(Clock(t)), hasText |-> hasText, id |-> <<t, sends[t] + 1>>,
   text |-> NoId, astray |-> FALSE]

\* Mutant: currentLamportTime + 1 for ++currentLamportTime.
StampOnly(t, order, hasText) ==
  /\ hand' = [hand EXCEPT ![t] = Stamped(t, hasText)]
  /\ todo' = [todo EXCEPT ![t] = Frames(order, hasText)]
  /\ sends' = [sends EXCEPT ![t] = @ + 1]
  /\ pc' = [pc EXCEPT ![t] = "sending"]
  /\ UNCHANGED <<currentLamportTime, net, timedOut, wrapped>>

\* The part of BeginSend under the lock.
StampSend(t, order, hasText) ==
  /\ SetClock(t, After(Clock(t)))
  /\ hand' = [hand EXCEPT ![t] = Stamped(t, hasText)]
  /\ todo' = [todo EXCEPT ![t] = Frames(order, hasText)]
  /\ sends' = [sends EXCEPT ![t] = @ + 1]
  /\ pc' = [pc EXCEPT ![t] = "sending"]
  /\ UNCHANGED <<net, timedOut>>

\* Mutant: the lock covers the clock only.
BeginSendBriefly(t, order, hasText) ==
  /\ Sendable(t) /\ Free(t)
  /\ StampSend(t, order, hasText)
  /\ UNCHANGED communicationMutex

BeginSend(t, order, hasText) ==
  /\ Sendable(t) /\ Free(t)
  /\ StampSend(t, order, hasText)
  /\ communicationMutex' = [communicationMutex EXCEPT ![Home[t]] = t]

\* The next message t sends.
NextMessage(t) == [tag |-> SendTag[t], part |-> Head(todo[t])[2], ts |-> hand[t].ts,
                   hasText |-> hand[t].hasText, id |-> hand[t].id]

\* Mutant: the message bears the tag that t receives with.
SendNextMistagged(t) ==
  /\ todo[t] # <<>>
  /\ net' = [net EXCEPT ![<<Home[t], Head(todo[t])[1]>>] =
               Append(@, [NextMessage(t) EXCEPT !.tag = RecvTag[t]])]
  /\ todo' = [todo EXCEPT ![t] = Tail(@)]
  /\ UNCHANGED <<currentLamportTime, communicationMutex, pc, hand, sends, timedOut, wrapped>>

\* One MPI_Send.
SendNext(t) ==
  /\ todo[t] # <<>>
  /\ net' = [net EXCEPT ![<<Home[t], Head(todo[t])[1]>>] =
               Append(@, NextMessage(t))]
  /\ todo' = [todo EXCEPT ![t] = Tail(@)]
  /\ UNCHANGED <<currentLamportTime, communicationMutex, pc, hand, sends, timedOut, wrapped>>

\* The thread is out of send, or of a receive.
Return(t) == /\ pc' = [pc EXCEPT ![t] = "idle"]
             /\ hand' = [hand EXCEPT ![t] = NoPacket]
             /\ UNCHANGED <<todo, sends>>

\* Mutant: send returns after the first message.
EndSendEarly(t) ==
  /\ pc[t] = "sending"
  /\ communicationMutex' = [communicationMutex EXCEPT ![Home[t]] = NoThread]
  /\ Return(t)
  /\ UNCHANGED <<currentLamportTime, net, timedOut, wrapped>>

EndSend(t) ==
  /\ pc[t] = "sending" /\ todo[t] = <<>>
  /\ communicationMutex' = [communicationMutex EXCEPT ![Home[t]] = NoThread]
  /\ Return(t)
  /\ UNCHANGED <<currentLamportTime, net, timedOut, wrapped>>

-----------------------------------------------------------------------------
(***************************************************************************)
(* Both receives.  A timeout before which nothing arrives, with no fault,  *)
(* changes nothing.                                                        *)
(***************************************************************************)

\* A receive of t takes messages with that tag.
Matches(t, tag) == RecvTag[t] \in {AnyTag, tag}

\* The messages of p that it takes, by their place.
Matching(t, p) ==
  {i \in DOMAIN net[<<p, Home[t]>>] : Matches(t, net[<<p, Home[t]>>][i].tag)}

\* The first of them, which the receive gets.
First(t, p) == net[<<p, Home[t]>>][Min(Matching(t, p))]

Take(t, p) ==
  /\ Matching(t, p) # {}
  /\ net' = [net EXCEPT ![<<p, Home[t]>>] = RemoveAt(@, Min(Matching(t, p)))]

Listening(t) == RecvTag[t] # NoTag /\ pc[t] = "idle"

\* What a message reads as when it is received for a header: if it is a body,
\* the fields are made of its bytes, and of whatever was there before.
HeadersIn(got) ==
  IF got.part = "header" THEN {[ts |-> got.ts, hasText |-> got.hasText]}
                         ELSE [ts : Unwritten, hasText : BOOLEAN]

\* The receive of a header, from anybody, gets the next message of p.
ReceiveHeader(t, p) ==
  LET got == First(t, p) IN
  /\ Listening(t)
  /\ Take(t, p)
  /\ \E header \in HeadersIn(got) :
       /\ pc' = [pc EXCEPT ![t] = IF header.hasText THEN "body" ELSE "merge"]
       /\ hand' = [hand EXCEPT ![t] = [from |-> p, ts |-> header.ts, hasText |-> header.hasText,
                                       id |-> got.id, text |-> NoId, astray |-> got.part # "header"]]
  /\ UNCHANGED <<currentLamportTime, communicationMutex, todo, sends, timedOut, wrapped>>

\* Mutant: the body may come from anybody.
AnySource(t) == Process

\* The body is received from the sender of the header.
BodySource(t) == {hand[t].from}

\* Whatever comes is the text.  (A message longer than the text is to be makes
\* MPI_Recv abort the program, which then makes no further step.)
ReceiveBody(t) ==
  \E p \in BodySource(t) :
    LET got == First(t, p) IN
    /\ pc[t] = "body"
    /\ Take(t, p)
    /\ pc' = [pc EXCEPT ![t] = "merge"]
    /\ hand' = [hand EXCEPT ![t].text = got.id, ![t].from = p,
                            ![t].astray = @ \/ got.part # "body"]
    /\ UNCHANGED <<currentLamportTime, communicationMutex, todo, sends, timedOut, wrapped>>

\* Mutant: the later time, not advanced.
Later(time, clock) == IF time > clock THEN time ELSE clock

\* std::max(rawPacket.lamportTime, currentLamportTime) + 1
Merged(time, clock) == After(IF time > clock THEN time ELSE clock)

MergeClock(t) ==
  /\ pc[t] = "merge" /\ Free(t)
  /\ SetClock(t, Merged(hand[t].ts, Clock(t)))
  /\ Return(t)
  /\ UNCHANGED <<communicationMutex, net, timedOut>>

\* The receive of the header is cancelled too late: its message is lost.
HeaderTimeout(t, p) ==
  /\ Listening(t) /\ t \notin Patient
  /\ "late cancel" \in Faults /\ Take(t, p)
  /\ Return(t)
  /\ timedOut' = timedOut \cup {t}
  /\ UNCHANGED <<currentLamportTime, communicationMutex, wrapped>>

\* The receive of the body times out: the header is dropped, and the body is
\* left where it is, or lost as well.  An astray thread waits for what may never
\* come.
BodyTimeout(t) ==
  /\ pc[t] = "body" /\ t \notin Patient
  /\ "late body" \in Faults \/ hand[t].astray
  /\ UNCHANGED net \/ ("late cancel" \in Faults /\ Take(t, hand[t].from))
  /\ Return(t)
  /\ timedOut' = timedOut \cup {t}
  /\ UNCHANGED <<currentLamportTime, communicationMutex, wrapped>>

-----------------------------------------------------------------------------
Orders(t) == {s \in UNION {[1 .. n -> Process \ {Home[t]}] : n \in 1 .. 2} :
                \A i, j \in DOMAIN s : s[i] = s[j] => i = j}

\* Nothing is left to send.
Quiet ==
  /\ \A t \in Thread : pc[t] = "idle" /\ ~Sendable(t)
  /\ UNCHANGED vars

Next ==
  \/ \E t \in Thread :
       \/ \E order \in Orders(t), hasText \in BOOLEAN : BeginSend(t, order, hasText)
       \/ SendNext(t)
       \/ EndSend(t)
       \/ ReceiveBody(t)
       \/ MergeClock(t)
       \/ BodyTimeout(t)
       \/ \E p \in Process : ReceiveHeader(t, p) \/ HeaderTimeout(t, p)
  \/ Quiet

Spec == Init /\ [][Next]_vars

-----------------------------------------------------------------------------
(***************************************************************************)
(* Properties.                                                             *)
(***************************************************************************)

Id == (Thread \cup {NoThread}) \X Nat

Message == [tag : Tag, part : {"header", "body"}, ts : LamportTime, hasText : BOOLEAN, id : Id]

Packet == [from : Process \cup {NoThread}, ts : LamportTime, hasText : BOOLEAN, id : Id,
           text : Id, astray : BOOLEAN]

\* The variables have their types.
TypeOK ==
  /\ currentLamportTime \in [Process -> LamportTime]
  /\ communicationMutex \in [Process -> Thread \cup {NoThread}]
  /\ net \in [Process \X Process -> Seq(Message)]
  /\ pc \in [Thread -> {"idle", "sending", "body", "merge"}]
  /\ todo \in [Thread -> Seq(Process \X {"header", "body"})]
  /\ hand \in [Thread -> Packet]
  /\ sends \in [Thread -> Nat] /\ \A t \in Thread : sends[t] <= MAX_SENDS[t]
  /\ timedOut \subseteq Thread /\ wrapped \subseteq Process

\* Headers and bodies stay in step although several threads and processes send
\* with one tag: a thread takes a body for a header, or the reverse, only after
\* one of its own timeouts went wrong, never after another thread's.
AstrayOnlyAfterTimeout ==
  \A t \in Thread : hand[t].astray => t \in timedOut

\* The text of the packet t is about to return is the one its header announced,
\* and comes from the same send.
IsWhole(t) == hand[t].text = IF hand[t].hasText THEN hand[t].id ELSE NoId

\* A thread whose own timeouts did not go wrong returns whole packets, whatever
\* the other threads have lost.
MessagesAreWhole ==
  \A t \in Thread \ timedOut : pc[t] = "merge" => IsWhole(t)

\* t has sent the header of a packet to q, and its body comes next.
BodyDue(t, q) == todo[t] # <<>> /\ Head(todo[t]) = <<q, "body">>

\* t waits for a body from p.
Awaits(t, p) == pc[t] = "body" /\ hand[t].from = p

IsBodyOf(body, header) ==
  /\ header.part = "header" /\ header.hasText /\ body.part = "body"
  /\ body.tag = header.tag /\ body.id = header.id

\* A header that announces a text has its body right behind it, or about to come.
HeaderIsFollowed(c, i) ==
  net[c][i].part = "header" /\ net[c][i].hasText =>
    \/ i + 1 \in DOMAIN net[c] /\ IsBodyOf(net[c][i + 1], net[c][i])
    \/ /\ i = Len(net[c])
       /\ \E u \in Thread : /\ Home[u] = c[1] /\ BodyDue(u, c[2])
                            /\ SendTag[u] = net[c][i].tag /\ hand[u].id = net[c][i].id

\* A body has its header right before it; or the thread it is for waits for it,
\* or has had a faulty timeout.
BodyIsLed(c, i) ==
  net[c][i].part = "body" =>
    \/ i - 1 \in DOMAIN net[c] /\ IsBodyOf(net[c][i], net[c][i - 1])
    \/ \E t \in Thread : /\ Home[t] = c[2] /\ Matches(t, net[c][i].tag)
                         /\ \/ t \in timedOut
                            \/ Awaits(t, c[1]) /\ Min(Matching(t, c[1])) = i

\* The same for a body that has yet to be sent.
BodyDueIsLed(u, q) ==
  BodyDue(u, q) =>
    \/ /\ net[<<Home[u], q>>] # <<>>
       /\ Last(net[<<Home[u], q>>]) = [tag |-> SendTag[u], part |-> "header", ts |-> hand[u].ts,
                                       hasText |-> TRUE, id |-> hand[u].id]
    \/ \E t \in Thread : /\ Home[t] = q /\ Matches(t, SendTag[u])
                         /\ t \in timedOut \/ (Awaits(t, Home[u]) /\ Matching(t, Home[u]) = {})

\* A thread sends headers and bodies in turn, or headers only.
SendsInTurn(t) ==
  /\ pc[t] = "sending" <=> communicationMutex[Home[t]] = t
  /\ todo[t] # <<>> =>
       /\ pc[t] = "sending" /\ SendTag[t] \in Tag
       /\ hand[t].from = Home[t] /\ hand[t].ts = Clock(t) /\ ~hand[t].astray
  /\ \A i \in DOMAIN todo[t] :
       IF todo[t][i][2] = "header"
       THEN hand[t].hasText => i + 1 \in DOMAIN todo[t] /\ todo[t][i + 1] = <<todo[t][i][1], "body">>
       ELSE hand[t].hasText /\ (i > 1 => todo[t][i - 1] = <<todo[t][i][1], "header">>)

\* The body a thread waits for is the next message it will take of its sender,
\* which has sent it, or is about to, unless the thread is astray.
GetsItsBody(t) ==
  pc[t] = "body" =>
    LET p == hand[t].from IN
    /\ p \in Process /\ RecvTag[t] # NoTag /\ hand[t].hasText
    /\ \/ hand[t].astray
       \/ Matching(t, p) # {} /\ First(t, p).part = "body" /\ First(t, p).id = hand[t].id
       \/ Matching(t, p) = {} /\ \E u \in Thread : /\ Home[u] = p /\ BodyDue(u, Home[t])
                                                   /\ Matches(t, SendTag[u]) /\ hand[u].id = hand[t].id

\* The inductive invariant behind the two properties above.
IndInv ==
  /\ TypeOK
  /\ \A c \in Process \X Process : \A i \in DOMAIN net[c] : HeaderIsFollowed(c, i) /\ BodyIsLed(c, i)
  /\ \A t \in Thread : SendsInTurn(t) /\ GetsItsBody(t) /\ \A q \in Process : BodyDueIsLed(t, q)
  /\ \A t \in Thread : pc[t] = "merge" => hand[t].from \in Process
  /\ \A t \in Thread : pc[t] = "merge" /\ ~hand[t].astray => IsWhole(t)
  /\ AstrayOnlyAfterTimeout

\* What the header of a packet in transit is like, as long as its sender's clock
\* has not wrapped around: that clock has not gone back behind it, and no other
\* packet from that process to the same recipient bears its timestamp.  It is on
\* the network, or yet to be sent, or in the hands of a thread that is not astray
\* and has not advanced its clock.
HeadersOf(p, q) == {i \in DOMAIN net[<<p, q>>] : net[<<p, q>>][i].part = "header"}

OnNetwork ==
  \A p \in Process \ wrapped, q \in Process : \A i \in HeadersOf(p, q) :
    /\ net[<<p, q>>][i].ts <= currentLamportTime[p]
    /\ \A j \in HeadersOf(p, q) : net[<<p, q>>][i].ts = net[<<p, q>>][j].ts => i = j

Owes(t, q) == \E i \in DOMAIN todo[t] : todo[t][i] = <<q, "header">>

YetToSend(t) ==
  /\ \A i, j \in DOMAIN todo[t] : todo[t][i] = todo[t][j] => i = j
  /\ \A q \in Process : Home[t] \notin wrapped /\ Owes(t, q) =>
       \A i \in HeadersOf(Home[t], q) : net[<<Home[t], q>>][i].ts # hand[t].ts

\* t has received the packet in its hand from p, and not advanced its clock.
Holds(t, p) == pc[t] \in {"body", "merge"} /\ ~hand[t].astray /\ hand[t].from = p

JustReceived(t) ==
  \A p \in Process \ wrapped : Holds(t, p) =>
    /\ hand[t].ts <= currentLamportTime[p]
    /\ \A i \in HeadersOf(p, Home[t]) : net[<<p, Home[t]>>][i].ts # hand[t].ts
    /\ \A u \in Thread \ {t} :
         /\ Owes(u, Home[t]) /\ Home[u] = p => hand[u].ts # hand[t].ts
         /\ Holds(u, p) /\ Home[u] = Home[t] => hand[u].ts # hand[t].ts

\* With IndInv, inductive.
TimestampsDiffer == OnNetwork /\ \A t \in Thread : YetToSend(t) /\ JustReceived(t)

\* A packet in two messages is as good as one: send and receive behave as if
\* they were atomic, and a packet is lost only by a process one of whose own
\* timeouts went wrong.  What an astray receive takes for a timestamp makes the
\* clock go forward only, until a clock has wrapped around.
inTransitBar ==
  LET OnNetworks == {{[from |-> c[1], to |-> c[2], ts |-> net[c][i].ts] :
                        i \in {j \in DOMAIN net[c] : net[c][j].part = "header"}} :
                     c \in {d \in DOMAIN net : d[1] \notin wrapped}}
      WithSenders == {{[from |-> Home[t], to |-> todo[t][i][1], ts |-> hand[t].ts] :
                        i \in {j \in DOMAIN todo[t] : todo[t][j][2] = "header"}} :
                      t \in {u \in Thread : Home[u] \notin wrapped}}
      WithRecipients == {[from |-> hand[t].from, to |-> Home[t], ts |-> hand[t].ts] :
                        t \in {u \in Thread : \E p \in Process \ wrapped : Holds(u, p)}}
  IN (UNION OnNetworks) \cup (UNION WithSenders) \cup WithRecipients

Abstract == INSTANCE LogicalClock WITH clock <- currentLamportTime, inTransit <- inTransitBar,
                                       faulty <- {Home[t] : t \in timedOut}

ImplementsLogicalClock == Abstract!Spec

=============================================================================
