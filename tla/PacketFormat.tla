---------------------------- MODULE PacketFormat ----------------------------
(***************************************************************************)
(* What a packet looks like on its way, byte by byte, and in a set.        *)
(*                                                                         *)
(* MpiOptimizedCommunicator writes its time, its type and its text one     *)
(* after the other into one message.  MpiSimpleCommunicator sends a        *)
(* RawPacket, whose layout it has told MPI, and then the text.  A          *)
(* std::unordered_set of packets compares and hashes them without their    *)
(* time.  The module takes one packet through each of the two formats, and *)
(* compares it with another one.                                           *)
(***************************************************************************)
EXTENDS Naturals, Sequences

CONSTANTS
  BYTE,              \* the values of a byte; 256, less in the runs
  LAMPORT_TIME_SIZE, MESSAGE_TYPE_SIZE, PACKET_LENGTH_SIZE,  \* sizeof: 8, 1, 4
  hashCombine(_),    \* what hashCombine makes of a list of values
  Times, Types, Sources, Texts   \* the packets considered; a text is bytes

\* rest[k]: what is left of a number when its k lowest bytes are gone.
Rest(n) ==
  LET rest[k \in Nat] == IF k = 0 THEN n ELSE rest[k - 1] \div BYTE
  IN rest

\* The numbers that an unsigned integer of some bytes can hold.
IsUnsigned(n, size) == n \in Nat /\ Rest(n)[size] = 0

ASSUME FormatAssumption ==
  /\ BYTE \in Nat /\ BYTE >= 2
  /\ {LAMPORT_TIME_SIZE, MESSAGE_TYPE_SIZE, PACKET_LENGTH_SIZE} \subseteq Nat \ {0}
  /\ \A lamportTime \in Times : IsUnsigned(lamportTime, LAMPORT_TIME_SIZE)
  /\ \A messageType \in Types : IsUnsigned(messageType, MESSAGE_TYPE_SIZE)
  /\ \A text \in Texts : /\ text \in Seq(0 .. BYTE - 1)
                         /\ IsUnsigned(Len(text), PACKET_LENGTH_SIZE)

VARIABLES
  packet,   \* a packet sent
  other,    \* another packet
  garbage   \* what memory holds where nothing was written

vars == <<packet, other, garbage>>

Packets == [lamportTime : Times, source : Sources, messageType : Types, message : Texts]

Init == packet \in Packets /\ other \in Packets /\ garbage \in {0, BYTE - 1}

Next == UNCHANGED vars

Spec == Init /\ [][Next]_vars

\* A number as an unsigned integer of some bytes, the lowest first, and back.
Bytes(n, size) == [i \in 1 .. size |-> Rest(n)[i - 1] % BYTE]

Number(bytes) ==
  LET highest[k \in 0 .. Len(bytes)] ==   \* the number that the k highest bytes are
        IF k = 0 THEN 0 ELSE bytes[Len(bytes) - k + 1] + BYTE * highest[k - 1]
  IN highest[Len(bytes)]

-----------------------------------------------------------------------------
(***************************************************************************)
(* MpiOptimizedCommunicator: one message.                                  *)
(***************************************************************************)

HeaderSize == LAMPORT_TIME_SIZE + MESSAGE_TYPE_SIZE

\* Mutant: the type is written first.
encodeTypeFirst(lamportTime, messageType, message) ==
  Bytes(messageType, MESSAGE_TYPE_SIZE) \o Bytes(lamportTime, LAMPORT_TIME_SIZE) \o message

encode(lamportTime, messageType, message) ==
  Bytes(lamportTime, LAMPORT_TIME_SIZE) \o Bytes(messageType, MESSAGE_TYPE_SIZE) \o message

getPacket(encoded, source) ==
  [lamportTime |-> Number(SubSeq(encoded, 1, LAMPORT_TIME_SIZE)),
   source      |-> source,
   messageType |-> Number(SubSeq(encoded, LAMPORT_TIME_SIZE + 1, HeaderSize)),
   message     |-> SubSeq(encoded, HeaderSize + 1, Len(encoded))]

-----------------------------------------------------------------------------
(***************************************************************************)
(* MpiSimpleCommunicator: a RawPacket, and the text if there is one.       *)
(***************************************************************************)

Size == <<LAMPORT_TIME_SIZE, MESSAGE_TYPE_SIZE, PACKET_LENGTH_SIZE>>

\* offsetof the three fields: the length is aligned to its size.
Offset ==
  LET padded == HeaderSize + PACKET_LENGTH_SIZE - 1
  IN <<0, LAMPORT_TIME_SIZE, padded - (padded % PACKET_LENGTH_SIZE)>>

Field(i) == Offset[i] + 1 .. Offset[i] + Size[i]

\* Where a RawPacket lies in memory, the padding before the length included.
RawPacket(fields) ==
  [b \in 1 .. Offset[3] + Size[3] |->
     IF \E i \in 1 .. 3 : b \in Field(i)
     THEN LET i == CHOOSE i \in 1 .. 3 : b \in Field(i)
          IN Bytes(fields[i], Size[i])[b - Offset[i]]
     ELSE garbage]

\* Mutant: the length is registered with the MPI type of the message type.
mpiRawPacketTypeNarrow == Field(1) \cup Field(2) \cup {Offset[3] + 1}

\* The bytes MPI has been told to transfer.
mpiRawPacketType == Field(1) \cup Field(2) \cup Field(3)

\* The RawPacket of the recipient, uninitialized before.
Transferred(raw) ==
  [b \in DOMAIN raw |-> IF b \in mpiRawPacketType THEN raw[b] ELSE garbage]

Read(raw, i) == Number(SubSeq(raw, Offset[i] + 1, Offset[i] + Size[i]))

\* The recipient makes room for as much text as the header announces, all zero,
\* and receives the text into it.
toPacket(raw, source, text) ==
  [lamportTime |-> Read(raw, 1),
   source      |-> source,
   messageType |-> Read(raw, 2),
   message     |-> [i \in 1 .. Read(raw, 3) |-> IF i <= Len(text) THEN text[i] ELSE 0]]

-----------------------------------------------------------------------------
(***************************************************************************)
(* Packets in a std::unordered_set.                                        *)
(***************************************************************************)

\* operator== of Packet.
Equal(p, q) ==
  p.source = q.source /\ p.messageType = q.messageType /\ p.message = q.message

\* Mutant: every field counts.
HashAll(p) == hashCombine(<<p.lamportTime, p.source, p.messageType, p.message>>)

\* std::hash of a Packet.
Hash(p) == hashCombine(<<p.source, p.messageType, p.message>>)

-----------------------------------------------------------------------------
(***************************************************************************)
(* Properties.                                                             *)
(***************************************************************************)

\* What one process encodes another one gets, bit for bit: the offsets of encode
\* and getPacket agree, and a text may be empty or hold a zero byte.
OptimizedRoundTrip ==
  getPacket(encode(packet.lamportTime, packet.messageType, packet.message), packet.source)
    = packet

\* "The following 'using' and 'define' sections always have to match"
\* (MpiSimpleCommunicator.h): the layout of RawPacket and the one MPI was told
\* do, and the length a recipient makes room for is the text's, whatever the
\* padding and the memory of the recipient hold.
SimpleRoundTrip ==
  LET raw == RawPacket(<<packet.lamportTime, packet.messageType, Len(packet.message)>>)
  IN toPacket(Transferred(raw), packet.source, packet.message) = packet

\* What std::unordered_set asks of its elements: equal packets have one hash,
\* whatever their timestamps are.
EqualPacketsHashAlike == Equal(packet, other) => Hash(packet) = Hash(other)

=============================================================================
