------------------------- MODULE PacketFormatProof -------------------------
(***************************************************************************)
(* Theorems about PacketFormat, for bytes of any range, fields of any size *)
(* and any packets that fit in them: both formats give back the packet.    *)
(***************************************************************************)
EXTENDS PacketFormat, SequenceLemmas

-----------------------------------------------------------------------------
(***************************************************************************)
(* Numbers and their bytes.                                                *)
(***************************************************************************)

\* Division by a base.
LEMMA Division ==
  ASSUME NEW base \in Nat, base >= 2, NEW n \in Nat
  PROVE  /\ n \div base \in Nat /\ n % base \in Nat /\ n % base \in 0 .. base - 1
         /\ (n % base) + base * (n \div base) = n
<1>1. n \div base \in Nat /\ n % base \in Nat /\ n % base \in 0 .. base - 1
  OBVIOUS
<1>2. (n % base) + base * (n \div base) = n
  OBVIOUS
<1>3. QED
  BY <1>1, <1>2

\* What Rest is: each byte that goes is a division.
LEMMA RestIs ==
  ASSUME NEW n \in Nat
  PROVE  /\ Rest(n) \in [Nat -> Nat] /\ Rest(n)[0] = n
         /\ \A k \in Nat : Rest(n)[k + 1] = Rest(n)[k] \div BYTE
<1> DEFINE step == [k \in Nat |-> [q \in Nat |-> q \div BYTE]]
           Body(f) == [k \in Nat |-> IF k = 0 THEN n ELSE f[k - 1] \div BYTE]
<1>1. \A q \in Nat : q \div BYTE \in Nat
  BY FormatAssumption, Division
<1>2. step \in [Nat -> [Nat -> Nat]]
  BY <1>1
<1>3. \A k \in Nat : \A q \in Nat : step[k][q] = q \div BYTE
  OBVIOUS
<1> HIDE DEF step
<1>4. PICK h \in [Nat -> Nat] : h[0] = n /\ \A k \in Nat : h[k + 1] = step[k][h[k]]
  <2>1. PICK g : Iterates(Nat, n, step, g)
    BY <1>2, PrimitiveRecursion
  <2>2. QED
    BY <2>1 DEF Iterates
<1>5. h = Body(h)
  <2>1. ASSUME NEW k \in Nat
        PROVE  h[k] = IF k = 0 THEN n ELSE h[k - 1] \div BYTE
    <3>1. CASE k = 0
      BY <1>4, <3>1
    <3>2. CASE k # 0
      <4>1. k - 1 \in Nat /\ (k - 1) + 1 = k /\ h[k - 1] \in Nat
        BY <3>2
      <4>2. QED
        BY <1>3, <1>4, <3>2, <4>1
    <3>3. QED
      BY <3>1, <3>2
  <2>2. QED
    BY <2>1
<1>6. Rest(n) = CHOOSE f : f = Body(f)
  BY DEF Rest
<1>7. Rest(n) = Body(Rest(n))
  <2> HIDE DEF Body
  <2>1. QED
    BY <1>5, <1>6
<1>8. \A k \in Nat : Rest(n)[k] = IF k = 0 THEN n ELSE Rest(n)[k - 1] \div BYTE
  <2>1. \A k \in Nat : Body(Rest(n))[k] = IF k = 0 THEN n ELSE Rest(n)[k - 1] \div BYTE
    OBVIOUS
  <2> HIDE DEF Body
  <2>2. QED
    BY <1>7, <2>1, Zenon
<1>9. Rest(n)[0] = n
  BY <1>8
<1>10. \A k \in Nat : Rest(n)[k + 1] = Rest(n)[k] \div BYTE
  <2>1. ASSUME NEW k \in Nat
        PROVE  Rest(n)[k + 1] = Rest(n)[k] \div BYTE
    <3>1. k + 1 \in Nat /\ k + 1 # 0 /\ (k + 1) - 1 = k
      OBVIOUS
    <3>2. QED
      BY <1>8, <3>1
  <2>2. QED
    BY <2>1
<1>11. \A k \in Nat : Rest(n)[k] = h[k]
  <2> DEFINE S == {k \in Nat : Rest(n)[k] # h[k]}
  <2>1. ASSUME S # {}
        PROVE  FALSE
    <3>1. PICK k \in S : \A l \in S : k <= l
      BY <2>1, Least
    <3>2. k \in Nat /\ Rest(n)[k] # h[k]
      OBVIOUS
    <3>3. k # 0
      BY <1>4, <1>9, <3>2
    <3>4. PICK l \in Nat : k = l + 1
      BY <3>2, <3>3
    <3>5. Rest(n)[l] = h[l] /\ h[l] \in Nat
      BY <3>1, <3>4
    <3>6. Rest(n)[k] = Rest(n)[l] \div BYTE /\ h[k] = step[l][h[l]]
      BY <1>4, <1>10, <3>4
    <3>7. step[l][h[l]] = h[l] \div BYTE
      BY <1>3, <3>5
    <3>8. QED
      BY <3>2, <3>5, <3>6, <3>7
  <2>2. QED
    BY <2>1
<1>12. Rest(n) \in [Nat -> Nat]
  <2>1. Rest(n) = [k \in Nat |-> Rest(n)[k]]
    BY <1>7
  <2>2. \A k \in Nat : Rest(n)[k] \in Nat
    BY <1>11
  <2> HIDE DEF Body
  <2>3. QED
    BY <2>1, <2>2
<1>13. QED
  BY <1>9, <1>10, <1>12

\* There are the numbers that the highest bytes of some bytes are.
Highest(bytes, high) ==
  /\ high \in [0 .. Len(bytes) -> Nat] /\ high[0] = 0
  /\ \A k \in 0 .. Len(bytes) - 1 :
       high[k + 1] = bytes[Len(bytes) - k] + BYTE * high[k]

LEMMA NumberIs ==
  ASSUME NEW bytes \in Seq(Nat)
  PROVE  \E high : Highest(bytes, high) /\ Number(bytes) = high[Len(bytes)]
<1> DEFINE N == Len(bytes)
           step == [k \in Nat |-> [n \in Nat |-> IF k < N THEN bytes[N - k] + BYTE * n ELSE 0]]
           Body(f) == [k \in 0 .. N |-> IF k = 0 THEN 0 ELSE bytes[N - k + 1] + BYTE * f[k - 1]]
<1>1. N \in Nat /\ \A i \in 1 .. N : bytes[i] \in Nat
  OBVIOUS
<1>2. BYTE \in Nat
  BY FormatAssumption
<1> HIDE DEF N
<1>3. ASSUME NEW k \in Nat, NEW n \in Nat
      PROVE  (IF k < N THEN bytes[N - k] + BYTE * n ELSE 0) \in Nat
  <2>1. k < N => N - k \in 1 .. N
    BY <1>1
  <2>2. BYTE * n \in Nat
    BY <1>2
  <2>3. QED
    BY <1>1, <2>1, <2>2
<1>4. step \in [Nat -> [Nat -> Nat]]
  BY <1>3
<1>5. \A k \in Nat : \A n \in Nat : k < N => step[k][n] = bytes[N - k] + BYTE * n
  OBVIOUS
<1> HIDE DEF step
<1>6. PICK h \in [Nat -> Nat] : h[0] = 0 /\ \A k \in Nat : h[k + 1] = step[k][h[k]]
  <2>1. PICK g : Iterates(Nat, 0, step, g)
    BY <1>4, PrimitiveRecursion
  <2>2. QED
    BY <2>1 DEF Iterates
<1> DEFINE g == [k \in 0 .. N |-> h[k]]
<1>7. \A k \in 0 .. N : g[k] = h[k] /\ g[k] \in Nat
  OBVIOUS
<1>8. \A k \in 0 .. N - 1 : g[k + 1] = bytes[N - k] + BYTE * g[k]
  <2>1. ASSUME NEW k \in 0 .. N - 1
        PROVE  g[k + 1] = bytes[N - k] + BYTE * g[k]
    <3>1. k \in Nat /\ k < N /\ k \in 0 .. N /\ k + 1 \in 0 .. N
      BY <1>1
    <3>2. h[k + 1] = bytes[N - k] + BYTE * h[k]
      BY <1>5, <1>6, <3>1
    <3>3. QED
      BY <1>7, <3>1, <3>2
  <2>2. QED
    BY <2>1
<1>9. g = Body(g)
  <2>1. ASSUME NEW k \in 0 .. N
        PROVE  g[k] = IF k = 0 THEN 0 ELSE bytes[N - k + 1] + BYTE * g[k - 1]
    <3>1. CASE k = 0
      BY <1>1, <1>6, <1>7, <3>1
    <3>2. CASE k # 0
      <4>1. PICK l \in 0 .. N - 1 : k = l + 1
        BY <1>1, <3>2
      <4>2. N - k + 1 = N - l /\ k - 1 = l
        BY <1>1, <4>1
      <4>3. QED
        BY <1>8, <3>2, <4>1, <4>2
    <3>3. QED
      BY <3>1, <3>2
  <2>2. g = [k \in 0 .. N |-> g[k]]
    OBVIOUS
  <2> HIDE DEF g
  <2>3. QED
    BY <2>1, <2>2
<1> HIDE DEF g
<1> DEFINE high == CHOOSE f : f = Body(f)
<1>10. Number(bytes) = high[N]
  BY DEF Number, N
<1>11. high = Body(high)
  <2> HIDE DEF Body
  <2>1. QED
    BY <1>9
<1> HIDE DEF high
<1>12. \A k \in 0 .. N : high[k] = IF k = 0 THEN 0 ELSE bytes[N - k + 1] + BYTE * high[k - 1]
  <2>1. \A k \in 0 .. N : Body(high)[k] = IF k = 0 THEN 0 ELSE bytes[N - k + 1] + BYTE * high[k - 1]
    OBVIOUS
  <2> HIDE DEF Body
  <2>2. QED
    BY <1>11, <2>1, Zenon
<1>13. high[0] = 0
  BY <1>1, <1>12
<1>14. \A k \in 0 .. N - 1 : high[k + 1] = bytes[N - k] + BYTE * high[k]
  <2>1. ASSUME NEW k \in 0 .. N - 1
        PROVE  high[k + 1] = bytes[N - k] + BYTE * high[k]
    <3>1. k + 1 \in 0 .. N /\ k + 1 # 0 /\ (k + 1) - 1 = k /\ N - (k + 1) + 1 = N - k
      BY <1>1
    <3>2. QED
      BY <1>12, <3>1
  <2>2. QED
    BY <2>1
<1>15. \A k \in 0 .. N : high[k] = g[k]
  <2> DEFINE S == {k \in Nat : k <= N /\ high[k] # g[k]}
  <2>1. ASSUME S # {}
        PROVE  FALSE
    <3>1. PICK k \in S : \A l \in S : k <= l
      BY <2>1, Least
    <3>2. k \in Nat /\ k <= N /\ high[k] # g[k]
      OBVIOUS
    <3>3. k # 0
      <4>1. 0 \in 0 .. N
        BY <1>1
      <4>2. g[0] = 0
        BY <1>6, <1>7, <4>1
      <4>3. QED
        BY <1>13, <3>2, <4>2
    <3>4. PICK l \in Nat : k = l + 1
      <4>1. \A m \in Nat : m # 0 => m - 1 \in Nat /\ m = (m - 1) + 1
        OBVIOUS
      <4>2. QED
        BY <3>2, <3>3, <4>1, Zenon
    <3>5. l \in 0 .. N - 1 /\ l <= N /\ ~(k <= l)
      BY <1>1, <3>2, <3>4
    <3>6. high[l] = g[l]
      BY <3>1, <3>4, <3>5
    <3>7. QED
      BY <1>8, <1>14, <3>2, <3>4, <3>5, <3>6
  <2>2. QED
    BY <1>1, <2>1
<1>16. high \in [0 .. N -> Nat]
  <2>1. high = [k \in 0 .. N |-> high[k]]
    BY <1>11
  <2>2. \A k \in 0 .. N : high[k] \in Nat
    BY <1>7, <1>15
  <2> HIDE DEF Body
  <2>3. QED
    BY <2>1, <2>2
<1>17. Highest(bytes, high)
  BY <1>13, <1>14, <1>16 DEF Highest, N
<1>18. QED
  BY <1>10, <1>17 DEF N

\* The bytes of a number.
LEMMA BytesAre ==
  ASSUME NEW size \in Nat, NEW n \in Nat
  PROVE  /\ Bytes(n, size) \in Seq(Nat) /\ Len(Bytes(n, size)) = size
         /\ \A i \in 1 .. size : Bytes(n, size)[i] = Rest(n)[i - 1] % BYTE
<1>1. ASSUME NEW i \in 1 .. size
      PROVE  Rest(n)[i - 1] % BYTE \in Nat
  <2>1. i - 1 \in Nat
    OBVIOUS
  <2>2. Rest(n)[i - 1] \in Nat
    BY <2>1, RestIs
  <2>3. QED
    BY <2>2, FormatAssumption, Division
<1>2. QED
  BY <1>1 DEF Bytes

\* A number that fits in some bytes is the number that they are.
LEMMA NumberOfBytes ==
  ASSUME NEW size \in Nat, NEW n, IsUnsigned(n, size)
  PROVE  Number(Bytes(n, size)) = n
<1> DEFINE bytes == Bytes(n, size)
<1>1. n \in Nat /\ Rest(n)[size] = 0
  BY DEF IsUnsigned
<1>2. /\ bytes \in Seq(Nat) /\ Len(bytes) = size
      /\ \A i \in 1 .. size : bytes[i] = Rest(n)[i - 1] % BYTE
  BY <1>1, BytesAre
<1>3. /\ \A k \in Nat : Rest(n)[k] \in Nat
      /\ Rest(n)[0] = n
      /\ \A k \in Nat : Rest(n)[k + 1] = Rest(n)[k] \div BYTE
  BY <1>1, RestIs
<1> HIDE DEF bytes
<1>4. PICK high : Highest(bytes, high) /\ Number(bytes) = high[size]
  BY <1>2, NumberIs
<1>5. /\ high[0] = 0
      /\ \A k \in 0 .. size - 1 : high[k + 1] = bytes[size - k] + BYTE * high[k]
  BY <1>2, <1>4 DEF Highest
<1>6. \A k \in 0 .. size : high[k] = Rest(n)[size - k]
  <2> DEFINE S == {k \in Nat : k <= size /\ high[k] # Rest(n)[size - k]}
  <2>1. ASSUME S # {}
        PROVE  FALSE
    <3>1. PICK k \in S : \A l \in S : k <= l
      BY <2>1, Least
    <3>2. k \in Nat /\ k <= size /\ high[k] # Rest(n)[size - k]
      OBVIOUS
    <3>3. k # 0
      <4>1. size - 0 = size
        OBVIOUS
      <4>2. QED
        BY <1>1, <1>5, <3>2, <4>1
    <3>4. PICK l \in Nat : k = l + 1
      <4>1. \A m \in Nat : m # 0 => m - 1 \in Nat /\ m = (m - 1) + 1
        OBVIOUS
      <4>2. QED
        BY <3>2, <3>3, <4>1, Zenon
    <3>5. /\ l \in 0 .. size - 1 /\ l <= size /\ ~(k <= l)
          /\ size - k \in Nat /\ size - l = (size - k) + 1 /\ size - l \in 1 .. size
          /\ (size - l) - 1 = size - k
      BY <3>2, <3>4
    <3>6. high[l] = Rest(n)[size - l]
      BY <3>1, <3>4, <3>5
    <3> DEFINE q == Rest(n)[size - k]
    <3>7. q \in Nat /\ high[l] = q \div BYTE
      <4>1. Rest(n)[(size - k) + 1] = Rest(n)[size - k] \div BYTE
        BY <1>3, <3>5
      <4>2. QED
        BY <1>3, <3>5, <3>6, <4>1
    <3>8. bytes[size - l] = q % BYTE
      BY <1>2, <3>5
    <3>9. high[k] = bytes[size - l] + BYTE * high[l]
      BY <1>5, <3>4, <3>5
    <3> HIDE DEF q
    <3>10. high[k] = q
      <4>1. (q % BYTE) + BYTE * (q \div BYTE) = q
        BY <3>7, FormatAssumption, Division
      <4>2. QED
        BY <3>7, <3>8, <3>9, <4>1
    <3>11. QED
      BY <3>2, <3>10 DEF q
  <2>2. QED
    BY <2>1
<1>7. high[size] = Rest(n)[0]
  <2>1. size \in 0 .. size /\ size - size = 0
    OBVIOUS
  <2>2. QED
    BY <1>6, <2>1
<1>8. QED
  BY <1>3, <1>4, <1>7 DEF bytes

-----------------------------------------------------------------------------
(***************************************************************************)
(* Parts of messages.                                                      *)
(***************************************************************************)

\* A part of a message, byte by byte.
LEMMA PartIs ==
  ASSUME NEW message \in Seq(Nat), NEW part \in Seq(Nat), NEW from \in Nat,
         from + Len(part) <= Len(message),
         \A i \in 1 .. Len(part) : part[i] = message[from + i]
  PROVE  SubSeq(message, from + 1, from + Len(part)) = part
<1> DEFINE sub == SubSeq(message, from + 1, from + Len(part))
<1>1. /\ sub \in Seq(Nat) /\ Len(sub) = Len(part)
      /\ \A i \in 1 .. Len(part) : sub[i] = message[from + i]
  OBVIOUS
<1> HIDE DEF sub
<1>2. QED
  BY <1>1 DEF sub

\* A position of the second of two parts is one of the whole.
LEMMA Beyond == \A m, n \in Nat : \A i \in 1 .. n : \E k \in 1 .. m + n : k = m + i
OBVIOUS

\* Three sequences one after the other.
Joined(a, b, c) == (a \o b) \o c

\* Each is there.
LEMMA ThreeParts ==
  ASSUME NEW a \in Seq(Nat), NEW b \in Seq(Nat), NEW c \in Seq(Nat)
  PROVE  /\ SubSeq(Joined(a, b, c), 1, Len(a)) = a
         /\ SubSeq(Joined(a, b, c), Len(a) + 1, Len(a) + Len(b)) = b
         /\ SubSeq(Joined(a, b, c), Len(a) + Len(b) + 1, Len(Joined(a, b, c))) = c
<1> DEFINE ab == a \o b
           abc == ab \o c
<1>1. /\ ab \in Seq(Nat) /\ Len(ab) = Len(a) + Len(b)
      /\ \A i \in 1 .. Len(a) + Len(b) : ab[i] = IF i <= Len(a) THEN a[i] ELSE b[i - Len(a)]
  BY ConcatProperties, Zenon
<1> HIDE DEF ab
<1>2. /\ abc \in Seq(Nat) /\ Len(abc) = Len(ab) + Len(c)
      /\ \A i \in 1 .. Len(ab) + Len(c) : abc[i] = IF i <= Len(ab) THEN ab[i] ELSE c[i - Len(ab)]
  <2>1. ab \in Seq(Nat)
    BY <1>1
  <2>2. QED
    BY <2>1, ConcatProperties, Zenon
<1> HIDE DEF abc
<1>3. Len(a) \in Nat /\ Len(b) \in Nat /\ Len(c) \in Nat /\ Len(ab) \in Nat
  BY <1>1
<1>4. \A i \in 1 .. Len(a) : a[i] = abc[0 + i]
  <2>1. \A i \in 1 .. Len(a) : /\ 0 + i = i /\ i \in 1 .. Len(a) + Len(b) /\ i <= Len(a)
                               /\ i \in 1 .. Len(ab) + Len(c) /\ i <= Len(ab)
    BY <1>1, <1>3
  <2>2. QED
    BY <1>1, <1>2, <2>1
<1>5. \A i \in 1 .. Len(b) : b[i] = abc[Len(a) + i]
  <2>1. ASSUME NEW i \in 1 .. Len(b)
        PROVE  b[i] = abc[Len(a) + i]
    <3>1. PICK k \in 1 .. Len(a) + Len(b) : k = Len(a) + i
      BY <1>3, Beyond, Zenon
    <3>2. ~(k <= Len(a)) /\ k - Len(a) = i /\ k \in 1 .. Len(ab) + Len(c) /\ k <= Len(ab)
      BY <1>1, <1>3, <3>1
    <3>3. QED
      BY <1>1, <1>2, <3>1, <3>2
  <2>2. QED
    BY <2>1
<1>6. \A i \in 1 .. Len(c) : c[i] = abc[Len(ab) + i]
  <2>1. ASSUME NEW i \in 1 .. Len(c)
        PROVE  c[i] = abc[Len(ab) + i]
    <3>1. PICK k \in 1 .. Len(ab) + Len(c) : k = Len(ab) + i
      BY <1>3, Beyond, Zenon
    <3>2. ~(k <= Len(ab)) /\ k - Len(ab) = i
      BY <1>3, <3>1
    <3>3. QED
      BY <1>2, <3>1, <3>2
  <2>2. QED
    BY <2>1
<1>7. SubSeq(abc, 1, Len(a)) = a
  <2>1. SubSeq(abc, 0 + 1, 0 + Len(a)) = a
    BY <1>1, <1>2, <1>3, <1>4, PartIs
  <2>2. QED
    BY <1>3, <2>1
<1>8. SubSeq(abc, Len(a) + 1, Len(a) + Len(b)) = b
  <2>1. Len(a) + Len(b) <= Len(abc)
    BY <1>1, <1>2, <1>3
  <2>2. abc \in Seq(Nat)
    BY <1>2
  <2>3. QED
    BY <1>3, <1>5, <2>1, <2>2, PartIs
<1>9. SubSeq(abc, Len(ab) + 1, Len(ab) + Len(c)) = c
  <2>1. Len(ab) + Len(c) <= Len(abc)
    BY <1>1, <1>2, <1>3
  <2>2. abc \in Seq(Nat)
    BY <1>2
  <2>3. QED
    BY <1>3, <1>6, <2>1, <2>2, PartIs
<1>10. QED
  BY <1>1, <1>2, <1>7, <1>8, <1>9 DEF ab, abc, Joined

-----------------------------------------------------------------------------
(***************************************************************************)
(* The packets.                                                            *)
(***************************************************************************)

\* What the module takes through the formats.
Given == packet \in Packets /\ other \in Packets /\ garbage \in {0, BYTE - 1}

\* It stays.
LEMMA GivenAlways == Spec => []Given
<1>1. Init => Given
  BY DEF Init, Given
<1>2. Given /\ [Next]_vars => Given'
  BY DEF Given, Next, vars
<1>3. QED
  BY <1>1, <1>2, PTL DEF Spec

\* Its fields fit in the integers that carry them.
LEMMA FieldsFit ==
  ASSUME NEW p \in Packets
  PROVE  /\ IsUnsigned(p.lamportTime, LAMPORT_TIME_SIZE) /\ p.lamportTime \in Nat
         /\ IsUnsigned(p.messageType, MESSAGE_TYPE_SIZE) /\ p.messageType \in Nat
         /\ p.message \in Seq(Nat)
         /\ IsUnsigned(Len(p.message), PACKET_LENGTH_SIZE) /\ Len(p.message) \in Nat
<1>1. p.lamportTime \in Times /\ p.messageType \in Types /\ p.message \in Texts
  BY DEF Packets
<1>2. /\ IsUnsigned(p.lamportTime, LAMPORT_TIME_SIZE)
      /\ IsUnsigned(p.messageType, MESSAGE_TYPE_SIZE)
      /\ IsUnsigned(Len(p.message), PACKET_LENGTH_SIZE)
      /\ p.message \in Seq(0 .. BYTE - 1)
  BY <1>1, FormatAssumption
<1>3. p.message \in Seq(Nat)
  <2>1. \A b \in 0 .. BYTE - 1 : b \in Nat
    BY FormatAssumption
  <2>2. ASSUME NEW S, \A b \in S : b \in Nat, NEW t \in Seq(S)
        PROVE  t \in Seq(Nat)
    <3>1. Len(t) \in Nat /\ t = [i \in 1 .. Len(t) |-> t[i]]
      OBVIOUS
    <3>2. \A i \in 1 .. Len(t) : t[i] \in S
      OBVIOUS
    <3>3. \A i \in 1 .. Len(t) : t[i] \in Nat
      BY <2>2, <3>2
    <3>4. QED
      BY <3>1, <3>3
  <2>3. QED
    BY <1>2, <2>1, <2>2
<1>4. QED
  BY <1>2, <1>3 DEF IsUnsigned

\* The sizes.
LEMMA Sizes ==
  /\ LAMPORT_TIME_SIZE \in Nat /\ LAMPORT_TIME_SIZE >= 1
  /\ MESSAGE_TYPE_SIZE \in Nat /\ MESSAGE_TYPE_SIZE >= 1
  /\ PACKET_LENGTH_SIZE \in Nat /\ PACKET_LENGTH_SIZE >= 1
BY FormatAssumption

\* What encode writes, getPacket reads, for any packet, any sizes of its fields and
\* any number of values of a byte.
THEOREM OptimizedFormat == Spec => []OptimizedRoundTrip
<1>1. ASSUME NEW p \in Packets
      PROVE  getPacket(encode(p.lamportTime, p.messageType, p.message), p.source) = p
  <2> DEFINE a == Bytes(p.lamportTime, LAMPORT_TIME_SIZE)
             b == Bytes(p.messageType, MESSAGE_TYPE_SIZE)
             c == p.message
             abc == Joined(a, b, c)
  <2>1. a \in Seq(Nat) /\ Len(a) = LAMPORT_TIME_SIZE /\ Number(a) = p.lamportTime
    BY FieldsFit, Sizes, BytesAre, NumberOfBytes
  <2>2. b \in Seq(Nat) /\ Len(b) = MESSAGE_TYPE_SIZE /\ Number(b) = p.messageType
    BY FieldsFit, Sizes, BytesAre, NumberOfBytes
  <2>3. c \in Seq(Nat)
    BY FieldsFit
  <2>4. encode(p.lamportTime, p.messageType, p.message) = abc
    BY DEF encode, Joined
  <2>5. c = p.message
    OBVIOUS
  <2> HIDE DEF a, b, c
  <2>6. /\ SubSeq(abc, 1, Len(a)) = a
        /\ SubSeq(abc, Len(a) + 1, Len(a) + Len(b)) = b
        /\ SubSeq(abc, Len(a) + Len(b) + 1, Len(abc)) = c
    <3>1. a \in Seq(Nat) /\ b \in Seq(Nat) /\ c \in Seq(Nat)
      BY <2>1, <2>2, <2>3
    <3>2. QED
      BY <3>1, ThreeParts
  <2> HIDE DEF abc
  <2>7. /\ SubSeq(abc, 1, LAMPORT_TIME_SIZE) = a
        /\ SubSeq(abc, LAMPORT_TIME_SIZE + 1, HeaderSize) = b
        /\ SubSeq(abc, HeaderSize + 1, Len(abc)) = c
    BY <2>1, <2>2, <2>6 DEF HeaderSize
  <2>8. getPacket(abc, p.source) = [lamportTime |-> p.lamportTime, source |-> p.source,
                                    messageType |-> p.messageType, message |-> p.message]
    BY <2>1, <2>2, <2>5, <2>7 DEF getPacket
  <2>9. p = [lamportTime |-> p.lamportTime, source |-> p.source,
             messageType |-> p.messageType, message |-> p.message]
    BY DEF Packets
  <2>10. QED
    BY <2>4, <2>8, <2>9
<1>2. Given => OptimizedRoundTrip
  BY <1>1 DEF Given, OptimizedRoundTrip
<1>3. QED
  BY <1>2, GivenAlways, PTL

\* The fields of a RawPacket follow each other, with a gap before the last.
LEMMA Layout ==
  /\ Offset[1] = 0 /\ Size[1] = LAMPORT_TIME_SIZE
  /\ Offset[2] = LAMPORT_TIME_SIZE /\ Size[2] = MESSAGE_TYPE_SIZE
  /\ Offset[3] \in Nat /\ Offset[3] >= LAMPORT_TIME_SIZE + MESSAGE_TYPE_SIZE
  /\ Size[3] = PACKET_LENGTH_SIZE
<1> DEFINE padded == HeaderSize + PACKET_LENGTH_SIZE - 1
<1>1. /\ Offset[1] = 0 /\ Offset[2] = LAMPORT_TIME_SIZE
      /\ Offset[3] = padded - (padded % PACKET_LENGTH_SIZE)
  BY DEF Offset
<1>2. Size[1] = LAMPORT_TIME_SIZE /\ Size[2] = MESSAGE_TYPE_SIZE /\ Size[3] = PACKET_LENGTH_SIZE
  BY DEF Size
<1>3. padded \in Nat
  BY Sizes DEF HeaderSize
<1>4. padded % PACKET_LENGTH_SIZE \in 0 .. PACKET_LENGTH_SIZE - 1
  <2> HIDE DEF padded
  <2>1. \A n \in Nat : \A size \in Nat : size >= 1 => n % size \in 0 .. size - 1
    OBVIOUS
  <2>2. QED
    BY <1>3, <2>1, Sizes
<1>5. HeaderSize \in Nat /\ HeaderSize = LAMPORT_TIME_SIZE + MESSAGE_TYPE_SIZE
  BY Sizes DEF HeaderSize
<1>6. \A h, size, rest \in Nat :
        rest \in 0 .. size - 1 =>
          /\ (h + size - 1) - rest \in Nat
          /\ (h + size - 1) - rest >= h
  OBVIOUS
<1>7. QED
  BY <1>1, <1>2, <1>4, <1>5, <1>6, Sizes

\* No byte belongs to two fields, and all are bytes of the RawPacket.
LEMMA FieldsDiffer ==
  /\ \A i \in 1 .. 3 : Offset[i] \in Nat /\ Size[i] \in Nat
  /\ \A i \in 1 .. 3 : \A b \in Field(i) : /\ b \in 1 .. Offset[3] + Size[3]
                                           /\ b - Offset[i] \in 1 .. Size[i]
  /\ \A i, j \in 1 .. 3 : \A b \in Field(i) : b \in Field(j) => i = j
<1>1. 1 .. 3 = {1, 2, 3}
  OBVIOUS
<1>2. \A i \in 1 .. 3 : Offset[i] \in Nat /\ Size[i] \in Nat
  BY <1>1, Layout, Sizes
<1>3. ASSUME NEW i \in 1 .. 3, NEW b \in Field(i)
      PROVE  /\ b \in 1 .. Offset[3] + Size[3]
             /\ b - Offset[i] \in 1 .. Size[i]
  <2>1. b \in Offset[i] + 1 .. Offset[i] + Size[i]
    BY DEF Field
  <2>2. Offset[i] + Size[i] <= Offset[3] + Size[3]
    BY <1>1, Layout, Sizes
  <2>3. QED
    BY <1>2, <2>1, <2>2
<1>4. ASSUME NEW i \in 1 .. 3, NEW j \in 1 .. 3, NEW b \in Field(i), b \in Field(j)
      PROVE  i = j
  <2>1. /\ b \in Offset[i] + 1 .. Offset[i] + Size[i]
        /\ b \in Offset[j] + 1 .. Offset[j] + Size[j]
    BY <1>4 DEF Field
  <2>2. \A k, l \in 1 .. 3 : k < l => Offset[k] + Size[k] <= Offset[l]
    BY <1>1, Layout, Sizes
  <2>3. ~(i < j) /\ ~(j < i)
    BY <1>2, <2>1, <2>2
  <2>4. QED
    BY <2>3
<1>5. QED
  BY <1>2, <1>3, <1>4

\* What the recipient has of the fields of a RawPacket, and it reads each of them.
LEMMA FieldsArrive ==
  ASSUME Given, NEW fields \in Seq(Nat), Len(fields) = 3
  PROVE  \A i \in 1 .. 3 : IsUnsigned(fields[i], Size[i]) =>
                             Read(Transferred(RawPacket(fields)), i) = fields[i]
<1> DEFINE N == Offset[3] + Size[3]
           raw == RawPacket(fields)
           tr == Transferred(raw)
<1>1. 3 \in 1 .. 3 /\ 1 .. 3 = {1, 2, 3}
  OBVIOUS
<1>2. N \in Nat
  BY <1>1, FieldsDiffer
<1>3. \A i \in 1 .. 3 : fields[i] \in Nat
  <2>1. \A i \in 1 .. Len(fields) : fields[i] \in Nat
    BY ElementOfSeq
  <2>2. QED
    BY <2>1
<1>4. \A i \in 1 .. 3 : \A k \in 1 .. Size[i] : Bytes(fields[i], Size[i])[k] \in Nat
  <2>1. ASSUME NEW n \in Nat, NEW size \in Nat
        PROVE  \A k \in 1 .. size : Bytes(n, size)[k] \in Nat
    <3>1. Bytes(n, size) \in Seq(Nat) /\ Len(Bytes(n, size)) = size
      BY BytesAre
    <3>2. QED
      BY <3>1
  <2>2. QED
    BY <1>3, <2>1, FieldsDiffer
<1>5. garbage \in Nat
  BY FormatAssumption DEF Given
<1> DEFINE Byte(b) == IF \E i \in 1 .. 3 : b \in Field(i)
                      THEN LET i == CHOOSE i \in 1 .. 3 : b \in Field(i)
                           IN Bytes(fields[i], Size[i])[b - Offset[i]]
                      ELSE garbage
<1>6. raw = [b \in 1 .. N |-> Byte(b)]
  BY DEF RawPacket
<1>7. ASSUME NEW i \in 1 .. 3, NEW b \in Field(i)
      PROVE  Byte(b) = Bytes(fields[i], Size[i])[b - Offset[i]]
  <2>1. (CHOOSE j \in 1 .. 3 : b \in Field(j)) = i
    BY FieldsDiffer
  <2>2. QED
    BY <2>1
<1>8. \A b \in 1 .. N : Byte(b) \in Nat
  <2>1. ASSUME NEW b \in 1 .. N
        PROVE  Byte(b) \in Nat
    <3>1. CASE \E i \in 1 .. 3 : b \in Field(i)
      <4>1. PICK i \in 1 .. 3 : b \in Field(i)
        BY <3>1
      <4>2. Byte(b) = Bytes(fields[i], Size[i])[b - Offset[i]]
        BY <1>7, <4>1
      <4>3. b - Offset[i] \in 1 .. Size[i]
        BY <4>1, FieldsDiffer
      <4>4. QED
        BY <1>4, <4>2, <4>3
    <3>2. CASE ~ \E i \in 1 .. 3 : b \in Field(i)
      BY <1>5, <3>2
    <3>3. QED
      BY <3>1, <3>2
  <2>2. QED
    BY <2>1
<1> HIDE DEF Byte, N
<1>9. DOMAIN raw = 1 .. N /\ \A b \in 1 .. N : raw[b] = Byte(b)
  BY <1>6
<1> HIDE DEF raw
<1>10. tr = [b \in 1 .. N |-> IF b \in mpiRawPacketType THEN raw[b] ELSE garbage]
  BY <1>9 DEF Transferred
<1> HIDE DEF tr
<1>11. tr \in Seq(Nat) /\ Len(tr) = N
  <2>1. \A b \in 1 .. N : (IF b \in mpiRawPacketType THEN raw[b] ELSE garbage) \in Nat
    BY <1>5, <1>8, <1>9
  <2>2. QED
    BY <1>2, <1>10, <2>1
<1>12. ASSUME NEW i \in 1 .. 3, NEW b \in Field(i)
       PROVE  tr[b] = Bytes(fields[i], Size[i])[b - Offset[i]]
  <2>1. b \in mpiRawPacketType
    BY <1>1 DEF mpiRawPacketType
  <2>2. b \in 1 .. N
    BY FieldsDiffer DEF N
  <2>3. QED
    BY <1>7, <1>9, <1>10, <2>1, <2>2
<1>13. ASSUME NEW i \in 1 .. 3, IsUnsigned(fields[i], Size[i])
       PROVE  Read(tr, i) = fields[i]
  <2> DEFINE part == Bytes(fields[i], Size[i])
             from == Offset[i]
  <2>1. from \in Nat /\ Size[i] \in Nat /\ fields[i] \in Nat
    BY <1>3, FieldsDiffer
  <2>2. part \in Seq(Nat) /\ Len(part) = Size[i]
    BY <2>1, BytesAre
  <2>3. Number(part) = fields[i]
    BY <1>13, <2>1, NumberOfBytes
  <2>4. \A k \in 1 .. Size[i] : part[k] = tr[from + k]
    <3>1. ASSUME NEW k \in 1 .. Size[i]
          PROVE  part[k] = tr[from + k]
      <4>1. from + k \in Field(i) /\ (from + k) - from = k
        BY <2>1 DEF Field
      <4>2. QED
        BY <1>12, <4>1
    <3>2. QED
      BY <3>1
  <2>5. from + Size[i] <= N
    BY <1>1, Layout, Sizes DEF N
  <2> HIDE DEF part, from
  <2>6. SubSeq(tr, from + 1, from + Size[i]) = part
    BY <1>11, <2>1, <2>2, <2>4, <2>5, PartIs
  <2>7. QED
    BY <2>3, <2>6 DEF Read, from
<1>14. QED
  BY <1>13 DEF tr, raw

\* The layout that MPI was told is the one of RawPacket, for any sizes of the
\* fields, whatever the padding and the memory of the recipient hold.
THEOREM SimpleFormat == Spec => []SimpleRoundTrip
<1>1. ASSUME Given, NEW p \in Packets
      PROVE  LET raw == RawPacket(<<p.lamportTime, p.messageType, Len(p.message)>>)
             IN toPacket(Transferred(raw), p.source, p.message) = p
  <2> DEFINE fields == <<p.lamportTime, p.messageType, Len(p.message)>>
             tr == Transferred(RawPacket(fields))
             text == [i \in 1 .. Read(tr, 3) |-> IF i <= Len(p.message) THEN p.message[i] ELSE 0]
  <2>1. /\ fields \in Seq(Nat) /\ Len(fields) = 3
        /\ fields[1] = p.lamportTime /\ fields[2] = p.messageType /\ fields[3] = Len(p.message)
    BY FieldsFit
  <2> HIDE DEF fields
  <2>2. /\ IsUnsigned(fields[1], Size[1]) /\ IsUnsigned(fields[2], Size[2])
        /\ IsUnsigned(fields[3], Size[3])
    BY <2>1, FieldsFit, Layout
  <2>3. /\ Read(tr, 1) = p.lamportTime /\ Read(tr, 2) = p.messageType
        /\ Read(tr, 3) = Len(p.message)
    <3>1. 1 \in 1 .. 3 /\ 2 \in 1 .. 3 /\ 3 \in 1 .. 3
      OBVIOUS
    <3>2. \A i \in 1 .. 3 : IsUnsigned(fields[i], Size[i]) => Read(tr, i) = fields[i]
      BY <1>1, <2>1, FieldsArrive
    <3>3. QED
      BY <2>1, <2>2, <3>1, <3>2, Zenon
  <2> HIDE DEF tr
  <2>4. text = p.message
    <3>1. p.message \in Seq(Nat)
      BY FieldsFit
    <3>2. p.message = [i \in 1 .. Len(p.message) |-> p.message[i]] /\ Len(p.message) \in Nat
      BY <3>1
    <3>3. \A i \in 1 .. Len(p.message) : i <= Len(p.message)
      BY <3>2
    <3>4. QED
      BY <2>3, <3>2, <3>3
  <2>5. toPacket(tr, p.source, p.message)
          = [lamportTime |-> Read(tr, 1), source |-> p.source,
             messageType |-> Read(tr, 2), message |-> text]
    BY DEF toPacket
  <2> HIDE DEF text
  <2>6. p = [lamportTime |-> p.lamportTime, source |-> p.source,
             messageType |-> p.messageType, message |-> p.message]
    BY DEF Packets
  <2>7. toPacket(tr, p.source, p.message) = p
    BY <2>3, <2>4, <2>5, <2>6
  <2>8. QED
    BY <2>7 DEF tr, fields
<1>2. Given => SimpleRoundTrip
  BY <1>1 DEF Given, SimpleRoundTrip
<1>3. QED
  BY <1>2, GivenAlways, PTL

\* Packets that are equal hash alike, whatever hashCombine computes and whatever the
\* times are.
THEOREM EqualHashAlike == Spec => []EqualPacketsHashAlike
<1>1. EqualPacketsHashAlike
  BY DEF EqualPacketsHashAlike, Equal, Hash
<1>2. QED
  BY <1>1, PTL

=============================================================================
