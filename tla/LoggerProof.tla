---------------------------- MODULE LoggerProof ----------------------------
(***************************************************************************)
(* Theorems about Logger: its threads write the lines in the order of      *)
(* their times and numbers, and as texts the lines have the same order.    *)
(***************************************************************************)
EXTENDS Logger, SequenceLemmas

-----------------------------------------------------------------------------
(***************************************************************************)
(* The digits of a number.                                                 *)
(***************************************************************************)

\* Division by a base: the quotient is smaller than the number.
LEMMA Division ==
  ASSUME NEW base \in Nat, base >= 2, NEW n \in Nat
  PROVE  /\ n \div base \in Nat /\ n % base \in Nat
         /\ n < base => n \div base = 0 /\ n % base = n
         /\ n >= base => n \div base < n
<1>1. n \div base \in Nat /\ n % base \in Nat
  OBVIOUS
<1>2. n < base => n \div base = 0 /\ n % base = n
  OBVIOUS
<1>3. n >= base => n \div base < n
  OBVIOUS
<1>4. QED
  BY <1>1, <1>2, <1>3

\* The smaller number has the smaller quotient, or the smaller last digit.
LEMMA QuotientOrder ==
  ASSUME NEW base \in Nat, base >= 2, NEW m \in Nat, NEW n \in Nat, m < n
  PROVE  \/ m \div base < n \div base
         \/ m \div base = n \div base /\ m % base < n % base
OBVIOUS

\* Both for the base of the numbers.
LEMMA BaseDivision ==
  ASSUME NEW n \in Nat
  PROVE  /\ n \div BASE \in Nat /\ n % BASE \in Nat
         /\ n < BASE => n \div BASE = 0 /\ n % BASE = n
         /\ ~(n < BASE) => n \div BASE < n
<1>1. BASE \in Nat /\ BASE >= 2 /\ (~(n < BASE) => n >= BASE)
  BY LoggerAssumption
<1>2. QED
  BY <1>1, Division

\* f is what toString is, for the numbers up to n.
StringsUpTo(n, f) ==
  f = [i \in 0 .. n |-> IF i < BASE THEN <<Digit(i)>>
                        ELSE Append(f[i \div BASE], Digit(i % BASE))]

\* See above, number by number.
LEMMA StringsUpToIs ==
  ASSUME NEW n \in Nat, NEW f, StringsUpTo(n, f), NEW i \in 0 .. n
  PROVE  f[i] = IF i < BASE THEN <<Digit(i)>> ELSE Append(f[i \div BASE], Digit(i % BASE))
<1> DEFINE F == [k \in 0 .. n |-> IF k < BASE THEN <<Digit(k)>>
                                  ELSE Append(f[k \div BASE], Digit(k % BASE))]
<1>1. f = F
  BY DEF StringsUpTo
<1>2. F[i] = IF i < BASE THEN <<Digit(i)>> ELSE Append(f[i \div BASE], Digit(i % BASE))
  OBVIOUS
<1>3. QED
  BY <1>1, <1>2, Zenon

\* Two such functions agree on the numbers that both have.
LEMMA StringsAgree ==
  ASSUME NEW m \in Nat, NEW n \in Nat, NEW f, NEW g, StringsUpTo(m, f), StringsUpTo(n, g)
  PROVE  \A i \in 0 .. m : i <= n => f[i] = g[i]
<1> DEFINE S == {i \in Nat : i <= m /\ i <= n /\ f[i] # g[i]}
<1>1. ASSUME S # {}
      PROVE  FALSE
  <2>1. PICK i \in S : \A k \in S : i <= k
    BY <1>1, Least
  <2>2. i \in 0 .. m /\ i \in 0 .. n /\ i \in Nat
    OBVIOUS
  <2>3. /\ f[i] = IF i < BASE THEN <<Digit(i)>> ELSE Append(f[i \div BASE], Digit(i % BASE))
        /\ g[i] = IF i < BASE THEN <<Digit(i)>> ELSE Append(g[i \div BASE], Digit(i % BASE))
    BY <2>2, StringsUpToIs
  <2>4. i >= BASE => f[i \div BASE] = g[i \div BASE]
    <3>1. i >= BASE => i \div BASE \in Nat /\ i \div BASE < i
      BY <2>2, LoggerAssumption, Division
    <3>2. i >= BASE => i \div BASE \notin S
      BY <2>1, <2>2, <3>1
    <3>3. QED
      BY <2>2, <3>1, <3>2
  <2>5. ~(i < BASE) => i >= BASE
    BY <2>2, LoggerAssumption
  <2>6. f[i] = g[i]
    BY <2>3, <2>4, <2>5
  <2>7. QED
    BY <2>6
<1>2. QED
  BY <1>1

\* And there is one for each number.
LEMMA StringsExist == \A n \in Nat : \E f : StringsUpTo(n, f)
<1> DEFINE S == {n \in Nat : ~ \E f : StringsUpTo(n, f)}
<1>1. ASSUME S # {}
      PROVE  FALSE
  <2>1. PICK n \in S : \A k \in S : n <= k
    BY <1>1, Least
  <2>2. n \in Nat /\ ~ \E f : StringsUpTo(n, f)
    OBVIOUS
  <2>3. CASE n = 0
    <3> DEFINE f == [i \in 0 .. 0 |-> <<Digit(0)>>]
    <3>1. f = [i \in 0 .. 0 |-> IF i < BASE THEN <<Digit(i)>>
                                ELSE Append(f[i \div BASE], Digit(i % BASE))]
      BY LoggerAssumption
    <3>2. StringsUpTo(0, f)
      BY <3>1 DEF StringsUpTo
    <3>3. QED
      BY <2>2, <2>3, <3>2
  <2>4. CASE n # 0
    <3>1. n - 1 \in Nat /\ n - 1 \notin S
      BY <2>1, <2>2, <2>4
    <3>2. PICK f : StringsUpTo(n - 1, f)
      BY <3>1
    <3> DEFINE v == IF n < BASE THEN <<Digit(n)>> ELSE Append(f[n \div BASE], Digit(n % BASE))
               g == [i \in 0 .. n |-> IF i = n THEN v ELSE f[i]]
    <3>3. ASSUME NEW i \in 0 .. n
          PROVE  g[i] = IF i < BASE THEN <<Digit(i)>> ELSE Append(g[i \div BASE], Digit(i % BASE))
      <4>1. i >= BASE => i \div BASE \in 0 .. n - 1 /\ i \div BASE < i
        <5>1. i \in Nat /\ i <= n
          BY <2>2
        <5>2. i >= BASE => i \div BASE \in Nat /\ i \div BASE < i
          BY <5>1, LoggerAssumption, Division
        <5>3. QED
          BY <2>2, <5>1, <5>2
      <4>2. i >= BASE => g[i \div BASE] = f[i \div BASE]
        BY <2>2, <4>1
      <4>3. ~(i < BASE) => i >= BASE
        BY <2>2, LoggerAssumption
      <4>4. CASE i = n
        BY <4>2, <4>3, <4>4
      <4>5. CASE i # n
        <5>1. i \in 0 .. n - 1
          BY <2>2, <4>5
        <5>2. f[i] = IF i < BASE THEN <<Digit(i)>> ELSE Append(f[i \div BASE], Digit(i % BASE))
          BY <3>1, <3>2, <5>1, StringsUpToIs
        <5>3. g[i] = f[i]
          BY <4>5
        <5>4. QED
          BY <4>2, <4>3, <5>2, <5>3
      <4>6. QED
        BY <4>4, <4>5
    <3>4. StringsUpTo(n, g)
      <4> HIDE DEF v
      <4>1. g = [i \in 0 .. n |-> g[i]]
        OBVIOUS
      <4> HIDE DEF g
      <4>2. QED
        BY <3>3, <4>1 DEF StringsUpTo
    <3>5. QED
      BY <2>2, <3>4
  <2>5. QED
    BY <2>3, <2>4
<1>2. QED
  BY <1>1

\* So there is a function that satisfies the definition of toString.
LEMMA ToStringExists ==
  \E f : f = [number \in Nat |-> IF number < BASE THEN <<Digit(number)>>
                                 ELSE Append(f[number \div BASE], Digit(number % BASE))]
<1> DEFINE upTo(n) == CHOOSE f : StringsUpTo(n, f)
           F == [n \in Nat |-> upTo(n)[n]]
<1>1. ASSUME NEW n \in Nat
      PROVE  StringsUpTo(n, upTo(n))
  BY StringsExist
<1> HIDE DEF upTo
<1>2. ASSUME NEW n \in Nat
      PROVE  F[n] = IF n < BASE THEN <<Digit(n)>> ELSE Append(F[n \div BASE], Digit(n % BASE))
  <2>1. n \in 0 .. n
    OBVIOUS
  <2>2. upTo(n)[n] = IF n < BASE THEN <<Digit(n)>>
                     ELSE Append(upTo(n)[n \div BASE], Digit(n % BASE))
    BY <1>1, <2>1, StringsUpToIs
  <2>3. ASSUME n >= BASE
        PROVE  n \div BASE \in Nat /\ upTo(n)[n \div BASE] = F[n \div BASE]
    <3>1. n \div BASE \in Nat /\ n \div BASE < n
      BY <2>3, LoggerAssumption, Division
    <3>2. n \div BASE \in 0 .. n \div BASE /\ n \div BASE <= n
      BY <3>1
    <3>3. upTo(n \div BASE)[n \div BASE] = upTo(n)[n \div BASE]
      BY <1>1, <3>1, <3>2, StringsAgree
    <3>4. QED
      BY <3>1, <3>3
  <2>4. ~(n < BASE) => n >= BASE
    BY LoggerAssumption
  <2>5. F[n] = upTo(n)[n]
    OBVIOUS
  <2>6. QED
    BY <2>2, <2>3, <2>4, <2>5
<1>3. F = [n \in Nat |-> F[n]]
  OBVIOUS
<1> HIDE DEF F
<1>4. F = [number \in Nat |-> IF number < BASE THEN <<Digit(number)>>
                              ELSE Append(F[number \div BASE], Digit(number % BASE))]
  BY <1>2, <1>3
<1>5. QED
  BY <1>4

\* toString is the function that its definition says.
LEMMA ToStringIs ==
  ASSUME NEW n \in Nat
  PROVE  toString[n] = IF n < BASE THEN <<Digit(n)>>
                       ELSE Append(toString[n \div BASE], Digit(n % BASE))
<1>1. toString = [number \in Nat |-> IF number < BASE THEN <<Digit(number)>>
                                     ELSE Append(toString[number \div BASE], Digit(number % BASE))]
  BY ToStringExists DEF toString
<1> DEFINE F == [number \in Nat |-> IF number < BASE THEN <<Digit(number)>>
                                    ELSE Append(toString[number \div BASE], Digit(number % BASE))]
<1>2. F[n] = IF n < BASE THEN <<Digit(n)>> ELSE Append(toString[n \div BASE], Digit(n % BASE))
  OBVIOUS
<1>3. QED
  BY <1>1, <1>2, Zenon

\* A number has at least one digit.
LEMMA StringsAreDigits ==
  ASSUME NEW n \in Nat
  PROVE  toString[n] \in Seq(Nat) /\ Len(toString[n]) >= 1
<1> DEFINE S == {k \in Nat : ~(toString[k] \in Seq(Nat) /\ Len(toString[k]) >= 1)}
<1>1. ASSUME S # {}
      PROVE  FALSE
  <2>1. PICK k \in S : \A l \in S : k <= l
    BY <1>1, Least
  <2>2. k \in Nat /\ ~(toString[k] \in Seq(Nat) /\ Len(toString[k]) >= 1)
    OBVIOUS
  <2>3. CASE k < BASE
    <3>1. toString[k] = <<Digit(k)>>
      BY <2>2, <2>3, ToStringIs
    <3>2. Digit(k) \in Nat
      BY <2>2 DEF Digit
    <3>3. QED
      BY <2>2, <3>1, <3>2
  <2>4. CASE ~(k < BASE)
    <3>1. k \div BASE \in Nat /\ k \div BASE < k /\ k % BASE \in Nat
      BY <2>2, <2>4, BaseDivision
    <3>2. toString[k \div BASE] \in Seq(Nat)
      BY <2>1, <2>2, <3>1
    <3>3. toString[k] = Append(toString[k \div BASE], Digit(k % BASE))
      BY <2>2, <2>4, ToStringIs
    <3>4. QED
      BY <2>2, <3>1, <3>2, <3>3 DEF Digit
  <2>5. QED
    BY <2>3, <2>4
<1>2. QED
  BY <1>1

-----------------------------------------------------------------------------
(***************************************************************************)
(* Padded numbers.                                                         *)
(***************************************************************************)

\* Padded, character by character, when the number has room for its digits.
LEMMA PaddedIs ==
  ASSUME NEW digits \in Nat, NEW n \in Nat, Len(toString[n]) <= digits
  PROVE  /\ Padded(digits, n) \in Seq(Nat) /\ Len(Padded(digits, n)) = digits
         /\ \A i \in 1 .. digits :
              Padded(digits, n)[i] = IF i <= digits - Len(toString[n]) THEN Digit(0)
                                     ELSE toString[n][i - (digits - Len(toString[n]))]
<1> DEFINE string == toString[n]
           zeros == [i \in 1 .. digits - Len(string) |-> Digit(0)]
<1>1. string \in Seq(Nat) /\ Len(string) \in Nat /\ Len(string) <= digits
  BY StringsAreDigits
<1>2. Padded(digits, n) = IF Len(string) < digits THEN zeros \o string ELSE string
  BY DEF Padded
<1> HIDE DEF string
<1>3. CASE Len(string) < digits
  <2>1. zeros \in Seq(Nat) /\ Len(zeros) = digits - Len(string)
    BY <1>1, <1>3 DEF Digit
  <2>2. \A i \in 1 .. digits - Len(string) : zeros[i] = Digit(0)
    OBVIOUS
  <2> HIDE DEF zeros
  <2>3. /\ zeros \o string \in Seq(Nat) /\ Len(zeros \o string) = Len(zeros) + Len(string)
        /\ \A i \in 1 .. Len(zeros) + Len(string) :
             (zeros \o string)[i] = IF i <= Len(zeros) THEN zeros[i] ELSE string[i - Len(zeros)]
    BY <1>1, <2>1, ConcatProperties, Zenon
  <2>4. Len(zeros) + Len(string) = digits
    BY <1>1, <2>1
  <2>5. QED
    BY <1>1, <1>2, <1>3, <2>1, <2>2, <2>3, <2>4 DEF string
<1>4. CASE ~(Len(string) < digits)
  <2>1. Len(string) = digits
    BY <1>1, <1>4
  <2>2. QED
    BY <1>1, <1>2, <1>4, <2>1 DEF string
<1>5. QED
  BY <1>3, <1>4

\* A number padded to one character more: the last one is its last digit, the
\* others are those of the quotient.
LEMMA PaddedStep ==
  ASSUME NEW digits \in Nat, digits >= 1, NEW n \in Nat, Len(toString[n]) <= digits + 1
  PROVE  /\ Len(toString[n \div BASE]) <= digits
         /\ Padded(digits + 1, n)[digits + 1] = Digit(n % BASE)
         /\ \A i \in 1 .. digits : Padded(digits + 1, n)[i] = Padded(digits, n \div BASE)[i]
<1> DEFINE q == n \div BASE
<1>1. /\ q \in Nat /\ n % BASE \in Nat
      /\ n < BASE => q = 0 /\ n % BASE = n
  BY BaseDivision
<1> HIDE DEF q
<1>2. /\ toString[n] \in Seq(Nat) /\ Len(toString[n]) \in Nat /\ Len(toString[n]) >= 1
      /\ toString[q] \in Seq(Nat) /\ Len(toString[q]) \in Nat /\ Len(toString[q]) >= 1
  BY <1>1, StringsAreDigits
<1>3. \A i \in 1 .. digits + 1 :
        Padded(digits + 1, n)[i] = IF i <= digits + 1 - Len(toString[n]) THEN Digit(0)
                                   ELSE toString[n][i - (digits + 1 - Len(toString[n]))]
  BY PaddedIs
<1>4. Len(toString[q]) <= digits =>
        \A i \in 1 .. digits :
          Padded(digits, q)[i] = IF i <= digits - Len(toString[q]) THEN Digit(0)
                                 ELSE toString[q][i - (digits - Len(toString[q]))]
  BY <1>1, PaddedIs
<1>5. CASE n < BASE
  <2>1. toString[n] = <<Digit(n)>> /\ toString[q] = <<Digit(0)>>
    <3>1. toString[n] = <<Digit(n)>>
      BY <1>5, ToStringIs
    <3>2. 0 \in Nat /\ 0 < BASE
      BY LoggerAssumption
    <3>3. toString[0] = <<Digit(0)>>
      BY <3>2, ToStringIs
    <3>4. QED
      BY <1>1, <1>5, <3>1, <3>3
  <2>2. /\ Len(toString[n]) = 1 /\ Len(toString[q]) = 1
        /\ toString[n][1] = Digit(n) /\ toString[q][1] = Digit(0)
    BY <2>1
  <2>3. Padded(digits + 1, n)[digits + 1] = Digit(n % BASE)
    BY <1>1, <1>3, <1>5, <2>2
  <2>4. ASSUME NEW i \in 1 .. digits
        PROVE  Padded(digits + 1, n)[i] = Padded(digits, q)[i]
    <3>1. Padded(digits + 1, n)[i] = Digit(0)
      BY <1>3, <2>2
    <3>2. Padded(digits, q)[i] = Digit(0)
      BY <1>4, <2>2
    <3>3. QED
      BY <3>1, <3>2
  <2>5. QED
    BY <2>2, <2>3, <2>4 DEF q
<1>6. CASE ~(n < BASE)
  <2>1. toString[n] = Append(toString[q], Digit(n % BASE))
    BY <1>6, ToStringIs DEF q
  <2>2. /\ Len(toString[n]) = Len(toString[q]) + 1
        /\ toString[n][Len(toString[q]) + 1] = Digit(n % BASE)
        /\ \A i \in 1 .. Len(toString[q]) : toString[n][i] = toString[q][i]
    BY <1>1, <1>2, <2>1
  <2>3. Len(toString[q]) <= digits
    BY <1>2, <2>2
  <2>4. Padded(digits + 1, n)[digits + 1] = Digit(n % BASE)
    <3>1. /\ digits + 1 \in 1 .. digits + 1
          /\ ~(digits + 1 <= digits + 1 - Len(toString[n]))
          /\ digits + 1 - (digits + 1 - Len(toString[n])) = Len(toString[q]) + 1
      BY <1>2, <2>2, <2>3
    <3>2. Padded(digits + 1, n)[digits + 1]
            = toString[n][digits + 1 - (digits + 1 - Len(toString[n]))]
      BY <1>3, <3>1
    <3>3. QED
      BY <2>2, <3>1, <3>2
  <2>5. ASSUME NEW i \in 1 .. digits
        PROVE  Padded(digits + 1, n)[i] = Padded(digits, q)[i]
    <3>1. digits + 1 - Len(toString[n]) = digits - Len(toString[q])
      BY <1>2, <2>2
    <3>2. Padded(digits + 1, n)[i] = IF i <= digits - Len(toString[q]) THEN Digit(0)
                                     ELSE toString[n][i - (digits - Len(toString[q]))]
      <4>1. i \in 1 .. digits + 1
        OBVIOUS
      <4>2. Padded(digits + 1, n)[i] = IF i <= digits + 1 - Len(toString[n]) THEN Digit(0)
                                       ELSE toString[n][i - (digits + 1 - Len(toString[n]))]
        BY <1>3, <4>1
      <4>3. QED
        BY <3>1, <4>2
    <3>3. i > digits - Len(toString[q]) =>
            i - (digits - Len(toString[q])) \in 1 .. Len(toString[q])
      BY <1>2, <2>3
    <3>4. Padded(digits, q)[i] = IF i <= digits - Len(toString[q]) THEN Digit(0)
                                 ELSE toString[q][i - (digits - Len(toString[q]))]
      BY <1>4, <2>3
    <3>5. CASE i <= digits - Len(toString[q])
      BY <3>2, <3>4, <3>5
    <3>6. CASE ~(i <= digits - Len(toString[q]))
      <4>1. i - (digits - Len(toString[q])) \in 1 .. Len(toString[q])
        BY <1>2, <3>3, <3>6
      <4>2. QED
        BY <2>2, <3>2, <3>4, <3>6, <4>1
    <3>7. QED
      BY <3>5, <3>6
  <2>6. QED
    BY <2>3, <2>4, <2>5 DEF q
<1>7. QED
  BY <1>5, <1>6

\* SortsBefore for the padded numbers, at a position where both have a character.
PaddedBefore(digits, m, n) ==
  \E i \in 1 .. digits :
    /\ Padded(digits, m)[i] < Padded(digits, n)[i]
    /\ \A j \in 1 .. i - 1 : Padded(digits, m)[j] = Padded(digits, n)[j]

\* Of one digit: the smaller digit comes first.
LEMMA DigitBefore ==
  ASSUME NEW m \in Nat, NEW n \in Nat, m < n,
         Len(toString[m]) <= 1, Len(toString[n]) <= 1
  PROVE  PaddedBefore(1, m, n)
<1>1. ASSUME NEW k \in Nat, Len(toString[k]) <= 1
      PROVE  Padded(1, k)[1] = Digit(k)
  <2>1. toString[k] \in Seq(Nat) /\ Len(toString[k]) = 1
    <3>1. toString[k] \in Seq(Nat) /\ Len(toString[k]) >= 1 /\ Len(toString[k]) <= 1
      BY <1>1, StringsAreDigits
    <3>2. \A length \in Nat : length >= 1 /\ length <= 1 => length = 1
      OBVIOUS
    <3>3. Len(toString[k]) \in Nat
      BY <3>1
    <3>4. Len(toString[k]) = 1
      BY <3>1, <3>2, <3>3, Zenon
    <3>5. QED
      BY <3>1, <3>4
  <2>2. k < BASE
    <3>1. SUFFICES ASSUME ~(k < BASE)
                   PROVE  FALSE
      OBVIOUS
    <3>2. k \div BASE \in Nat
      BY BaseDivision
    <3>3. toString[k \div BASE] \in Seq(Nat) /\ Len(toString[k \div BASE]) >= 1
      BY <3>2, StringsAreDigits
    <3>4. toString[k] = Append(toString[k \div BASE], Digit(k % BASE))
      BY <3>1, ToStringIs
    <3>5. QED
      BY <2>1, <3>3, <3>4
  <2>3. toString[k] = <<Digit(k)>>
    BY <2>2, ToStringIs
  <2>4. Padded(1, k)[1] = toString[k][1]
    <3>1. \A i \in 1 .. 1 :
            Padded(1, k)[i] = IF i <= 1 - Len(toString[k]) THEN Digit(0)
                              ELSE toString[k][i - (1 - Len(toString[k]))]
      BY <1>1, PaddedIs
    <3>2. 1 \in 1 .. 1 /\ 1 - Len(toString[k]) = 0 /\ 1 - 0 = 1 /\ ~(1 <= 0)
      BY <2>1
    <3>3. QED
      BY <3>1, <3>2
  <2>5. QED
    BY <2>3, <2>4
<1>2. Padded(1, m)[1] = Digit(m) /\ Padded(1, n)[1] = Digit(n)
  BY <1>1
<1>3. QED
  BY <1>2 DEF PaddedBefore, Digit

\* Of one digit more: the quotients decide, or else the last digits.
LEMMA OneMoreDigit ==
  ASSUME NEW digits \in Nat, digits >= 1,
         \A k, l \in Nat : /\ k < l
                           /\ Len(toString[k]) <= digits /\ Len(toString[l]) <= digits
                           => PaddedBefore(digits, k, l),
         NEW m \in Nat, NEW n \in Nat, m < n,
         Len(toString[m]) <= digits + 1, Len(toString[n]) <= digits + 1
  PROVE  PaddedBefore(digits + 1, m, n)
<1>1. /\ Len(toString[m \div BASE]) <= digits
      /\ Padded(digits + 1, m)[digits + 1] = Digit(m % BASE)
      /\ \A i \in 1 .. digits : Padded(digits + 1, m)[i] = Padded(digits, m \div BASE)[i]
  BY PaddedStep
<1>2. /\ Len(toString[n \div BASE]) <= digits
      /\ Padded(digits + 1, n)[digits + 1] = Digit(n % BASE)
      /\ \A i \in 1 .. digits : Padded(digits + 1, n)[i] = Padded(digits, n \div BASE)[i]
  BY PaddedStep
<1>3. /\ m \div BASE \in Nat /\ m % BASE \in Nat
      /\ n \div BASE \in Nat /\ n % BASE \in Nat
  BY BaseDivision
<1>4. CASE m \div BASE < n \div BASE
  <2>1. PaddedBefore(digits, m \div BASE, n \div BASE)
    BY <1>1, <1>2, <1>3, <1>4
  <2>2. PICK i \in 1 .. digits :
          /\ Padded(digits, m \div BASE)[i] < Padded(digits, n \div BASE)[i]
          /\ \A j \in 1 .. i - 1 : Padded(digits, m \div BASE)[j] = Padded(digits, n \div BASE)[j]
    BY <2>1 DEF PaddedBefore
  <2>3. i \in 1 .. digits + 1 /\ \A j \in 1 .. i - 1 : j \in 1 .. digits
    OBVIOUS
  <2>4. QED
    BY <1>1, <1>2, <2>2, <2>3 DEF PaddedBefore
<1>5. CASE m \div BASE = n \div BASE /\ m % BASE < n % BASE
  <2>1. Padded(digits + 1, m)[digits + 1] < Padded(digits + 1, n)[digits + 1]
    BY <1>1, <1>2, <1>3, <1>5 DEF Digit
  <2>2. \A j \in 1 .. (digits + 1) - 1 : Padded(digits + 1, m)[j] = Padded(digits + 1, n)[j]
    BY <1>1, <1>2, <1>5
  <2>3. digits + 1 \in 1 .. digits + 1
    OBVIOUS
  <2>4. QED
    BY <2>1, <2>2, <2>3 DEF PaddedBefore
<1>6. QED
  BY <1>4, <1>5, QuotientOrder, LoggerAssumption

\* Of any number of digits.
LEMMA PaddedOrder ==
  ASSUME NEW digits \in Nat, digits >= 1, NEW m \in Nat, NEW n \in Nat, m < n,
         Len(toString[m]) <= digits, Len(toString[n]) <= digits
  PROVE  PaddedBefore(digits, m, n)
<1> DEFINE P(d) == \A k, l \in Nat :
                     /\ k < l
                     /\ Len(toString[k]) <= d /\ Len(toString[l]) <= d
                     => PaddedBefore(d, k, l)
           S == {d \in Nat : d >= 1 /\ ~P(d)}
<1>1. ASSUME S # {}
      PROVE  FALSE
  <2>1. PICK d \in S : \A e \in S : d <= e
    BY <1>1, Least
  <2>2. d \in Nat /\ d >= 1 /\ ~P(d)
    OBVIOUS
  <2>3. CASE d = 1
    BY <2>2, <2>3, DigitBefore
  <2>4. CASE d # 1
    <3>1. d - 1 \in Nat /\ d - 1 >= 1 /\ d - 1 \notin S
      BY <2>1, <2>2, <2>4
    <3>2. P(d - 1)
      BY <3>1
    <3> DEFINE e == d - 1
    <3>3. e \in Nat /\ e >= 1 /\ P(e) /\ d = e + 1
      BY <2>2, <3>1, <3>2
    <3> HIDE DEF e
    <3>4. P(e + 1)
      BY <3>3, OneMoreDigit
    <3>5. QED
      BY <2>2, <3>3, <3>4
  <2>5. QED
    BY <2>3, <2>4
<1>2. QED
  BY <1>1

-----------------------------------------------------------------------------
(***************************************************************************)
(* The inductive invariant.                                                *)
(***************************************************************************)

Line == [thread : Thread, at : Nat, number : Nat]

\* What is in the log.
LEMMA LinesTyped ==
  ASSUME TypeOK, NEW i \in DOMAIN lines
  PROVE  lines[i] \in Line /\ lines[i].at \in Nat /\ lines[i].number \in Nat
<1>1. lines \in Seq(Line)
  BY DEF TypeOK, Line
<1>2. lines[i] \in Line
  BY <1>1
<1>3. QED
  BY <1>2 DEF Line

\* IndInv of the initial states.
LEMMA InitInv == Init => IndInv
<1> SUFFICES ASSUME Init
             PROVE  IndInv
  OBVIOUS
<1>1. TypeOK
  BY LoggerAssumption DEF Init, TypeOK
<1>2. LinesAreNumbered /\ TimesAreSorted /\ TimesHavePassed /\ ReadIsCurrent
  BY DEF Init, LinesAreNumbered, TimesAreSorted, TimesHavePassed, ReadIsCurrent
<1>3. QED
  BY <1>1, <1>2 DEF IndInv

\* A send or a receive: the times that were read have passed all the more.
LEMMA AdvanceInv == IndInv /\ Advance => IndInv'
<1> SUFFICES ASSUME IndInv, Advance
             PROVE  IndInv'
  OBVIOUS
<1>1. TypeOK'
  BY LoggerAssumption DEF IndInv, TypeOK, Advance
<1>2. LinesAreNumbered' /\ TimesAreSorted'
  BY DEF IndInv, Advance, LinesAreNumbered, TimesAreSorted
<1>3. \A n \in Nat : n <= currentLamportTime => n <= currentLamportTime'
  BY DEF IndInv, TypeOK, Advance
<1>4. \A i \in DOMAIN lines : lines[i].at \in Nat
  BY LinesTyped DEF IndInv
<1>5. TimesHavePassed'
  BY <1>3, <1>4 DEF IndInv, Advance, TimesHavePassed
<1>6. ReadIsCurrent'
  BY <1>3 DEF IndInv, TypeOK, Advance, ReadIsCurrent
<1>7. QED
  BY <1>1, <1>2, <1>5, <1>6 DEF IndInv

\* A thread registers: the log is as it was.
LEMMA RegisterInv == ASSUME IndInv, NEW t \in Thread, registerThread(t) PROVE IndInv'
<1>1. TypeOK'
  BY DEF IndInv, TypeOK, registerThread
<1>2. LinesAreNumbered' /\ TimesAreSorted' /\ TimesHavePassed' /\ ReadIsCurrent'
  BY DEF IndInv, registerThread, LinesAreNumbered, TimesAreSorted, TimesHavePassed, ReadIsCurrent
<1>3. QED
  BY <1>1, <1>2 DEF IndInv

\* A thread takes the mutex: it has not read the clock yet.
LEMMA LockInv == ASSUME IndInv, NEW t \in Thread, Lock(t) PROVE IndInv'
<1>1. TypeOK'
  BY LoggerAssumption DEF IndInv, TypeOK, Lock
<1>2. LinesAreNumbered' /\ TimesAreSorted' /\ TimesHavePassed'
  BY DEF IndInv, Lock, LinesAreNumbered, TimesAreSorted, TimesHavePassed
<1>3. ASSUME NEW u \in Thread, pc'[u] = "read"
      PROVE  pc[u] = "read"
  BY <1>3 DEF IndInv, TypeOK, Lock
<1>4. ReadIsCurrent'
  BY <1>3 DEF IndInv, Lock, ReadIsCurrent
<1>5. QED
  BY <1>1, <1>2, <1>4 DEF IndInv

\* It reads the clock: the times of the lines have passed.
LEMMA ReadClockInv == ASSUME IndInv, NEW t \in Thread, ReadClock(t) PROVE IndInv'
<1>1. TypeOK'
  BY LoggerAssumption DEF IndInv, TypeOK, ReadClock
<1>2. LinesAreNumbered' /\ TimesAreSorted' /\ TimesHavePassed'
  BY DEF IndInv, ReadClock, LinesAreNumbered, TimesAreSorted, TimesHavePassed
<1>3. ASSUME NEW u \in Thread, pc'[u] = "read"
      PROVE  /\ formattedLamportTime'[u] <= currentLamportTime
             /\ \A i \in DOMAIN lines : lines[i].at <= formattedLamportTime'[u]
  <2>1. CASE u = t
    <3>1. formattedLamportTime'[u] = currentLamportTime /\ currentLamportTime \in Nat
      BY <2>1 DEF IndInv, TypeOK, ReadClock
    <3>2. QED
      BY <3>1 DEF IndInv, TimesHavePassed
  <2>2. CASE u # t
    <3>1. pc[u] = "read" /\ formattedLamportTime'[u] = formattedLamportTime[u]
      BY <1>3, <2>2 DEF IndInv, TypeOK, ReadClock
    <3>2. QED
      BY <3>1 DEF IndInv, ReadIsCurrent
  <2>3. QED
    BY <2>1, <2>2
<1>4. ReadIsCurrent'
  BY <1>3 DEF ReadClock, ReadIsCurrent
<1>5. QED
  BY <1>1, <1>2, <1>4 DEF IndInv

\* It writes its line: nobody else has read the clock, for it holds the mutex.
LEMMA WriteInv == ASSUME IndInv, NEW t \in Thread, Write(t) PROVE IndInv'
<1> DEFINE line == [thread |-> t, at |-> formattedLamportTime[t], number |-> logMessageCounter]
<1>1. /\ lines \in Seq(Line) /\ Len(lines) \in Nat /\ logMessageCounter = Len(lines)
      /\ line \in Line /\ pc[t] = "read" /\ t # NoThread
  BY LoggerAssumption DEF IndInv, TypeOK, Line, Write
<1>2. line.at = formattedLamportTime[t] /\ line.number = Len(lines)
  BY <1>1
<1>3. lines' = Append(lines, line)
  BY DEF Write
<1> HIDE DEF line
<1>4. /\ lines' \in Seq(Line) /\ Len(lines') = Len(lines) + 1
      /\ DOMAIN lines = 1 .. Len(lines) /\ DOMAIN lines' = 1 .. Len(lines) + 1
      /\ lines'[Len(lines) + 1] = line
      /\ \A i \in 1 .. Len(lines) : lines'[i] = lines[i]
  BY <1>1, <1>3
<1>5. ASSUME NEW i \in DOMAIN lines'
      PROVE  \/ i \in DOMAIN lines /\ lines'[i] = lines[i]
             \/ i = Len(lines) + 1 /\ lines'[i] = line
  BY <1>1, <1>4
<1>6. TypeOK'
  <2>1. logMessageCounter' = Len(lines')
    BY <1>1, <1>4 DEF Write
  <2>2. lines' \in Seq([thread : Thread, at : Nat, number : Nat])
    BY <1>4 DEF Line
  <2>3. \A u \in Thread : pc'[u] # "out" => mutex' = u
    BY <1>1 DEF IndInv, TypeOK, Write
  <2>4. QED
    BY <2>1, <2>2, <2>3 DEF IndInv, TypeOK, Write
<1>7. LinesAreNumbered'
  <2>1. ASSUME NEW i \in DOMAIN lines'
        PROVE  lines'[i].number = i - 1
    BY <1>1, <1>2, <1>5 DEF IndInv, LinesAreNumbered
  <2>2. QED
    BY <2>1 DEF LinesAreNumbered
<1>8. \A i \in DOMAIN lines : lines[i].at <= line.at
  BY <1>1, <1>2 DEF IndInv, ReadIsCurrent
<1>9. TimesAreSorted'
  <2>1. ASSUME NEW i \in DOMAIN lines', NEW j \in DOMAIN lines', i < j
        PROVE  lines'[i].at <= lines'[j].at
    <3>1. i \in DOMAIN lines /\ lines'[i] = lines[i]
      BY <1>1, <1>4, <2>1
    <3>2. CASE j \in DOMAIN lines /\ lines'[j] = lines[j]
      BY <2>1, <3>1, <3>2 DEF IndInv, TimesAreSorted
    <3>3. CASE j = Len(lines) + 1 /\ lines'[j] = line
      BY <1>8, <3>1, <3>3
    <3>4. QED
      BY <1>5, <3>2, <3>3
  <2>2. QED
    BY <2>1 DEF TimesAreSorted
<1>10. TimesHavePassed'
  <2>1. line.at <= currentLamportTime
    BY <1>1, <1>2 DEF IndInv, ReadIsCurrent
  <2>2. ASSUME NEW i \in DOMAIN lines'
        PROVE  lines'[i].at <= currentLamportTime
    BY <1>5, <2>1 DEF IndInv, TimesHavePassed
  <2>3. QED
    BY <2>2 DEF TimesHavePassed, Write
<1>11. ReadIsCurrent'
  <2>1. \A u \in Thread : pc'[u] # "read"
    <3>1. ASSUME NEW u \in Thread, u # t
          PROVE  pc[u] = "out"
      BY <1>1, <3>1 DEF IndInv, TypeOK
    <3>2. QED
      BY <3>1 DEF IndInv, TypeOK, Write
  <2>2. QED
    BY <2>1 DEF ReadIsCurrent
<1>12. QED
  BY <1>6, <1>7, <1>9, <1>10, <1>11 DEF IndInv

\* Every step.
LEMMA NextInv == IndInv /\ [Next]_vars => IndInv'
<1> SUFFICES ASSUME IndInv, [Next]_vars
             PROVE  IndInv'
  OBVIOUS
<1>1. CASE Advance
  BY <1>1, AdvanceInv
<1>2. ASSUME NEW t \in Thread, registerThread(t)
      PROVE  IndInv'
  BY <1>2, RegisterInv
<1>3. ASSUME NEW t \in Thread, Lock(t)
      PROVE  IndInv'
  BY <1>3, LockInv
<1>4. ASSUME NEW t \in Thread, ReadClock(t)
      PROVE  IndInv'
  BY <1>4, ReadClockInv
<1>5. ASSUME NEW t \in Thread, Write(t)
      PROVE  IndInv'
  BY <1>5, WriteInv
<1>6. CASE UNCHANGED vars
  BY <1>6 DEF vars, IndInv, TypeOK, LinesAreNumbered, TimesAreSorted, TimesHavePassed, ReadIsCurrent
<1>7. CASE Done
  BY <1>6, <1>7 DEF Done
<1>8. QED
  BY <1>1, <1>2, <1>3, <1>4, <1>5, <1>6, <1>7 DEF Next

\* Under the mutex the lines get the numbers of their places, and times that
\* never decrease.
THEOREM Invariance == Spec => []IndInv
<1>1. QED
  BY InitInv, NextInv, PTL DEF Spec

\* The variables have their types, and one thread at a time is inside log().
THEOREM TypeCorrect == Spec => []TypeOK
<1>1. IndInv => TypeOK
  BY DEF IndInv
<1>2. QED
  BY <1>1, Invariance, PTL

-----------------------------------------------------------------------------
(***************************************************************************)
(* The order of the lines as texts.                                        *)
(***************************************************************************)

\* A character behind a text.
LEMMA OneMoreCharacter ==
  ASSUME NEW p \in Seq(Nat), NEW c \in Seq(Nat), Len(c) = 1
  PROVE  /\ p \o c \in Seq(Nat) /\ Len(p \o c) = Len(p) + 1 /\ DOMAIN (p \o c) = 1 .. Len(p) + 1
         /\ (p \o c)[Len(p) + 1] = c[1] /\ \A i \in 1 .. Len(p) : (p \o c)[i] = p[i]
<1>1. /\ p \o c \in Seq(Nat) /\ Len(p \o c) = Len(p) + Len(c)
      /\ \A i \in 1 .. Len(p) + Len(c) : (p \o c)[i] = IF i <= Len(p) THEN p[i] ELSE c[i - Len(p)]
  BY ConcatProperties, Zenon
<1>2. p \o c \in Seq(Nat) /\ Len(p \o c) = Len(p) + 1 /\ DOMAIN (p \o c) = 1 .. Len(p) + 1
  BY <1>1
<1>3. \A i \in 1 .. Len(p) + 1 : (p \o c)[i] = IF i <= Len(p) THEN p[i] ELSE c[i - Len(p)]
  BY <1>1
<1>4. \A i \in 1 .. Len(p) : i \in 1 .. Len(p) + 1 /\ i <= Len(p)
  OBVIOUS
<1>5. /\ Len(p) + 1 \in 1 .. Len(p) + 1 /\ ~(Len(p) + 1 <= Len(p))
      /\ (Len(p) + 1) - Len(p) = 1
  OBVIOUS
<1>6. QED
  BY <1>2, <1>3, <1>4, <1>5

\* Text, for two numbers that are formatted.
Formatted(p, q) == ((p \o <<Colon>>) \o q) \o <<Space>>

\* A text of two numbers of so many characters, character by character.
LEMMA FormattedIs ==
  ASSUME NEW N \in Nat, NEW p \in Seq(Nat), NEW q \in Seq(Nat), Len(p) = N, Len(q) = N
  PROVE  /\ DOMAIN Formatted(p, q) = 1 .. N + N + 2
         /\ \A i \in 1 .. N : Formatted(p, q)[i] = p[i]
         /\ Formatted(p, q)[N + 1] = Colon
         /\ \A i \in 1 .. N : Formatted(p, q)[N + 1 + i] = q[i]
<1> DEFINE colon == <<Colon>>
           space == <<Space>>
<1>0. /\ colon \in Seq(Nat) /\ Len(colon) = 1 /\ colon[1] = Colon
      /\ space \in Seq(Nat) /\ Len(space) = 1
  BY LoggerAssumption DEF Colon, Space
<1> DEFINE text == ((p \o colon) \o q) \o space
           x == p \o colon
           y == x \o q
<1>1. /\ x \in Seq(Nat) /\ Len(x) = N + 1 /\ x[N + 1] = colon[1]
      /\ \A i \in 1 .. N : x[i] = p[i]
  <2>1. /\ x \in Seq(Nat) /\ Len(x) = Len(p) + 1 /\ x[Len(p) + 1] = colon[1]
        /\ \A i \in 1 .. Len(p) : x[i] = p[i]
    BY <1>0, OneMoreCharacter, Zenon
  <2>2. QED
    BY <2>1
<1>2. Formatted(p, q) = text /\ text = y \o space
  BY DEF Formatted
<1> HIDE DEF text, colon, space
<1> HIDE DEF x
<1>3. /\ y \in Seq(Nat) /\ Len(y) = Len(x) + Len(q)
      /\ \A i \in 1 .. Len(x) + Len(q) : y[i] = IF i <= Len(x) THEN x[i] ELSE q[i - Len(x)]
  BY <1>1, ConcatProperties, Zenon
<1> HIDE DEF y
<1>4. Len(y) = N + N + 1
  BY <1>1, <1>3
<1>5. DOMAIN text = 1 .. N + N + 2 /\ \A i \in 1 .. N + N + 1 : text[i] = y[i]
  <2>1. N + N + 1 \in Nat /\ (N + N + 1) + 1 = N + N + 2
    OBVIOUS
  <2>2. DOMAIN (y \o space) = 1 .. Len(y) + 1 /\ \A i \in 1 .. Len(y) : (y \o space)[i] = y[i]
    BY <1>0, <1>3, OneMoreCharacter, Zenon
  <2>3. QED
    BY <1>2, <1>4, <2>1, <2>2
<1>6. \A i \in 1 .. N + 1 : text[i] = x[i]
  <2>1. \A i \in 1 .. N + 1 : i \in 1 .. Len(x) + Len(q) /\ i <= Len(x) /\ i \in 1 .. N + N + 1
    BY <1>1
  <2>2. QED
    BY <1>3, <1>5, <2>1
<1>7. \A i \in 1 .. N : text[N + 1 + i] = q[i]
  <2>1. ASSUME NEW i \in 1 .. N
        PROVE  text[N + 1 + i] = q[i]
    <3>1. PICK k \in 1 .. N + N + 1 : k = N + 1 + i
      OBVIOUS
    <3>2. k \in 1 .. Len(x) + Len(q) /\ ~(k <= Len(x)) /\ k - Len(x) = i
      BY <1>1, <3>1
    <3>3. y[k] = q[i]
      BY <1>3, <3>2
    <3>4. QED
      BY <1>5, <3>1, <3>3
  <2>2. QED
    BY <2>1
<1>8. text[N + 1] = colon[1] /\ \A i \in 1 .. N : text[i] = p[i]
  <2>1. N + 1 \in 1 .. N + 1 /\ \A i \in 1 .. N : i \in 1 .. N + 1
    OBVIOUS
  <2>2. QED
    BY <1>1, <1>6, <2>1
<1>9. QED
  BY <1>0, <1>2, <1>5, <1>7, <1>8

\* Two lines whose numbers fit, one with the earlier time, or with the same time
\* and the lower number: its text sorts first.
LEMMA TextOrder ==
  ASSUME NEW a \in Line, NEW b \in Line,
         Fits(a.at), Fits(a.number), Fits(b.at), Fits(b.number),
         a.at < b.at \/ (a.at = b.at /\ a.number < b.number)
  PROVE  SortsBefore(Text(a), Text(b))
<1> DEFINE N == LOGGER_NUMBER_DIGITS
<1>1. N \in Nat /\ N >= 1
  BY LoggerAssumption
<1>2. a.at \in Nat /\ a.number \in Nat /\ b.at \in Nat /\ b.number \in Nat
  BY DEF Line
<1>3. ASSUME NEW n \in Nat, Fits(n)
      PROVE  /\ Len(toString[n]) <= N
             /\ getFormattedNumber(n) \in Seq(Nat) /\ Len(getFormattedNumber(n)) = N
  BY <1>1, <1>3, PaddedIs DEF Fits, getFormattedNumber
<1>4. ASSUME NEW m \in Nat, NEW n \in Nat, m < n, Fits(m), Fits(n)
      PROVE  \E i \in 1 .. N : /\ getFormattedNumber(m)[i] < getFormattedNumber(n)[i]
                               /\ \A j \in 1 .. i - 1 : getFormattedNumber(m)[j] = getFormattedNumber(n)[j]
  <2>1. PaddedBefore(N, m, n)
    BY <1>1, <1>3, <1>4, PaddedOrder
  <2>2. QED
    BY <2>1 DEF PaddedBefore, getFormattedNumber
<1> HIDE DEF N
<1> DEFINE pa == getFormattedNumber(a.at)
           qa == getFormattedNumber(a.number)
           pb == getFormattedNumber(b.at)
           qb == getFormattedNumber(b.number)
<1>6. /\ pa \in Seq(Nat) /\ Len(pa) = N /\ qa \in Seq(Nat) /\ Len(qa) = N
      /\ pb \in Seq(Nat) /\ Len(pb) = N /\ qb \in Seq(Nat) /\ Len(qb) = N
  BY <1>2, <1>3
<1>7. Text(a) = Formatted(pa, qa) /\ Text(b) = Formatted(pb, qb)
  BY DEF Text, Formatted
<1>8. a.at < b.at => \E i \in 1 .. N : pa[i] < pb[i] /\ \A j \in 1 .. i - 1 : pa[j] = pb[j]
  BY <1>2, <1>4
<1>9. a.number < b.number => \E i \in 1 .. N : qa[i] < qb[i] /\ \A j \in 1 .. i - 1 : qa[j] = qb[j]
  BY <1>2, <1>4
<1>10. a.at = b.at => pa = pb
  OBVIOUS
<1> HIDE DEF pa, qa, pb, qb
<1>11. /\ DOMAIN Text(a) = 1 .. N + N + 2
       /\ \A i \in 1 .. N : Text(a)[i] = pa[i]
       /\ Text(a)[N + 1] = Colon
       /\ \A i \in 1 .. N : Text(a)[N + 1 + i] = qa[i]
  <2>1. /\ DOMAIN Formatted(pa, qa) = 1 .. N + N + 2
        /\ \A i \in 1 .. N : Formatted(pa, qa)[i] = pa[i]
        /\ Formatted(pa, qa)[N + 1] = Colon
        /\ \A i \in 1 .. N : Formatted(pa, qa)[N + 1 + i] = qa[i]
    BY <1>1, <1>6, FormattedIs
  <2>2. QED
    BY <1>7, <2>1, Zenon
<1>12. /\ DOMAIN Text(b) = 1 .. N + N + 2
       /\ \A i \in 1 .. N : Text(b)[i] = pb[i]
       /\ Text(b)[N + 1] = Colon
       /\ \A i \in 1 .. N : Text(b)[N + 1 + i] = qb[i]
  <2>1. /\ DOMAIN Formatted(pb, qb) = 1 .. N + N + 2
        /\ \A i \in 1 .. N : Formatted(pb, qb)[i] = pb[i]
        /\ Formatted(pb, qb)[N + 1] = Colon
        /\ \A i \in 1 .. N : Formatted(pb, qb)[N + 1 + i] = qb[i]
    BY <1>1, <1>6, FormattedIs
  <2>2. QED
    BY <1>7, <2>1, Zenon
<1>13. CASE a.at < b.at
  <2>1. PICK i \in 1 .. N : pa[i] < pb[i] /\ \A j \in 1 .. i - 1 : pa[j] = pb[j]
    BY <1>8, <1>13
  <2>2. i \in 1 .. N + N + 2 /\ \A j \in 1 .. i - 1 : j \in 1 .. N
    BY <1>1
  <2>3. Text(a)[i] < Text(b)[i] /\ \A j \in 1 .. i - 1 : Text(a)[j] = Text(b)[j]
    BY <1>11, <1>12, <2>1, <2>2
  <2>4. QED
    BY <1>11, <1>12, <2>2, <2>3 DEF SortsBefore
<1>14. CASE a.at = b.at /\ a.number < b.number
  <2>1. PICK i \in 1 .. N : qa[i] < qb[i] /\ \A j \in 1 .. i - 1 : qa[j] = qb[j]
    BY <1>9, <1>14
  <2>2. N + 1 + i \in 1 .. N + N + 2
    BY <1>1
  <2>3. Text(a)[N + 1 + i] < Text(b)[N + 1 + i]
    BY <1>11, <1>12, <2>1
  <2>4. ASSUME NEW j \in 1 .. (N + 1 + i) - 1
        PROVE  Text(a)[j] = Text(b)[j]
    <3>1. CASE j \in 1 .. N
      BY <1>10, <1>11, <1>12, <1>14, <3>1
    <3>2. CASE j = N + 1
      BY <1>11, <1>12, <3>2
    <3>3. CASE j - (N + 1) \in 1 .. i - 1
      <4>1. PICK k \in 1 .. i - 1 : j = N + 1 + k
        BY <1>1, <3>3
      <4>2. k \in 1 .. N
        BY <1>1
      <4>3. QED
        BY <1>11, <1>12, <2>1, <4>1, <4>2
    <3>4. QED
      BY <1>1, <3>1, <3>2, <3>3
  <2>5. QED
    BY <1>11, <1>12, <2>2, <2>3, <2>4 DEF SortsBefore
<1>15. QED
  BY <1>13, <1>14

\* Sorting the lines of a process as texts leaves them in the order in which its
\* threads wrote them, for any base and any number of digits that they fit in.
THEOREM SortKeepsOrder == Spec => []SortedLinesKeepOrder
<1>1. IndInv => SortedLinesKeepOrder
  <2> SUFFICES ASSUME IndInv,
                      \A i \in DOMAIN lines : Fits(lines[i].at) /\ Fits(lines[i].number),
                      NEW i \in DOMAIN lines, NEW j \in DOMAIN lines, i < j
               PROVE  SortsBefore(Text(lines[i]), Text(lines[j]))
    BY DEF SortedLinesKeepOrder
  <2>1. lines[i] \in Line /\ lines[j] \in Line
    BY LinesTyped DEF IndInv
  <2>2. lines[i].number < lines[j].number
    BY DEF IndInv, TypeOK, LinesAreNumbered
  <2>3. /\ lines[i].at <= lines[j].at
        /\ lines[i].at \in Nat /\ lines[j].at \in Nat
    BY LinesTyped DEF IndInv, TimesAreSorted
  <2>4. lines[i].at < lines[j].at \/ lines[i].at = lines[j].at
    BY <2>3
  <2>5. QED
    BY <2>1, <2>2, <2>4, TextOrder
<1>2. QED
  BY <1>1, Invariance, PTL

=============================================================================
