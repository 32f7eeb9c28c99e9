--------------------------- MODULE SequenceLemmas ---------------------------
(***************************************************************************)
(* Sets of natural numbers and recursion on them, and sequences with one   *)
(* element more or less: what the proofs about channels, and about the     *)
(* formats of numbers, need of them.                                       *)
(***************************************************************************)
EXTENDS FiniteSetsExt, SequencesExt, SequenceTheorems, WellFoundedInduction, TLAPS

\* The order of the natural numbers is a well-founded relation: a set of them
\* that is not empty has a minimal element in it.
LEMMA NatLess == \A m, n \in Nat : m < n => <<m, n>> \in OpToRel(<, Nat)
BY DEF OpToRel

\* See above: the minimal element.
LEMMA MinimalInRelation ==
  ASSUME NEW S \in SUBSET Nat, S # {}
  PROVE  \E m \in S : \A n \in S : ~ (<<n, m>> \in OpToRel(<, Nat))
BY NatLessThanWellFounded, WFMin

\* What is minimal in a relation that holds the order of the naturals is least.
LEMMA LeastOfRelation ==
  ASSUME NEW R, \A m, n \in Nat : m < n => <<m, n>> \in R,
         NEW S \in SUBSET Nat, \E m \in S : \A n \in S : ~ (<<n, m>> \in R)
  PROVE  \E m \in S : \A n \in S : m <= n
<1>1. PICK m \in S : \A n \in S : ~ (<<n, m>> \in R)
  OBVIOUS
<1>2. \A n \in S : n \in Nat /\ m \in Nat /\ ~(n < m)
  BY <1>1
<1>3. QED
  BY <1>2

\* A set of natural numbers that is not empty has a least element.
LEMMA Least ==
  ASSUME NEW S \in SUBSET Nat, S # {}
  PROVE  \E m \in S : \A n \in S : m <= n
BY LeastOfRelation, NatLess, MinimalInRelation, Zenon

\* The first values, up to the n-th, of what PrimitiveRecursion defines.
FirstValues(S, start, step, n, h) ==
  /\ h \in [0 .. n -> S] /\ h[0] = start
  /\ \A k \in 0 .. n - 1 : h[k + 1] = step[k][h[k]]

\* There is only one way to begin.
LEMMA FirstValuesAgree ==
  ASSUME NEW S, NEW start \in S, NEW step \in [Nat -> [S -> S]],
         NEW m \in Nat, NEW n \in Nat, NEW g, NEW h,
         FirstValues(S, start, step, m, g), FirstValues(S, start, step, n, h)
  PROVE  \A k \in Nat : k <= m /\ k <= n => g[k] = h[k]
<1> DEFINE D == {k \in Nat : k <= m /\ k <= n /\ g[k] # h[k]}
<1>1. ASSUME D # {}
      PROVE  FALSE
  <2>1. PICK k \in D : \A l \in D : k <= l
    BY <1>1, Least
  <2>2. k \in Nat /\ k <= m /\ k <= n /\ g[k] # h[k]
    OBVIOUS
  <2>3. CASE k = 0
    BY <2>2, <2>3 DEF FirstValues
  <2>4. CASE k # 0
    <3>1. PICK l \in Nat : k = l + 1
      BY <2>2, <2>4
    <3>2. l \in 0 .. m - 1 /\ l \in 0 .. n - 1 /\ l <= m /\ l <= n /\ ~(k <= l)
      BY <2>2, <3>1
    <3>3. g[l] = h[l]
      BY <2>1, <3>1, <3>2
    <3>4. g[k] = step[l][g[l]] /\ h[k] = step[l][h[l]]
      BY <3>1, <3>2 DEF FirstValues
    <3>5. QED
      BY <2>2, <3>3, <3>4
  <2>5. QED
    BY <2>3, <2>4
<1>2. QED
  BY <1>1

\* And one can always go on.
LEMMA FirstValuesExist ==
  ASSUME NEW S, NEW start \in S, NEW step \in [Nat -> [S -> S]]
  PROVE  \A n \in Nat : \E h : FirstValues(S, start, step, n, h)
<1> DEFINE D == {n \in Nat : ~ \E h : FirstValues(S, start, step, n, h)}
<1>1. ASSUME D # {}
      PROVE  FALSE
  <2>1. PICK n \in D : \A l \in D : n <= l
    BY <1>1, Least
  <2>2. n \in Nat /\ ~ \E h : FirstValues(S, start, step, n, h)
    OBVIOUS
  <2>3. CASE n = 0
    <3> DEFINE h == [k \in 0 .. 0 |-> start]
    <3>1. FirstValues(S, start, step, 0, h)
      BY DEF FirstValues
    <3>2. QED
      BY <2>2, <2>3, <3>1
  <2>4. CASE n # 0
    <3>1. PICK m \in Nat : n = m + 1
      BY <2>2, <2>4
    <3>2. PICK g : FirstValues(S, start, step, m, g)
      BY <2>1, <3>1
    <3> DEFINE h == [k \in 0 .. m + 1 |-> IF k = m + 1 THEN step[m][g[m]] ELSE g[k]]
    <3>3. g[m] \in S /\ step[m][g[m]] \in S
      BY <3>2 DEF FirstValues
    <3>4. h \in [0 .. m + 1 -> S] /\ h[0] = start
      BY <3>2, <3>3 DEF FirstValues
    <3>5. ASSUME NEW k \in 0 .. (m + 1) - 1
          PROVE  h[k + 1] = step[k][h[k]]
      <4>1. k \in 0 .. m /\ h[k] = g[k]
        OBVIOUS
      <4>2. CASE k = m
        BY <4>1, <4>2
      <4>3. CASE k # m
        <5>1. k \in 0 .. m - 1 /\ h[k + 1] = g[k + 1]
          BY <4>1, <4>3
        <5>2. QED
          BY <3>2, <4>1, <5>1 DEF FirstValues
      <4>4. QED
        BY <4>2, <4>3
    <3>6. FirstValues(S, start, step, m + 1, h)
      BY <3>4, <3>5 DEF FirstValues
    <3>7. QED
      BY <2>2, <3>1, <3>6
  <2>5. QED
    BY <2>3, <2>4
<1>2. QED
  BY <1>1

\* A function on the natural numbers, by its first value and its steps.
Iterates(S, start, step, h) ==
  h \in [Nat -> S] /\ h[0] = start /\ \A k \in Nat : h[k + 1] = step[k][h[k]]

\* There is one.
LEMMA PrimitiveRecursion ==
  ASSUME NEW S, NEW start \in S, NEW step \in [Nat -> [S -> S]]
  PROVE  \E h : Iterates(S, start, step, h)
<1> DEFINE upTo(n) == CHOOSE h : FirstValues(S, start, step, n, h)
           F == [n \in Nat |-> upTo(n)[n]]
<1>1. ASSUME NEW n \in Nat
      PROVE  FirstValues(S, start, step, n, upTo(n))
  BY FirstValuesExist
<1> HIDE DEF upTo
<1>2. F \in [Nat -> S]
  <2>1. ASSUME NEW n \in Nat
        PROVE  upTo(n)[n] \in S
    BY <1>1 DEF FirstValues
  <2>2. QED
    BY <2>1
<1>3. F[0] = start
  <2>1. upTo(0)[0] = start
    BY <1>1 DEF FirstValues
  <2>2. QED
    BY <2>1
<1>4. ASSUME NEW k \in Nat
      PROVE  F[k + 1] = step[k][F[k]]
  <2>1. k + 1 \in Nat /\ k <= k + 1 /\ k <= k /\ k \in 0 .. (k + 1) - 1
    OBVIOUS
  <2>2. upTo(k + 1)[k + 1] = step[k][upTo(k + 1)[k]]
    <3>1. FirstValues(S, start, step, k + 1, upTo(k + 1))
      BY <1>1, <2>1
    <3>2. QED
      BY <2>1, <3>1 DEF FirstValues
  <2>3. upTo(k + 1)[k] = upTo(k)[k]
    <3>1. FirstValues(S, start, step, k + 1, upTo(k + 1)) /\ FirstValues(S, start, step, k, upTo(k))
      BY <1>1, <2>1
    <3>2. QED
      BY <2>1, <3>1, FirstValuesAgree
  <2>4. QED
    BY <2>1, <2>2, <2>3
<1>5. Iterates(S, start, step, F)
  BY <1>2, <1>3, <1>4 DEF Iterates
<1>6. QED
  BY <1>5

\* Min is that least element.
LEMMA MinFacts ==
  ASSUME NEW S \in SUBSET Nat, S # {}
  PROVE  Min(S) \in S /\ \A n \in S : Min(S) <= n
BY Least DEF Min

\* And an element below all the others is Min.
LEMMA MinIs ==
  ASSUME NEW S \in SUBSET Nat, NEW m \in S, \A n \in S : m <= n
  PROVE  Min(S) = m
<1>1. Min(S) \in S /\ Min(S) <= m
  BY MinFacts
<1>2. m \in Nat /\ Min(S) \in Nat /\ m <= Min(S)
  BY <1>1
<1>3. QED
  BY <1>1, <1>2

\* RemoveAt, position by position.
LEMMA RemoveAtIs ==
  ASSUME NEW A, NEW s \in Seq(A), NEW r \in DOMAIN s
  PROVE  /\ RemoveAt(s, r) \in Seq(A) /\ Len(RemoveAt(s, r)) = Len(s) - 1
         /\ \A i \in 1 .. Len(s) - 1 : /\ i < r => RemoveAt(s, r)[i] = s[i]
                                       /\ ~(i < r) => RemoveAt(s, r)[i] = s[i + 1]
<1> DEFINE a == SubSeq(s, 1, r - 1)
           b == SubSeq(s, r + 1, Len(s))
<1>1. r \in 1 .. Len(s) /\ Len(s) \in Nat
  OBVIOUS
<1>2. a \in Seq(A) /\ Len(a) = r - 1 /\ \A i \in 1 .. r - 1 : a[i] = s[i]
  BY <1>1
<1>3. b \in Seq(A) /\ Len(b) = Len(s) - r /\ \A i \in 1 .. Len(s) - r : b[i] = s[i + r]
  BY <1>1
<1>4. RemoveAt(s, r) = a \o b
  BY DEF RemoveAt
<1> HIDE DEF a, b
<1>5. /\ a \o b \in Seq(A) /\ Len(a \o b) = Len(s) - 1
      /\ \A i \in 1 .. Len(s) - 1 : (a \o b)[i] = IF i <= Len(a) THEN a[i] ELSE b[i - Len(a)]
  <2>1. Len(a) + Len(b) = Len(s) - 1
    BY <1>1, <1>2, <1>3
  <2>2. /\ a \o b \in Seq(A) /\ Len(a \o b) = Len(a) + Len(b)
        /\ \A i \in 1 .. Len(a) + Len(b) : (a \o b)[i] = IF i <= Len(a) THEN a[i] ELSE b[i - Len(a)]
    BY <1>2, <1>3, ConcatProperties, Zenon
  <2>3. QED
    BY <2>1, <2>2
<1>6. ASSUME NEW i \in 1 .. Len(s) - 1
      PROVE  /\ i < r => (a \o b)[i] = s[i]
             /\ ~(i < r) => (a \o b)[i] = s[i + 1]
  <2>1. i \in Int /\ r \in Int /\ Len(a) = r - 1 /\ Len(s) \in Int
    BY <1>1, <1>2
  <2>2. CASE i < r
    BY <1>2, <1>5, <2>1, <2>2
  <2>3. CASE ~(i < r)
    <3>1. i - (r - 1) \in 1 .. Len(s) - r /\ i - (r - 1) + r = i + 1
      BY <1>1, <2>3
    <3>2. (a \o b)[i] = b[i - (r - 1)]
      BY <1>5, <2>1, <2>3
    <3>3. QED
      BY <1>3, <2>3, <3>1, <3>2
  <2>4. QED
    BY <2>2, <2>3
<1>7. QED
  BY <1>4, <1>5, <1>6

\* Which elements are where after one has been removed, and before.
LEMMA Removed ==
  ASSUME NEW A, NEW s \in Seq(A), NEW r \in DOMAIN s, NEW rest, rest = RemoveAt(s, r)
  PROVE  /\ rest \in Seq(A) /\ Len(rest) = Len(s) - 1
         /\ \A i \in DOMAIN rest : /\ i < r => i \in DOMAIN s /\ rest[i] = s[i]
                                   /\ ~(i < r) => i + 1 \in DOMAIN s /\ rest[i] = s[i + 1]
         /\ \A k \in DOMAIN s : /\ k < r => k \in DOMAIN rest /\ rest[k] = s[k]
                                /\ k > r => k - 1 \in DOMAIN rest /\ rest[k - 1] = s[k]
<1>1. rest \in Seq(A) /\ Len(rest) = Len(s) - 1
  BY RemoveAtIs, Zenon
<1>2. \A i \in 1 .. Len(s) - 1 : /\ i < r => rest[i] = s[i]
                                 /\ ~(i < r) => rest[i] = s[i + 1]
  BY RemoveAtIs, Zenon
<1>3. DOMAIN s = 1 .. Len(s) /\ Len(s) \in Nat /\ r \in 1 .. Len(s) /\ DOMAIN rest = 1 .. Len(s) - 1
  BY <1>1
<1> DEFINE n == Len(s)
<1> HIDE DEF n
<1>4. ASSUME NEW i \in 1 .. n - 1, n \in Nat, r \in 1 .. n
      PROVE  i \in 1 .. n /\ i + 1 \in 1 .. n
  BY <1>4
<1>5. ASSUME NEW k \in 1 .. n, n \in Nat, r \in 1 .. n
      PROVE  /\ k < r => k \in 1 .. n - 1
             /\ k > r => k - 1 \in 1 .. n - 1 /\ ~(k - 1 < r) /\ (k - 1) + 1 = k
  BY <1>5
<1>6. \A i \in DOMAIN rest : /\ i < r => i \in DOMAIN s /\ rest[i] = s[i]
                             /\ ~(i < r) => i + 1 \in DOMAIN s /\ rest[i] = s[i + 1]
  BY <1>2, <1>3, <1>4, Zenon DEF n
<1>7. ASSUME NEW k \in DOMAIN s
      PROVE  /\ k < r => k \in DOMAIN rest /\ rest[k] = s[k]
             /\ k > r => k - 1 \in DOMAIN rest /\ rest[k - 1] = s[k]
  <2>1. ASSUME k < r PROVE k \in DOMAIN rest /\ rest[k] = s[k]
    <3>1. k \in 1 .. Len(s) - 1
      BY <1>3, <1>5, <2>1, Zenon DEF n
    <3>2. QED
      BY <1>2, <1>3, <2>1, <3>1, Zenon
  <2>2. ASSUME k > r PROVE k - 1 \in DOMAIN rest /\ rest[k - 1] = s[k]
    <3>1. k - 1 \in 1 .. Len(s) - 1 /\ ~(k - 1 < r) /\ (k - 1) + 1 = k
      BY <1>3, <1>5, <2>2, Zenon DEF n
    <3>2. rest[k - 1] = s[(k - 1) + 1]
      BY <1>2, <3>1, Zenon
    <3>3. QED
      BY <1>3, <3>1, <3>2, Zenon
  <2>3. QED
    BY <2>1, <2>2
<1>8. QED
  BY <1>1, <1>6, <1>7

\* The same for an element added at the end.
LEMMA Appended ==
  ASSUME NEW A, NEW s \in Seq(A), NEW e \in A, NEW more, more = Append(s, e)
  PROVE  /\ more \in Seq(A) /\ Len(more) = Len(s) + 1 /\ more # <<>>
         /\ DOMAIN more = 1 .. Len(s) + 1 /\ DOMAIN s = 1 .. Len(s) /\ Len(s) \in Nat
         /\ \A i \in DOMAIN s : i \in DOMAIN more /\ more[i] = s[i]
         /\ Len(s) + 1 \in DOMAIN more /\ more[Len(s) + 1] = e
         /\ \A i \in DOMAIN more : i \in DOMAIN s \/ i = Len(s) + 1
<1>1. Len(s) \in Nat /\ DOMAIN s = 1 .. Len(s)
  OBVIOUS
<1>2. more \in Seq(A) /\ Len(more) = Len(s) + 1 /\ DOMAIN more = 1 .. Len(s) + 1
  BY <1>1
<1>3. \A i \in DOMAIN s : more[i] = s[i]
  BY <1>1
<1>4. more[Len(s) + 1] = e
  BY <1>1
<1>5. QED
  BY <1>1, <1>2, <1>3, <1>4

\* And for one taken from the front.
LEMMA Shortened ==
  ASSUME NEW A, NEW s \in Seq(A), s # <<>>, NEW rest, rest = Tail(s)
  PROVE  /\ rest \in Seq(A) /\ 1 \in DOMAIN s /\ Head(s) = s[1]
         /\ \A i \in DOMAIN rest : i \in Nat /\ i >= 1 /\ i + 1 \in DOMAIN s /\ rest[i] = s[i + 1]
         /\ \A i \in DOMAIN s : i \in Nat /\ (i > 1 => i - 1 \in DOMAIN rest /\ rest[i - 1] = s[i])
         /\ rest # <<>> => 2 \in DOMAIN s /\ Head(rest) = s[2]
         /\ 2 \in DOMAIN s => rest # <<>>
<1>1. /\ Len(s) \in Nat /\ Len(s) >= 1 /\ DOMAIN s = 1 .. Len(s) /\ Head(s) = s[1]
      /\ rest \in Seq(A) /\ Len(rest) = Len(s) - 1 /\ DOMAIN rest = 1 .. Len(s) - 1
      /\ \A i \in 1 .. Len(s) - 1 : rest[i] = s[i + 1]
  OBVIOUS
<1>2. ASSUME NEW i \in DOMAIN s, i > 1 PROVE i - 1 \in DOMAIN rest /\ rest[i - 1] = s[i]
  <2>1. i - 1 \in 1 .. Len(s) - 1 /\ (i - 1) + 1 = i
    BY <1>1, <1>2
  <2>2. QED
    BY <1>1, <2>1
<1>3. rest # <<>> <=> Len(s) >= 2
  <2>1. rest # <<>> <=> Len(rest) # 0
    BY <1>1
  <2>2. QED
    BY <1>1, <2>1
<1>4. rest # <<>> => Head(rest) = s[2]
  BY <1>1
<1>5. QED
  BY <1>1, <1>2, <1>3, <1>4

\* A set of places, and the same when everything above r, which is not among
\* them, moves down by one.
LEMMA MovedMin ==
  ASSUME NEW S \in SUBSET Nat, NEW T \in SUBSET Nat, NEW r \in Nat, r \notin S,
         \A k \in S : (k < r => k \in T) /\ (k > r => k - 1 \in T),
         \A i \in T : (i < r => i \in S) /\ (~(i < r) => i + 1 \in S)
  PROVE  /\ S = {} <=> T = {}
         /\ S # {} => Min(T) = IF Min(S) < r THEN Min(S) ELSE Min(S) - 1
<1>1. S = {} <=> T = {}
  OBVIOUS
<1>2. ASSUME S # {} PROVE Min(T) = IF Min(S) < r THEN Min(S) ELSE Min(S) - 1
  <2>1. PICK m \in S : m = Min(S) /\ \A k \in S : m <= k
    BY <1>2, MinFacts
  <2>2. PICK n \in T : n = IF m < r THEN m ELSE m - 1
    BY <2>1
  <2>3. \A i \in T : n <= i
    <3>1. ASSUME NEW i \in T PROVE n <= i
      <4>1. i \in Nat /\ m \in Nat /\ n \in Nat
        OBVIOUS
      <4>2. CASE i < r
        <5>1. m <= i
          BY <2>1, <4>2
        <5>2. QED
          BY <2>2, <4>1, <4>2, <5>1
      <4>3. CASE ~(i < r)
        <5>1. m <= i + 1
          BY <2>1, <4>3
        <5>2. QED
          BY <2>2, <4>1, <4>3, <5>1
      <4>4. QED
        BY <4>2, <4>3
    <3>2. QED
      BY <3>1
  <2>4. Min(T) = n
    BY <2>3, MinIs
  <2>5. QED
    BY <2>1, <2>2, <2>4
<1>3. QED
  BY <1>1, <1>2

=============================================================================
