-------------------------- MODULE VirtioDiskProofs --------------------------
(***************************************************************************)
(* The rings of kernel/virtio_disk.c for every ring size and every index   *)
(* that wraps at a multiple of it: what putting an entry in and taking one *)
(* out do to the entries between two indices.  BufferCacheProofs uses the  *)
(* lemmas for the avail ring and for the used ring.                        *)
(***************************************************************************)
EXTENDS VirtioDisk, FiniteSetTheorems, TLAPS

-----------------------------------------------------------------------------
(* Remainders.                                                             *)

\* Division with a remainder.
LEMMA ModDiv ==
    ASSUME NEW n \in Nat \ {0}, NEW a \in Int
    PROVE  a \div n \in Int /\ a % n \in 0 .. n - 1 /\ a = n * (a \div n) + (a % n)
OBVIOUS

\* The remainder is the only one.
LEMMA ModUnique ==
    ASSUME NEW n \in Nat \ {0}, NEW k \in Int, NEW r \in 0 .. n - 1
    PROVE  (n * k + r) % n = r
OBVIOUS

\* A number below n is its own remainder.
LEMMA ModSmall ==
    ASSUME NEW n \in Nat \ {0}, NEW a \in 0 .. n - 1
    PROVE  a % n = a
OBVIOUS

\* A multiple of n changes nothing.
LEMMA ModMultiple ==
    ASSUME NEW n \in Nat \ {0}, NEW a \in Int, NEW k \in Int
    PROVE  (a + n * k) % n = a % n
<1> DEFINE q == a \div n
           r == a % n
<1>1. q \in Int /\ r \in 0 .. n - 1 /\ a = n * q + r
  BY ModDiv
<1>2. a + n * k = n * (q + k) + r
  <2> HIDE DEF q, r
  <2> QED BY <1>1
<1>3. (n * (q + k) + r) % n = r
  <2> HIDE DEF q, r
  <2> QED BY <1>1, ModUnique
<1> QED BY <1>2, <1>3

\* Taking the remainder by a multiple m of n first changes nothing, in a sum
\* and in a difference.
LEMMA ModMod ==
    ASSUME NEW n \in Nat \ {0}, NEW m \in Nat \ {0}, m % n = 0,
           NEW a \in Int, NEW b \in Int
    PROVE  /\ ((a % m) + b) % n = (a + b) % n
           /\ (b - (a % m)) % n = (b - a) % n
           /\ (a % m) % n = a % n
<1> DEFINE q == a \div m
           r == a % m
           c == m \div n
           k == c * q
<1>1. q \in Int /\ r \in 0 .. m - 1 /\ a = m * q + r
  BY ModDiv
<1>2. c \in Int /\ m = n * c
  BY ModDiv
<1>3. k \in Int /\ a = r + n * k
  <2> HIDE DEF q, r, c
  <2> QED BY <1>1, <1>2
<1>4. r \in Int
  BY <1>1
<1> HIDE DEF q, r, c, k
<1>5. (r + b + n * k) % n = (r + b) % n
  <2>1. r + b \in Int
    BY <1>4
  <2> QED BY <2>1, <1>3, ModMultiple
<1>6. ((b - a) + n * k) % n = (b - a) % n
  <2>1. b - a \in Int
    OBVIOUS
  <2> QED BY <2>1, <1>3, ModMultiple
<1>7. a + b = r + b + n * k /\ b - r = (b - a) + n * k
  <2> DEFINE nk == n * k
  <2>1. nk \in Int /\ a = r + nk
    BY <1>3
  <2> HIDE DEF nk
  <2>2. a + b = r + b + nk /\ b - r = (b - a) + nk
    BY <1>4, <2>1
  <2> QED BY <2>2 DEF nk
<1>8. (r + n * k) % n = r % n
  BY <1>3, <1>4, ModMultiple
<1>9. (r + b) % n = (a + b) % n
  BY <1>5, <1>7
<1>10. (b - r) % n = (b - a) % n
  BY <1>6, <1>7
<1>11. r % n = a % n
  BY <1>3, <1>8
<1> QED BY <1>9, <1>10, <1>11 DEF r

\* Offsets below n from the same start have different remainders.
LEMMA ModInjective ==
    ASSUME NEW n \in Nat \ {0}, NEW a \in Int,
           NEW j \in 0 .. n - 1, NEW k \in 0 .. n - 1, (a + j) % n = (a + k) % n
    PROVE  j = k
<1> DEFINE x == (a + j) \div n
           y == (a + k) \div n
           r == (a + k) % n
<1>1. a + j \in Int /\ a + k \in Int
  OBVIOUS
<1>2. x \in Int /\ (a + j) % n = r /\ a + j = n * x + r
  BY <1>1, ModDiv
<1>3. y \in Int /\ r \in 0 .. n - 1 /\ a + k = n * y + r
  BY <1>1, ModDiv
<1> HIDE DEF x, y, r
<1>4. j - k = n * (x - y)
  BY <1>2, <1>3
<1>5. x - y = 0
  BY <1>2, <1>3, <1>4
<1> QED BY <1>2, <1>3, <1>4, <1>5

\* A number is a multiple of itself.
LEMMA ModMultipleSelf == ASSUME NEW n \in Nat \ {0} PROVE n % n = 0
<1>1. (n * 1 + 0) % n = 0
  BY ModUnique
<1> QED BY <1>1

-----------------------------------------------------------------------------
(* Rings.                                                                  *)

Index == 0 .. IDX - 1

\* The number of entries from index `from' to just before index `to', the
\* k-th of them, and that none is there twice.
Count(from, to) == (to - from) % IDX
Entry(from, k, ring) == ring[(from + k) % NUM]
NoRepeat(from, to, ring) ==
    \A j, k \in 0 .. Count(from, to) - 1 :
        Entry(from, j, ring) = Entry(from, k, ring) => j = k

\* An index is a position of the ring, and a count is less than IDX.
LEMMA RingTypes ==
    /\ NUM \in Nat \ {0} /\ IDX \in Nat \ {0} /\ NUM <= IDX
    /\ \A from, to \in Index : Count(from, to) \in Index
    /\ \A a \in Int : a % NUM \in Desc /\ a % IDX \in Index
<1>1. NUM \in Nat \ {0} /\ IDX \in Nat \ {0} /\ IDX % NUM = 0
  BY VirtioAssumption
<1>2. \A a \in Int : a % NUM \in Desc /\ a % IDX \in Index
  BY <1>1, ModDiv DEF Desc, Index
<1>3. \A from, to \in Index : to - from \in Int
  BY <1>1 DEF Index
<1>4. NUM <= IDX
  <2>1. SUFFICES ASSUME IDX < NUM PROVE FALSE
    BY <1>1
  <2>2. IDX \in 0 .. NUM - 1
    BY <1>1, <2>1
  <2>3. IDX % NUM = IDX
    BY <1>1, <2>2, ModSmall
  <2> QED
    BY <1>1, <2>3
<1> QED
  BY <1>1, <1>2, <1>3, <1>4 DEF Count

\* The same for one pair of indices, as numbers.
LEMMA RingNumbers ==
    ASSUME NEW from \in Index, NEW to \in Index
    PROVE  /\ from \in Int /\ to \in Int /\ to - from \in Int
           /\ from + 1 \in Int /\ to + 1 \in Int
           /\ Count(from, to) \in Nat /\ Count(from, to) < IDX
<1>1. IDX \in Nat
  BY VirtioAssumption
<1>2. Count(from, to) \in Index
  BY RingTypes
<1> QED
  BY <1>1, <1>2 DEF Index

\* The entries between two indices are those that Count counts.
LEMMA RingEntries ==
    ASSUME NEW from \in Index, NEW to \in Index, NEW ring
    PROVE  Between(from, to, ring) = {Entry(from, k, ring) : k \in 0 .. Count(from, to) - 1}
<1> DEFINE n == Count(from, to)
<1>1. /\ NUM \in Nat \ {0} /\ IDX \in Nat \ {0} /\ IDX % NUM = 0 /\ IDX % IDX = 0
      /\ n \in Index /\ from \in Int
  <2>1. IDX % IDX = 0
    BY VirtioAssumption, ModMultipleSelf
  <2>2. from \in Int
    BY VirtioAssumption DEF Index
  <2> QED
    BY <2>1, <2>2, VirtioAssumption, RingTypes
<1> HIDE DEF n
<1>2. ASSUME NEW j \in Index, (j - from) % IDX < n
      PROVE  \E k \in 0 .. n - 1 : j % NUM = (from + k) % NUM
  <2> DEFINE k == (j - from) % IDX
  <2>1. j \in Int /\ j - from \in Int
    BY <1>1 DEF Index
  <2>2. k \in 0 .. n - 1
    BY <2>1, <1>1, <1>2, RingTypes DEF Index
  <2>3. (k + from) % NUM = ((j - from) + from) % NUM
    BY <1>1, <2>1, ModMod
  <2>4. (j - from) + from = j
    BY <1>1, <2>1
  <2>5. k + from = from + k
    BY <2>2, <1>1 DEF Index
  <2> QED
    BY <2>2, <2>3, <2>4, <2>5
<1>3. ASSUME NEW k \in 0 .. n - 1
      PROVE  \E j \in Index : (j - from) % IDX < n /\ j % NUM = (from + k) % NUM
  <2> DEFINE j == (from + k) % IDX
  <2>0. k \in Int /\ from + k \in Int /\ k \in Index /\ k < n
    BY <1>1 DEF Index
  <2>1. j \in Index /\ j \in Int
    BY <2>0, RingTypes, <1>1 DEF Index
  <2>2. j % NUM = (from + k) % NUM
    BY <2>0, <1>1, ModMod
  <2>3. (j + (-from)) % IDX = (from + k + (-from)) % IDX
    <3>1. -from \in Int
      BY <1>1
    <3> QED
      BY <2>0, <1>1, <3>1, ModMod
  <2>4. from + k + (-from) = k
    BY <1>1, <2>0
  <2>5. k % IDX = k
    BY <1>1, <2>0, ModSmall DEF Index
  <2>6. j + (-from) = j - from
    <3> HIDE DEF j
    <3> QED
      BY <1>1, <2>0, <2>1
  <2> QED
    BY <2>0, <2>1, <2>2, <2>3, <2>4, <2>5, <2>6
<1>4. Between(from, to, ring) = {ring[j % NUM] : j \in {i \in Index : (i - from) % IDX < n}}
  BY DEF Between, Index, n, Count
<1>5. \A e : e \in Between(from, to, ring) <=>
             \E j \in Index : (j - from) % IDX < n /\ e = ring[j % NUM]
  BY <1>4
<1>6. \A e : e \in {Entry(from, k, ring) : k \in 0 .. n - 1} <=>
             \E k \in 0 .. n - 1 : e = ring[(from + k) % NUM]
  BY DEF Entry
<1>7. \A e : (\E j \in Index : (j - from) % IDX < n /\ e = ring[j % NUM])
             <=> (\E k \in 0 .. n - 1 : e = ring[(from + k) % NUM])
  BY <1>2, <1>3
<1> QED
  BY <1>5, <1>6, <1>7 DEF n

\* A ring is empty exactly when its two indices agree.
LEMMA RingEmpty ==
    ASSUME NEW from \in Index, NEW to \in Index, NEW ring
    PROVE  /\ Count(from, to) = 0 <=> from = to
           /\ from = to => Between(from, to, ring) = {} /\ NoRepeat(from, to, ring)
           /\ from # to => Entry(from, 0, ring) \in Between(from, to, ring)
<1>1. /\ NUM \in Nat \ {0} /\ IDX \in Nat \ {0} /\ Count(from, to) \in Index
      /\ from \in Int /\ to \in Int
  <2>1. from \in Int /\ to \in Int
    BY VirtioAssumption DEF Index
  <2> QED
    BY <2>1, RingTypes
<1>2. from = to => Count(from, to) = 0
  <2>1. 0 % IDX = 0
    BY <1>1, ModSmall
  <2> QED
    BY <2>1, <1>1 DEF Count
<1>3. ASSUME Count(from, to) = 0 PROVE from = to
  <2>1. (from + (to - from)) % IDX = (from + 0) % IDX
    <3> DEFINE d == to - from
               q == d \div IDX
    <3>0. d \in Int /\ d % IDX = 0
      BY <1>1, <1>3 DEF Count
    <3> HIDE DEF d
    <3>1. q \in Int /\ d = IDX * q + 0
      BY <1>1, <3>0, ModDiv
    <3> HIDE DEF q
    <3>2. (from + IDX * q) % IDX = from % IDX
      BY <1>1, <3>1, ModMultiple
    <3>3. d = IDX * q
      <4> DEFINE x == IDX * q
      <4>1. x \in Int /\ d = x + 0
        BY <3>1, <1>1
      <4> HIDE DEF x
      <4> QED
        BY <4>1 DEF x
    <3> QED
      BY <3>2, <3>3, <1>1 DEF d
  <2>2. from + (to - from) = to /\ from + 0 = from
    BY <1>1
  <2>3. to % IDX = to /\ from % IDX = from
    BY <1>1, ModSmall DEF Index
  <2> QED
    BY <2>1, <2>2, <2>3
<1>4. ASSUME from = to PROVE Between(from, to, ring) = {} /\ NoRepeat(from, to, ring)
  <2>1. 0 .. Count(from, to) - 1 = {}
    BY <1>2, <1>4
  <2> QED
    BY <2>1, RingEntries DEF NoRepeat
<1>5. ASSUME from # to PROVE Entry(from, 0, ring) \in Between(from, to, ring)
  <2>1. 0 \in 0 .. Count(from, to) - 1
    BY <1>1, <1>3, <1>5 DEF Index
  <2> QED
    BY <2>1, RingEntries
<1> QED
  BY <1>2, <1>3, <1>4, <1>5

\* A ring without repetition holds no more entries than there are values.
LEMMA RingBound ==
    ASSUME NEW from \in Index, NEW to \in Index, NEW ring,
           NoRepeat(from, to, ring),
           NEW S, IsFiniteSet(S), Between(from, to, ring) \subseteq S
    PROVE  Count(from, to) <= Cardinality(S)
<1> DEFINE n == Count(from, to)
           f == [k \in 0 .. n - 1 |-> Entry(from, k, ring)]
<1>1. n \in Nat
  BY RingNumbers
<1>2. \A k \in 0 .. n - 1 : Entry(from, k, ring) \in S
  BY RingEntries
<1>3. f \in Injection(0 .. n - 1, S)
  BY <1>2 DEF NoRepeat, Injection, IsInjective
<1> HIDE DEF n, f
<1>4. Cardinality(0 .. n - 1) <= Cardinality(S)
  BY <1>3, FS_Injection DEF ExistsInjection
<1>5. Cardinality(0 .. n - 1) = n
  BY <1>1, FS_Interval
<1> QED
  BY <1>4, <1>5 DEF n

\* The ring with entry x at position d.
PutAt(ring, d, x) == [ring EXCEPT ![d] = x]

\* What the writer of a ring does: an entry is put at the index, which moves
\* on.  While there is room, nothing that the reader has yet to see changes.
LEMMA RingPut ==
    ASSUME NEW from \in Index, NEW to \in Index, NEW ring \in [Desc -> Desc],
           NEW x \in Desc, x \notin Between(from, to, ring),
           NoRepeat(from, to, ring),
           Count(from, to) + 1 < NUM
    PROVE  LET ring2 == PutAt(ring, to % NUM, x)
               to2 == (to + 1) % IDX
           IN  /\ ring2 \in [Desc -> Desc] /\ to2 \in Index
               /\ Between(from, to2, ring2) = Between(from, to, ring) \cup {x}
               /\ NoRepeat(from, to2, ring2)
<1> DEFINE n == Count(from, to)
           ring2 == PutAt(ring, to % NUM, x)
           to2 == (to + 1) % IDX
<1>0. from \in Int /\ to \in Int /\ to - from \in Int /\ from + 1 \in Int /\ to + 1 \in Int
  BY RingNumbers
<1>1. /\ NUM \in Nat \ {0} /\ IDX \in Nat \ {0} /\ NUM <= IDX /\ IDX % NUM = 0
      /\ IDX % IDX = 0
  BY RingTypes, VirtioAssumption, ModMultipleSelf
<1>2. n \in Nat /\ n + 1 < NUM
  BY RingNumbers
<1>3. to2 \in Index /\ to2 \in Int
  <2>1. to2 \in Index
    BY <1>0, RingTypes
  <2> QED
    BY <2>1, <1>1 DEF Index
<1>4. ring2 \in [Desc -> Desc]
  BY DEF PutAt
<1>5. Count(from, to2) = n + 1
  <2>1. (((to + 1) % IDX) + (-from)) % IDX = (to + 1 + (-from)) % IDX
    <3>1. to + 1 \in Int /\ -from \in Int
      BY <1>0
    <3> QED
      BY <1>1, <3>1, ModMod
  <2>2. (((to - from) % IDX) + 1) % IDX = ((to - from) + 1) % IDX
    <3> DEFINE d == to - from
    <3>1. d \in Int
      BY <1>0
    <3> HIDE DEF d
    <3>2. \A b \in Int : ((d % IDX) + b) % IDX = (d + b) % IDX
      BY <3>1, <1>1, ModMod
    <3> QED
      BY <3>2 DEF d
  <2>3. (n + 1) % IDX = n + 1
    <3>1. n + 1 \in 0 .. IDX - 1
      BY <1>1, <1>2
    <3> HIDE DEF n
    <3> QED
      BY <1>1, <3>1, ModSmall
  <2>4. to2 + (-from) = to2 - from
    <3> HIDE DEF to2
    <3> QED
      BY <1>0, <1>3
  <2>5. to + 1 + (-from) = (to - from) + 1
    BY <1>0
  <2> QED
    BY <2>1, <2>2, <2>3, <2>4, <2>5 DEF Count
<1>6. to % NUM = (from + n) % NUM
  <2>1. (((to - from) % IDX) + from) % NUM = ((to - from) + from) % NUM
    BY <1>0, <1>1, ModMod
  <2>2. (to - from) + from = to
    BY <1>0
  <2>3. n + from = from + n
    BY <1>0, <1>2
  <2> QED
    BY <2>1, <2>2, <2>3 DEF Count
<1>7. \A k \in 0 .. n : (from + k) % NUM \in Desc
  <2>1. \A k \in 0 .. n : from + k \in Int
    BY <1>0, <1>2
  <2> QED
    BY <2>1, RingTypes
<1>8. \A k \in 0 .. n - 1 : (from + k) % NUM # (from + n) % NUM
  <2> HIDE DEF n
  <2>1. \A k \in 0 .. n - 1 : k \in 0 .. NUM - 1 /\ k # n
    BY <1>1, <1>2
  <2>2. n \in 0 .. NUM - 1
    BY <1>1, <1>2
  <2> QED
    BY <1>0, <1>1, <2>1, <2>2, ModInjective
<1> HIDE DEF n, to2
<1>9. /\ Entry(from, n, ring2) = x
      /\ \A k \in 0 .. n - 1 : Entry(from, k, ring2) = Entry(from, k, ring)
  <2>1. n \in 0 .. n /\ \A k \in 0 .. n - 1 : k \in 0 .. n
    BY <1>2
  <2> QED
    BY <2>1, <1>6, <1>7, <1>8 DEF Entry, PutAt
<1>10. 0 .. Count(from, to2) - 1 = (0 .. n - 1) \cup {n}
  BY <1>2, <1>5
<1> HIDE DEF ring2
<1>11. Between(from, to2, ring2) = {Entry(from, k, ring2) : k \in (0 .. n - 1) \cup {n}}
  BY <1>3, <1>10, RingEntries
<1>12. Between(from, to, ring) = {Entry(from, k, ring) : k \in 0 .. n - 1}
  BY RingEntries DEF n
<1>13. Between(from, to2, ring2) = Between(from, to, ring) \cup {x}
  BY <1>9, <1>11, <1>12
<1>14. NoRepeat(from, to2, ring2)
  <2>1. \A k \in 0 .. n - 1 : Entry(from, k, ring2) # x
    BY <1>9, <1>12
  <2>2. \A j, k \in 0 .. n - 1 : Entry(from, j, ring2) = Entry(from, k, ring2) => j = k
    BY <1>9 DEF NoRepeat, n
  <2> QED
    BY <2>1, <2>2, <1>9, <1>10 DEF NoRepeat
<1> QED
  BY <1>3, <1>4, <1>13, <1>14 DEF ring2, to2

\* What the reader does: it takes the entry at its index, which moves on.
LEMMA RingTake ==
    ASSUME NEW from \in Index, NEW to \in Index, NEW ring \in [Desc -> Desc],
           from # to, NoRepeat(from, to, ring)
    PROVE  LET from2 == (from + 1) % IDX
               x == ring[from % NUM]
           IN  /\ from2 \in Index /\ x \in Desc
               /\ x \in Between(from, to, ring)
               /\ Between(from2, to, ring) = Between(from, to, ring) \ {x}
               /\ NoRepeat(from2, to, ring)
<1> DEFINE n == Count(from, to)
           from2 == (from + 1) % IDX
           x == ring[from % NUM]
<1>0. from \in Int /\ to \in Int /\ to - from \in Int /\ from + 1 \in Int /\ to + 1 \in Int
  BY RingNumbers
<1>1. /\ NUM \in Nat \ {0} /\ IDX \in Nat \ {0} /\ NUM <= IDX /\ IDX % NUM = 0
      /\ IDX % IDX = 0
  BY RingTypes, VirtioAssumption, ModMultipleSelf
<1>2. n \in Nat /\ n # 0 /\ n < IDX
  BY RingNumbers, RingEmpty
<1>3. from2 \in Index /\ from2 \in Int
  <2>1. from2 \in Index
    BY <1>0, RingTypes
  <2> QED
    BY <2>1, <1>1 DEF Index
<1>4. x \in Desc
  BY <1>0, RingTypes
<1>5. Count(from2, to) = n - 1
  <2>0. -1 \in Int
    OBVIOUS
  <2>1. (to - ((from + 1) % IDX)) % IDX = (to - (from + 1)) % IDX
    BY <1>0, <1>1, ModMod
  <2>2. (((to - from) % IDX) + (-1)) % IDX = ((to - from) + (-1)) % IDX
    <3> DEFINE d == to - from
    <3>1. d \in Int
      BY <1>0
    <3> HIDE DEF d
    <3>2. ((d % IDX) + (-1)) % IDX = (d + (-1)) % IDX
      BY <2>0, <3>1, <1>1, ModMod
    <3> QED
      BY <3>2 DEF d
  <2>3. (n - 1) % IDX = n - 1
    <3>1. n - 1 \in 0 .. IDX - 1
      BY <1>1, <1>2
    <3> HIDE DEF n
    <3> QED
      BY <1>1, <3>1, ModSmall
  <2>4. n + (-1) = n - 1 /\ (to - from) + (-1) = to - (from + 1)
    BY <1>0, <1>2
  <2> QED
    BY <2>1, <2>2, <2>3, <2>4 DEF Count
<1>6. \A k \in 0 .. n - 2 : (from2 + k) % NUM = (from + (k + 1)) % NUM
  <2> SUFFICES ASSUME NEW k \in 0 .. n - 2
               PROVE (from2 + k) % NUM = (from + (k + 1)) % NUM
    OBVIOUS
  <2>1. k \in Int
    BY <1>2
  <2>2. (((from + 1) % IDX) + k) % NUM = (from + 1 + k) % NUM
    BY <1>0, <1>1, <2>1, ModMod
  <2>3. from + 1 + k = from + (k + 1)
    BY <1>0, <2>1
  <2> QED
    BY <2>2, <2>3
<1> HIDE DEF n, from2
<1>7. \A k \in 0 .. n - 2 : Entry(from2, k, ring) = Entry(from, k + 1, ring)
  BY <1>6 DEF Entry
<1>8. Entry(from, 0, ring) = x
  <2>1. from + 0 = from
    BY <1>0
  <2> QED
    BY <2>1 DEF Entry
<1>9. 0 .. Count(from2, to) - 1 = 0 .. n - 2
  BY <1>2, <1>5
<1>10. Between(from2, to, ring) = {Entry(from2, k, ring) : k \in 0 .. n - 2}
  <2>1. Between(from2, to, ring)
          = {Entry(from2, k, ring) : k \in 0 .. Count(from2, to) - 1}
    BY <1>3, RingEntries
  <2> QED
    BY <2>1, <1>9
<1>11. Between(from, to, ring) = {Entry(from, k, ring) : k \in 0 .. n - 1}
  BY RingEntries DEF n
<1>12. /\ \A k \in 0 .. n - 2 : k + 1 \in 0 .. n - 1 /\ k + 1 # 0
       /\ \A k \in 0 .. n - 1 : k # 0 => k - 1 \in 0 .. n - 2 /\ (k - 1) + 1 = k
       /\ 0 \in 0 .. n - 1
  BY <1>2
<1>13. \A j, k \in 0 .. n - 1 : Entry(from, j, ring) = Entry(from, k, ring) => j = k
  BY DEF NoRepeat, n
<1>14. Between(from2, to, ring) \subseteq Between(from, to, ring) \ {x}
  BY <1>7, <1>8, <1>10, <1>11, <1>12, <1>13
<1>15. Between(from, to, ring) \ {x} \subseteq Between(from2, to, ring)
  <2> SUFFICES ASSUME NEW k \in 0 .. n - 1, Entry(from, k, ring) # x
               PROVE Entry(from, k, ring) \in Between(from2, to, ring)
    BY <1>11
  <2>1. k - 1 \in 0 .. n - 2 /\ (k - 1) + 1 = k
    BY <1>8, <1>12
  <2> QED
    BY <2>1, <1>7, <1>10
<1>16. NoRepeat(from2, to, ring)
  <2> SUFFICES ASSUME NEW j \in 0 .. n - 2, NEW k \in 0 .. n - 2,
                      Entry(from2, j, ring) = Entry(from2, k, ring)
               PROVE j = k
    BY <1>9 DEF NoRepeat
  <2>1. j + 1 = k + 1
    BY <1>7, <1>12, <1>13
  <2> QED
    BY <2>1, <1>2
<1>17. x \in Between(from, to, ring)
  BY <1>8, <1>11, <1>12
<1> QED
  BY <1>3, <1>4, <1>14, <1>15, <1>16, <1>17 DEF from2

-----------------------------------------------------------------------------
(* Descriptors.                                                            *)

\* Min() of FiniteSetsExt returns the least element of a set of naturals.
LEMMA MinLeast ==
    ASSUME NEW S \in SUBSET Nat, S # {}
    PROVE  Min(S) \in S /\ \A y \in S : Min(S) <= y
<1>1. IsWellFoundedOn(OpToRel(<, Nat), Nat)
  BY NatLessThanWellFounded
<1>2. PICK x \in S : \A y \in S : ~(<<y, x>> \in OpToRel(<, Nat))
  BY <1>1, WFMin
<1>3. \A y \in S : ~(y < x)
  BY <1>2 DEF OpToRel
<1>4. \A y \in S : x <= y
  BY <1>3
<1> QED
  BY <1>4 DEF Min

\* There are NUM descriptors.
LEMMA DescFinite == IsFiniteSet(Desc) /\ Cardinality(Desc) = NUM
<1>1. NUM \in Nat /\ NUM >= 3
  BY VirtioAssumption
<1>2. NUM - 1 \in Int /\ ~(0 > NUM - 1) /\ (NUM - 1) - 0 + 1 = NUM
  BY <1>1
<1> QED
  BY <1>2, FS_Interval DEF Desc

\* With three descriptors free, alloc3_desc() takes three different ones.
LEMMA Alloc3Free ==
    ASSUME free \in SUBSET Desc, Cardinality(free) >= 3
    PROVE  /\ Alloc3[1] \in free /\ Alloc3[2] \in free /\ Alloc3[3] \in free
           /\ Alloc3[1] # Alloc3[2] /\ Alloc3[2] # Alloc3[3] /\ Alloc3[1] # Alloc3[3]
<1> DEFINE d0 == Min(free)
           d1 == Min(free \ {d0})
           d2 == Min(free \ {d0, d1})
<1>1. IsFiniteSet(free) /\ Cardinality(free) \in Nat
  BY DescFinite, FS_Subset, FS_CardinalityType
<1>2. \A T \in SUBSET free : T \in SUBSET Nat
  BY VirtioAssumption DEF Desc
<1>3. free # {}
  BY <1>1, FS_EmptySet
<1>4. d0 \in free
  BY <1>2, <1>3, MinLeast
<1> HIDE DEF d0
<1>5. /\ IsFiniteSet(free \ {d0}) /\ Cardinality(free \ {d0}) = Cardinality(free) - 1
      /\ free \ {d0} \in SUBSET free
  BY <1>1, <1>4, FS_RemoveElement
<1>6. free \ {d0} # {}
  BY <1>1, <1>5, FS_EmptySet
<1>7. d1 \in free \ {d0}
  BY <1>2, <1>5, <1>6, MinLeast
<1> HIDE DEF d1
<1>8. /\ IsFiniteSet((free \ {d0}) \ {d1})
      /\ Cardinality((free \ {d0}) \ {d1}) = Cardinality(free \ {d0}) - 1
  BY <1>5, <1>7, FS_RemoveElement
<1>9. (free \ {d0}) \ {d1} = free \ {d0, d1}
  OBVIOUS
<1>10. free \ {d0, d1} # {} /\ free \ {d0, d1} \in SUBSET free
  BY <1>1, <1>5, <1>8, <1>9, FS_EmptySet
<1>11. d2 \in free \ {d0, d1}
  BY <1>2, <1>10, MinLeast
<1> HIDE DEF d2
<1>12. Alloc3[1] = d0 /\ Alloc3[2] = d1 /\ Alloc3[3] = d2
  BY DEF Alloc3, d0, d1, d2
<1> QED
  BY <1>4, <1>7, <1>11, <1>12
=============================================================================
