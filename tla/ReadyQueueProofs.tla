-------------------------- MODULE ReadyQueueProofs --------------------------
(***************************************************************************)
(* What the operators of ReadyQueue do to the members of the queues, for   *)
(* every number of processes and priorities.  The invariants of Sched are  *)
(* about members, so its proofs use these lemmas and never look at the     *)
(* sequences.                                                              *)
(***************************************************************************)
EXTENDS ReadyQueue, FiniteSetTheorems, SequenceTheorems, WellFoundedInduction, TLAPS

\* The places of s that Keep(s, S) keeps, and the rank of such a place.
Kept(s, S) == {i \in DOMAIN s : s[i] \in S}
Rank(K, i) == Cardinality({k \in K : k <= i})

-----------------------------------------------------------------------------
\* In a finite set of numbers every rank from 1 to the cardinality is taken
\* by exactly one element.
LEMMA RankBijective ==
    ASSUME NEW n \in Nat, NEW K \in SUBSET (1 .. n)
    PROVE  /\ IsFiniteSet(K) /\ Cardinality(K) \in Nat
           /\ \A i \in K : Rank(K, i) \in 1 .. Cardinality(K)
           /\ \A i, j \in K : Rank(K, i) = Rank(K, j) => i = j
           /\ \A r \in 1 .. Cardinality(K) : \E i \in K : Rank(K, i) = r
<1>1. IsFiniteSet(K) /\ Cardinality(K) \in Nat
  <2>1. IsFiniteSet(1 .. n)
    BY FS_Interval
  <2>2. IsFiniteSet(K)
    BY <2>1, FS_Subset
  <2> QED
    BY <2>2, FS_CardinalityType
<1>2. ASSUME NEW i \in K PROVE Rank(K, i) \in 1 .. Cardinality(K)
  <2> DEFINE L == {k \in K : k <= i}
  <2>1. IsFiniteSet(L) /\ Cardinality(L) <= Cardinality(K)
    BY <1>1, FS_Subset
  <2>2. i \in L
    OBVIOUS
  <2>3. Cardinality(L) \in Nat /\ Cardinality(L) # 0
    BY <2>1, <2>2, FS_EmptySet, FS_CardinalityType
  <2> QED
    BY <1>1, <2>1, <2>3 DEF Rank
<1>3. ASSUME NEW i \in K, NEW j \in K, i < j PROVE Rank(K, i) # Rank(K, j)
  <2> DEFINE L == {k \in K : k <= i}
             M == {k \in K : k <= j}
  <2>1. IsFiniteSet(M)
    BY <1>1, FS_Subset
  <2>2. L \in SUBSET M /\ j \in M /\ j \notin L
    <3>1. i \in Int /\ j \in Int /\ \A k \in K : k \in Int
      OBVIOUS
    <3>2. \A k \in K : k <= i => k <= j
      BY <1>3, <3>1
    <3>3. ~(j <= i) /\ j <= j
      BY <1>3, <3>1
    <3> QED
      BY <3>2, <3>3
  <2>3. L # M
    BY <2>2
  <2>4. Cardinality(L) # Cardinality(M)
    BY <2>1, <2>2, <2>3, FS_Subset
  <2> QED
    BY <2>4 DEF Rank
<1>4. ASSUME NEW i \in K, NEW j \in K, Rank(K, i) = Rank(K, j) PROVE i = j
  <2>1. i < j \/ j < i \/ i = j
    OBVIOUS
  <2> QED
    BY <1>3, <1>4, <2>1
<1>5. ASSUME NEW r \in 1 .. Cardinality(K) PROVE \E i \in K : Rank(K, i) = r
  <2> DEFINE T == 1 .. Cardinality(K)
             f == [i \in K |-> Rank(K, i)]
  <2>1. f \in Injection(K, T)
    BY <1>2, <1>4 DEF Injection, IsInjective
  <2>2. IsFiniteSet(T) /\ Cardinality(T) = Cardinality(K)
    BY <1>1, FS_Interval
  <2>3. f \in Surjection(K, T)
    BY <2>1, <2>2, FS_Injection
  <2> QED
    BY <2>3, <1>5 DEF Surjection
<1> QED
  BY <1>1, <1>2, <1>4, <1>5

\* Keep(s, S) is a sequence, keeps each place once, and keeps just the
\* members of s that are in S.
LEMMA KeepMembers ==
    ASSUME NEW T, NEW s \in Seq(T), NEW S
    PROVE  /\ Keep(s, S) \in Seq(T)
           /\ Members(Keep(s, S)) = Members(s) \cap S
           /\ Once(s) => Once(Keep(s, S))
<1> DEFINE K == Kept(s, S)
           n == Cardinality(K)
           pos(r) == CHOOSE i \in K : Rank(K, i) = r
           t == [r \in 1 .. n |-> s[pos(r)]]
<1>1. DOMAIN s = 1 .. Len(s) /\ Len(s) \in Nat
  BY LenProperties
<1>2. K \in SUBSET (1 .. Len(s))
  BY <1>1 DEF Kept
<1>3. /\ n \in Nat
      /\ \A i \in K : Rank(K, i) \in 1 .. n
      /\ \A i, j \in K : Rank(K, i) = Rank(K, j) => i = j
      /\ \A r \in 1 .. n : \E i \in K : Rank(K, i) = r
  BY <1>1, <1>2, RankBijective
<1>4. \A r \in 1 .. n : pos(r) \in K /\ Rank(K, pos(r)) = r
  BY <1>3
<1>5. \A i \in K : pos(Rank(K, i)) = i
  BY <1>3, <1>4
<1>6. Keep(s, S) = t
  BY DEF Keep, Kept, Rank
<1>7. \A i \in K : s[i] \in T /\ s[i] \in S /\ i \in DOMAIN s
  BY <1>1, ElementOfSeq DEF Kept
<1> HIDE DEF K, n, pos
<1>8. t \in [1 .. n -> T]
  BY <1>4, <1>7
<1>9. t \in Seq(T) /\ DOMAIN t = 1 .. n
  BY <1>3, <1>8, IsASeq
<1>10. Members(t) \subseteq Members(s) \cap S
  BY <1>4, <1>7 DEF Members
<1>11. ASSUME NEW x \in Members(s) \cap S PROVE x \in Members(t)
  <2>1. PICK i \in DOMAIN s : s[i] = x
    BY DEF Members
  <2>2. i \in K
    BY <2>1 DEF K, Kept
  <2>3. Rank(K, i) \in 1 .. n /\ t[Rank(K, i)] = x
    BY <1>3, <1>5, <2>1, <2>2
  <2> QED
    BY <2>3 DEF Members
<1>12. Once(s) => Once(t)
  <2> SUFFICES ASSUME Once(s), NEW a \in DOMAIN t, NEW b \in DOMAIN t, t[a] = t[b]
               PROVE  a = b
    BY DEF Once
  <2>1. s[pos(a)] = s[pos(b)] /\ pos(a) \in DOMAIN s /\ pos(b) \in DOMAIN s
    BY <1>4, <1>7
  <2>2. pos(a) = pos(b)
    BY <2>1 DEF Once
  <2> QED
    BY <1>4, <2>2
<1> QED
  BY <1>6, <1>9, <1>10, <1>11, <1>12

\* Concatenation joins the members.
LEMMA ConcatMembers ==
    ASSUME NEW T, NEW s \in Seq(T), NEW t \in Seq(T)
    PROVE  /\ s \o t \in Seq(T)
           /\ Members(s \o t) = Members(s) \cup Members(t)
           /\ Once(s) /\ Once(t) /\ Members(s) \cap Members(t) = {} => Once(s \o t)
<1>1. /\ DOMAIN s = 1 .. Len(s) /\ Len(s) \in Nat
      /\ DOMAIN t = 1 .. Len(t) /\ Len(t) \in Nat
  BY LenProperties
<1>2. /\ s \o t \in Seq(T)
      /\ Len(s \o t) = Len(s) + Len(t)
      /\ \A i \in 1 .. Len(s) + Len(t) :
           (s \o t)[i] = IF i <= Len(s) THEN s[i] ELSE t[i - Len(s)]
  BY ConcatProperties
<1>3. DOMAIN (s \o t) = 1 .. Len(s) + Len(t)
  BY <1>2, LenProperties
<1>4. Members(s \o t) \subseteq Members(s) \cup Members(t)
  BY <1>1, <1>2, <1>3 DEF Members
<1>5. ASSUME NEW x \in Members(s) PROVE x \in Members(s \o t)
  <2>1. PICK i \in 1 .. Len(s) : s[i] = x
    BY <1>1 DEF Members
  <2>2. i \in 1 .. Len(s) + Len(t) /\ (s \o t)[i] = x
    BY <1>1, <1>2, <2>1
  <2> QED
    BY <1>3, <2>2 DEF Members
<1>6. ASSUME NEW x \in Members(t) PROVE x \in Members(s \o t)
  <2>1. PICK i \in 1 .. Len(t) : t[i] = x
    BY <1>1 DEF Members
  <2>2. i + Len(s) \in 1 .. Len(s) + Len(t) /\ (s \o t)[i + Len(s)] = x
    BY <1>1, <1>2, <2>1
  <2> QED
    BY <1>3, <2>2 DEF Members
<1>7. Once(s) /\ Once(t) /\ Members(s) \cap Members(t) = {} => Once(s \o t)
  <2> SUFFICES ASSUME Once(s), Once(t), Members(s) \cap Members(t) = {},
                      NEW i \in 1 .. Len(s) + Len(t), NEW j \in 1 .. Len(s) + Len(t),
                      (s \o t)[i] = (s \o t)[j]
               PROVE  i = j
    BY <1>3 DEF Once
  <2>1. CASE i <= Len(s) /\ j <= Len(s)
    BY <1>1, <1>2, <2>1 DEF Once
  <2>2. CASE i > Len(s) /\ j > Len(s)
    BY <1>1, <1>2, <2>2 DEF Once
  <2>3. \A k \in 1 .. Len(s) : s[k] \in Members(s)
    BY <1>1 DEF Members
  <2>4. \A k \in 1 .. Len(t) : t[k] \in Members(t)
    BY <1>1 DEF Members
  <2>5. CASE i <= Len(s) /\ j > Len(s)
    <3>1. (s \o t)[i] \in Members(s)
      BY <1>1, <1>2, <2>3, <2>5
    <3>2. (s \o t)[j] \in Members(t)
      BY <1>1, <1>2, <2>4, <2>5
    <3> QED
      BY <3>1, <3>2
  <2>6. CASE i > Len(s) /\ j <= Len(s)
    <3>1. (s \o t)[j] \in Members(s)
      BY <1>1, <1>2, <2>3, <2>6
    <3>2. (s \o t)[i] \in Members(t)
      BY <1>1, <1>2, <2>4, <2>6
    <3> QED
      BY <3>1, <3>2
  <2> QED
    BY <1>1, <2>1, <2>2, <2>5, <2>6
<1> QED
  BY <1>2, <1>4, <1>5, <1>6, <1>7

\* Taking the head away takes one member away.
LEMMA TailMembers ==
    ASSUME NEW T, NEW s \in Seq(T), s # << >>, Once(s)
    PROVE  /\ Tail(s) \in Seq(T) /\ Once(Tail(s))
           /\ s[1] \in Members(s)
           /\ Members(Tail(s)) = Members(s) \ {s[1]}
<1>1. DOMAIN s = 1 .. Len(s) /\ Len(s) \in Nat /\ Len(s) # 0
  BY LenProperties, EmptySeq
<1>2. /\ Tail(s) \in Seq(T) /\ Len(Tail(s)) = Len(s) - 1
      /\ \A i \in 1 .. Len(Tail(s)) : Tail(s)[i] = s[i + 1]
  BY HeadTailProperties
<1>3. DOMAIN Tail(s) = 1 .. Len(s) - 1
  BY <1>2, LenProperties
<1>4. \A i \in 1 .. Len(s) - 1 : Tail(s)[i] = s[i + 1] /\ i + 1 \in DOMAIN s /\ i + 1 # 1
  BY <1>1, <1>2
<1>5. Once(Tail(s))
  BY <1>1, <1>3, <1>4 DEF Once
<1>6. s[1] \in Members(s)
  BY <1>1 DEF Members
<1>7. Members(Tail(s)) \subseteq Members(s) \ {s[1]}
  BY <1>1, <1>3, <1>4 DEF Members, Once
<1>8. ASSUME NEW x \in Members(s) \ {s[1]} PROVE x \in Members(Tail(s))
  <2>1. PICK i \in 1 .. Len(s) : s[i] = x /\ i # 1
    BY <1>1 DEF Members
  <2>2. i - 1 \in 1 .. Len(s) - 1 /\ (i - 1) + 1 = i
    BY <1>1, <2>1
  <2>3. Tail(s)[i - 1] = x
    BY <1>4, <2>1, <2>2
  <2> QED
    BY <1>3, <2>2, <2>3 DEF Members
<1> QED
  BY <1>2, <1>5, <1>6, <1>7, <1>8

-----------------------------------------------------------------------------
\* A set of natural numbers that is not empty has a least element, so the
\* table scan First and runq.highest_nonempty are well defined.
LEMMA LeastExists ==
    ASSUME NEW S \in SUBSET Nat, S # {}
    PROVE  \E x \in S : \A y \in S : x <= y
<1>1. IsWellFoundedOn(OpToRel(<, Nat), Nat)
  BY NatLessThanWellFounded
<1>2. PICK x \in S : \A y \in S : ~(<<y, x>> \in OpToRel(<, Nat))
  BY <1>1, WFMin
<1>3. \A y \in S : ~(y < x)
  BY <1>2 DEF OpToRel
<1> QED
  BY <1>3

\* What the members of a ready queue of this shape are.
Queue == [Prio -> Seq(Slot)]

\* HighestNonEmpty is a level with somebody in it that no such level beats,
\* or -1 when there is none.
LEMMA HighestLevel ==
    ASSUME NEW q \in Queue
    PROVE  /\ HighestNonEmpty(q) < 0 => \A k \in Prio : q[k] = << >>
           /\ HighestNonEmpty(q) >= 0 =>
                /\ HighestNonEmpty(q) \in Prio
                /\ q[HighestNonEmpty(q)] # << >>
                /\ \A k \in Prio : q[k] # << >> => HighestNonEmpty(q) <= k
<1>1. CASE NonEmpty(q) = {}
  BY <1>1 DEF HighestNonEmpty, NonEmpty
<1>2. CASE NonEmpty(q) # {}
  <2>1. NonEmpty(q) \in SUBSET Nat
    BY QueueAssumption DEF NonEmpty, Prio
  <2>2. \E h \in NonEmpty(q) : \A k \in NonEmpty(q) : h <= k
    BY <1>2, <2>1, LeastExists
  <2>3. /\ HighestNonEmpty(q) \in NonEmpty(q)
        /\ \A k \in NonEmpty(q) : HighestNonEmpty(q) <= k
    BY <1>2, <2>2 DEF HighestNonEmpty
  <2> QED
    BY <2>1, <2>3 DEF NonEmpty
<1> QED
  BY <1>1, <1>2

\* InTableOrder(S) lists the slots of S once each.
LEMMA TableOrderMembers ==
    ASSUME NEW S \in SUBSET Slot
    PROVE  /\ InTableOrder(S) \in Seq(Slot)
           /\ Members(InTableOrder(S)) = S
           /\ Once(InTableOrder(S))
<1> DEFINE t == [i \in Slot |-> i]
<1>1. t \in Seq(Slot) /\ DOMAIN t = Slot
  <2>1. t \in [1 .. NPROC -> Slot]
    BY DEF Slot
  <2> QED
    BY <2>1, QueueAssumption, IsASeq DEF Slot
<1>2. Members(t) = Slot /\ Once(t)
  BY <1>1 DEF Members, Once
<1> HIDE DEF t
<1>3. /\ Keep(t, S) \in Seq(Slot) /\ Members(Keep(t, S)) = Members(t) \cap S
      /\ Once(t) => Once(Keep(t, S))
  BY <1>1, KeepMembers
<1> QED
  BY <1>2, <1>3 DEF InTableOrder, t

\* PushTail adds the processes of S to the queues of their priorities.
LEMMA PushTailMembers ==
    ASSUME NEW q \in Queue, NEW pr, NEW S \in SUBSET Slot
    PROVE  /\ PushTail(q, pr, S) \in Queue
           /\ \A k \in Prio :
                /\ Members(PushTail(q, pr, S)[k]) = Members(q[k]) \cup {p \in S : pr[p] = k}
                /\ Once(q[k]) /\ Members(q[k]) \cap {p \in S : pr[p] = k} = {}
                     => Once(PushTail(q, pr, S)[k])
<1>1. ASSUME NEW k \in Prio
      PROVE  LET new == InTableOrder({p \in S : pr[p] = k}) IN
             /\ q[k] \o new \in Seq(Slot)
             /\ Members(q[k] \o new) = Members(q[k]) \cup {p \in S : pr[p] = k}
             /\ Once(q[k]) /\ Members(q[k]) \cap {p \in S : pr[p] = k} = {}
                  => Once(q[k] \o new)
  <2> DEFINE R == {p \in S : pr[p] = k}
             new == InTableOrder(R)
  <2>1. R \in SUBSET Slot
    OBVIOUS
  <2>2. new \in Seq(Slot) /\ Members(new) = R /\ Once(new)
    BY <2>1, TableOrderMembers
  <2>3. q[k] \in Seq(Slot)
    BY DEF Queue
  <2> HIDE DEF R, new
  <2>4. /\ q[k] \o new \in Seq(Slot)
        /\ Members(q[k] \o new) = Members(q[k]) \cup Members(new)
        /\ Once(q[k]) /\ Once(new) /\ Members(q[k]) \cap Members(new) = {}
             => Once(q[k] \o new)
    BY <2>2, <2>3, ConcatMembers
  <2>5. /\ q[k] \o new \in Seq(Slot)
        /\ Members(q[k] \o new) = Members(q[k]) \cup R
        /\ Once(q[k]) /\ Members(q[k]) \cap R = {} => Once(q[k] \o new)
    BY <2>2, <2>4
  <2> QED
    BY <2>5 DEF R, new
<1> QED
  BY <1>1 DEF PushTail, Queue

\* MoveUp moves the processes of S one level up and nobody else.
LEMMA MoveUpMembers ==
    ASSUME NEW q \in Queue, NEW S
    PROVE  /\ MoveUp(q, S) \in Queue
           /\ \A k \in Prio :
                /\ Members(MoveUp(q, S)[k]) =
                     (Members(q[k]) \cap (Slot \ S))
                     \cup (IF k < PRIO_MAX THEN Members(q[k + 1]) \cap S ELSE {})
                /\ (\A j \in Prio : Once(q[j])) => Once(MoveUp(q, S)[k])
<1>1. ASSUME NEW k \in Prio
      PROVE  LET up == IF k < PRIO_MAX THEN Keep(q[k + 1], S) ELSE << >>
                 stay == Keep(q[k], Slot \ S)
             IN /\ stay \o up \in Seq(Slot)
                /\ Members(stay \o up) =
                     (Members(q[k]) \cap (Slot \ S))
                     \cup (IF k < PRIO_MAX THEN Members(q[k + 1]) \cap S ELSE {})
                /\ (\A j \in Prio : Once(q[j])) => Once(stay \o up)
  <2> DEFINE up == IF k < PRIO_MAX THEN Keep(q[k + 1], S) ELSE << >>
             stay == Keep(q[k], Slot \ S)
             M == IF k < PRIO_MAX THEN Members(q[k + 1]) \cap S ELSE {}
  <2>1. q[k] \in Seq(Slot)
    BY DEF Queue
  <2>2. /\ stay \in Seq(Slot) /\ Members(stay) = Members(q[k]) \cap (Slot \ S)
        /\ Once(q[k]) => Once(stay)
    BY <2>1, KeepMembers
  <2>3. /\ up \in Seq(Slot) /\ Members(up) = M
        /\ (\A j \in Prio : Once(q[j])) => Once(up)
    <3>1. CASE k < PRIO_MAX
      <4>1. k + 1 \in Prio
        BY <3>1, QueueAssumption DEF Prio, PRIO_MAX
      <4>2. q[k + 1] \in Seq(Slot)
        BY <4>1 DEF Queue
      <4>3. /\ Keep(q[k + 1], S) \in Seq(Slot)
            /\ Members(Keep(q[k + 1], S)) = Members(q[k + 1]) \cap S
            /\ Once(q[k + 1]) => Once(Keep(q[k + 1], S))
        BY <4>2, KeepMembers
      <4> QED
        BY <3>1, <4>1, <4>3
    <3>2. CASE ~(k < PRIO_MAX)
      <4>1. up = << >> /\ M = {}
        BY <3>2
      <4>2. << >> \in Seq(Slot) /\ DOMAIN << >> = {}
        BY EmptySeq, LenProperties
      <4>3. Members(<< >>) = {} /\ Once(<< >>)
        BY <4>2 DEF Members, Once
      <4> QED
        BY <4>1, <4>2, <4>3
    <3> QED
      BY <3>1, <3>2
  <2>4. Members(stay) \cap Members(up) = {}
    <3>1. M \subseteq S
      OBVIOUS
    <3> QED
      BY <2>2, <2>3, <3>1
  <2> HIDE DEF up, stay, M
  <2>5. /\ stay \o up \in Seq(Slot)
        /\ Members(stay \o up) = Members(stay) \cup Members(up)
        /\ Once(stay) /\ Once(up) /\ Members(stay) \cap Members(up) = {}
             => Once(stay \o up)
    BY <2>2, <2>3, ConcatMembers
  <2>6. /\ stay \o up \in Seq(Slot)
        /\ Members(stay \o up) = (Members(q[k]) \cap (Slot \ S)) \cup M
        /\ (\A j \in Prio : Once(q[j])) => Once(stay \o up)
    BY <2>2, <2>3, <2>4, <2>5
  <2> QED
    BY <2>6 DEF up, stay, M
<1> QED
  BY <1>1 DEF MoveUp, Queue

\* PickNext is in the queue of the best level and AfterPick takes just it away.
LEMMA AfterPickMembers ==
    ASSUME NEW q \in Queue, HighestNonEmpty(q) >= 0, \A k \in Prio : Once(q[k])
    PROVE  /\ AfterPick(q) \in Queue
           /\ PickNext(q) \in Members(q[HighestNonEmpty(q)])
           /\ PickNext(q) \in Slot
           /\ \A k \in Prio :
                /\ Once(AfterPick(q)[k])
                /\ Members(AfterPick(q)[k]) =
                     IF k = HighestNonEmpty(q) THEN Members(q[k]) \ {PickNext(q)}
                                               ELSE Members(q[k])
<1> DEFINE h == HighestNonEmpty(q)
<1>1. h \in Prio /\ q[h] # << >>
  BY HighestLevel
<1>2. q[h] \in Seq(Slot)
  BY <1>1 DEF Queue
<1>3. /\ Tail(q[h]) \in Seq(Slot) /\ Once(Tail(q[h]))
      /\ q[h][1] \in Members(q[h])
      /\ Members(Tail(q[h])) = Members(q[h]) \ {q[h][1]}
  BY <1>1, <1>2, TailMembers
<1>4. q[h][1] \in Slot
  <2>1. \A i \in DOMAIN q[h] : q[h][i] \in Slot
    BY <1>2, ElementOfSeq, LenProperties
  <2> QED
    BY <1>3, <2>1 DEF Members
<1> HIDE DEF h
<1>5. AfterPick(q) = [q EXCEPT ![h] = Tail(q[h])] /\ PickNext(q) = q[h][1]
  BY DEF AfterPick, PickNext, h
<1>6. AfterPick(q) \in Queue
  BY <1>3, <1>5 DEF Queue
<1>7. \A k \in Prio : AfterPick(q)[k] = IF k = h THEN Tail(q[h]) ELSE q[k]
  BY <1>5 DEF Queue
<1>8. \A k \in Prio :
         /\ Once(AfterPick(q)[k])
         /\ Members(AfterPick(q)[k]) =
              IF k = h THEN Members(q[k]) \ {PickNext(q)} ELSE Members(q[k])
  BY <1>3, <1>5, <1>7
<1> QED
  BY <1>3, <1>4, <1>5, <1>6, <1>8 DEF h
=============================================================================
