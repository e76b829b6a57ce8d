----------------------------- MODULE LogProofs -----------------------------
(***************************************************************************)
(* The redo log of kernel/log.c for any number of processes, blocks,       *)
(* crashes and any size of the log: it never panics, a quiet log has       *)
(* everything in its home location, and it implements the atomic           *)
(* transactions of LogSpec.                                                *)
(***************************************************************************)
EXTENDS Log, FiniteSetTheorems, TLAPS

\* The operations under way, and what they have written.
Active == {p \in Proc : st[p] = "op"}
Written == {w \in Active \X Block : w[2] \in wrote[w[1]]}

Distinct(s) == \A i, j \in 1 .. Len(s) : s[i] = s[j] => i = j
In(b, s) == \E i \in 1 .. Len(s) : s[i] = b

\* The type invariant, the sets apart from the rest: the provers take them
\* one at a time.
LogType ==
    /\ disk \in [Block -> Val]
    /\ logblk \in [1 .. LOGSIZE -> Val]
    /\ head \in Seq(Block) /\ Len(head) <= LOGSIZE
    /\ cache \in [Block -> Val]
    /\ lh \in Seq(Block) /\ Len(lh) <= LOGSIZE
    /\ outstanding \in Nat
    /\ committing \in BOOLEAN
    /\ st \in [Proc -> Status]
    /\ phase \in Phase
    /\ tail \in 1 .. LOGSIZE + 1
    /\ crashes \in 0 .. MaxCrash
WroteType == wrote \in [Proc -> SUBSET Block]

\* Who is where: one process at most commits, and only when no operation is
\* under way; nobody is in the log while it recovers.
Commits ==
    /\ outstanding = Cardinality(Active)
    /\ committing <=> phase \in {"log", "install", "done"}
    /\ committing <=> \E p \in Proc : st[p] = "commit"
    /\ \A p, q \in Proc : st[p] = "commit" /\ st[q] = "commit" => p = q
    /\ committing => Active = {}
    /\ Recovering => \A p \in Proc : st[p] = "idle"

\* What the header on the disk says in each phase.
Header ==
    /\ Distinct(lh) /\ Distinct(head)
    /\ phase \in {"none", "log", "done"} => head = << >>
    /\ phase \in {"install", "reinstall"} => head = lh
    /\ phase \in {"done", "read"} => lh = << >>
    /\ phase = "none" /\ Active = {} => lh = << >>

\* Where the current contents of each block are in each phase.
Contents ==
    /\ ~Recovering => \A b \in Block : In(b, lh) \/ disk[b] = cache[b]
    /\ Recovering => cache = disk
    /\ phase = "log" => \A i \in 1 .. Len(lh) : i < tail => logblk[i] = cache[lh[i]]
    /\ phase = "install" => \A i \in 1 .. Len(lh) : logblk[i] = cache[lh[i]]
    /\ phase \in {"install", "reinstall"} =>
          \A i \in 1 .. Len(lh) : i < tail => disk[lh[i]] = logblk[i]

\* The most entries the log's header ever has.
Room == IF LOGSIZE - 2 * (MAXOPBLOCKS - OpBlocks) < OpBlocks THEN OpBlocks
        ELSE LOGSIZE - 2 * (MAXOPBLOCKS - OpBlocks)

\* The log's entries and those the operations under way may still add: what
\* they have written is there.
Reserved ==
    /\ \A p \in Active : \A b \in wrote[p] : In(b, lh)
    /\ \A p \in Proc : IsFiniteSet(wrote[p]) /\ Cardinality(wrote[p]) <= OpBlocks
    /\ phase \notin {"read", "reinstall"} =>
          Len(lh) + outstanding * OpBlocks - Cardinality(Written) <= Room

IInv == LogType /\ WroteType /\ Commits /\ Header /\ Contents /\ Reserved

-----------------------------------------------------------------------------
\* Operations that write n blocks at most each write n times their number
\* together.
LEMMA WrittenBound ==
    ASSUME NEW A, IsFiniteSet(A), NEW n \in Nat, NEW f, NEW B,
           \A a \in A : f[a] \subseteq B /\ IsFiniteSet(f[a]) /\ Cardinality(f[a]) <= n
    PROVE  LET W == {w \in A \X B : w[2] \in f[w[1]]}
           IN  IsFiniteSet(W) /\ Cardinality(W) \in Nat /\ Cardinality(W) <= Cardinality(A) * n
<1> DEFINE W == {w \in A \X B : w[2] \in f[w[1]]}
           T == A \X (1 .. n)
           g(a) == CHOOSE h : h \in Injection(f[a], 1 .. n)
           G == [w \in W |-> <<w[1], g(w[1])[w[2]]>>]
<1>1. ASSUME NEW a \in A PROVE g(a) \in Injection(f[a], 1 .. n)
  <2>1. /\ IsFiniteSet(f[a]) /\ Cardinality(f[a]) \in Nat /\ Cardinality(f[a]) <= n
        /\ ExistsBijection(1 .. Cardinality(f[a]), f[a])
    BY FS_CardinalityType
  <2>2. ExistsBijection(f[a], 1 .. Cardinality(f[a]))
    <3>1. IsFiniteSet(1 .. Cardinality(f[a])) /\ Cardinality(1 .. Cardinality(f[a])) = Cardinality(f[a])
      BY <2>1, FS_Interval
    <3> QED
      BY <2>1, <3>1, FS_SameCardinalityBij
  <2>3. PICK h : h \in Bijection(f[a], 1 .. Cardinality(f[a]))
    BY <2>2 DEF ExistsBijection
  <2>4. h \in Injection(f[a], 1 .. n)
    BY <2>1, <2>3 DEF Bijection, Injection, IsInjective
  <2> QED
    BY <2>4
<1> HIDE DEF g
<1>2. G \in Injection(W, T)
  <2>1. G \in [W -> T]
    BY <1>1 DEF Injection
  <2>2. ASSUME NEW v \in W, NEW w \in W, G[v] = G[w] PROVE v = w
    <3>1. v[1] = w[1] /\ g(v[1])[v[2]] = g(v[1])[w[2]]
      BY <2>2
    <3>2. v[2] = w[2]
      BY <1>1, <3>1 DEF Injection, IsInjective
    <3> QED
      BY <3>1, <3>2
  <2> QED
    BY <2>1, <2>2 DEF Injection, IsInjective
<1>3. IsFiniteSet(T) /\ Cardinality(T) = Cardinality(A) * n
  <2>1. IsFiniteSet(1 .. n) /\ Cardinality(1 .. n) = n
    BY FS_Interval
  <2> QED
    BY <2>1, FS_Product
<1>4. IsFiniteSet(W) /\ Cardinality(W) <= Cardinality(T)
  BY <1>2, <1>3, FS_Injection
<1> QED
  BY <1>3, <1>4, FS_CardinalityType

\* The operations under way are finitely many, and so is what they wrote.
LEMMA CountsType ==
    ASSUME WroteType, Reserved
    PROVE  /\ IsFiniteSet(Active) /\ Cardinality(Active) \in Nat
           /\ IsFiniteSet(Written) /\ Cardinality(Written) \in Nat
           /\ Cardinality(Written) <= Cardinality(Active) * OpBlocks
<1>1. IsFiniteSet(Active) /\ Cardinality(Active) \in Nat
  BY LogAssumption, FS_Subset, FS_CardinalityType DEF Active
<1>2. \A p \in Active : wrote[p] \subseteq Block /\ IsFiniteSet(wrote[p])
                        /\ Cardinality(wrote[p]) <= OpBlocks
  BY DEF Active, WroteType, Reserved
<1>3. OpBlocks \in Nat
  BY LogAssumption
<1> HIDE DEF Active
<1>4. /\ IsFiniteSet(Written) /\ Cardinality(Written) \in Nat
      /\ Cardinality(Written) <= Cardinality(Active) * OpBlocks
  BY <1>1, <1>2, <1>3, WrittenBound DEF Written
<1> QED
  BY <1>1, <1>4

\* What one operation contributes to Written.
LEMMA WrittenBy ==
    ASSUME WroteType, Reserved, NEW p \in Proc, st[p] = "op"
    PROVE  LET W == {w \in Written : w[1] = p}
           IN  IsFiniteSet(W) /\ Cardinality(W) \in Nat /\ Cardinality(W) <= OpBlocks
<1> DEFINE W == {w \in Written : w[1] = p}
           f == [w \in W |-> w[2]]
<1>1. f \in Injection(W, wrote[p])
  BY DEF Injection, IsInjective, Written
<1>2. IsFiniteSet(wrote[p]) /\ Cardinality(wrote[p]) <= OpBlocks /\ Cardinality(wrote[p]) \in Nat
  BY FS_CardinalityType DEF Reserved
<1>3. IsFiniteSet(W) /\ Cardinality(W) <= Cardinality(wrote[p])
  BY <1>1, <1>2, FS_Injection
<1>4. Cardinality(W) \in Nat
  BY <1>3, FS_CardinalityType
<1> QED
  BY <1>2, <1>3, <1>4, LogAssumption

\* The disk as mkfs leaves it.
LEMMA InitIInv == Init => IInv
<1> SUFFICES ASSUME Init PROVE IInv
  OBVIOUS
<1>1. Active = {} /\ Written = {}
  BY DEF Init, Active, Written
<1>2. IsFiniteSet({}) /\ Cardinality({}) = 0
  BY FS_EmptySet
<1>3. LogType /\ WroteType
  <2>1. logblk \in [1 .. LOGSIZE -> Val]
    BY DEF Init
  <2>2. st \in [Proc -> Status] /\ phase \in Phase
    BY DEF Init, Status, Phase
  <2>3. LogType
    <3>1. disk \in [Block -> Val] /\ cache \in [Block -> Val]
      BY DEF Init
    <3>2. head \in Seq(Block) /\ Len(head) <= LOGSIZE /\ lh \in Seq(Block) /\ Len(lh) <= LOGSIZE
      BY LogAssumption DEF Init
    <3>3. outstanding \in Nat /\ tail \in 1 .. LOGSIZE + 1 /\ crashes \in 0 .. MaxCrash
      <4>1. outstanding = 0 /\ tail = 1 /\ crashes = 0
        BY DEF Init
      <4> QED
        BY <4>1, LogAssumption
    <3>4. committing \in BOOLEAN
      BY DEF Init
    <3> QED
      BY <2>1, <2>2, <3>1, <3>2, <3>3, <3>4 DEF LogType
  <2>4. WroteType
    BY DEF Init, WroteType
  <2> QED
    BY <2>3, <2>4
<1>4. Commits
  BY <1>1, <1>2 DEF Init, Commits, Recovering
<1>5. Header
  BY DEF Init, Header, Distinct
<1>6. Contents
  BY DEF Init, Contents, Recovering
<1>7. Reserved
  <2>1. wrote = [p \in Proc |-> {}] /\ phase = "read" /\ 0 <= OpBlocks
    BY LogAssumption DEF Init
  <2> QED
    BY <1>1, <1>2, <2>1 DEF Reserved
<1> QED
  BY <1>3, <1>4, <1>5, <1>6, <1>7 DEF IInv

\* begin_op(): an operation is admitted against its reservation.
LEMMA BeginStep ==
    ASSUME IInv, NEW p \in Proc, BeginOp(p)
    PROVE  IInv'
<1> USE DEF IInv
<1>1. LogType' /\ WroteType'
  <2>1. LogType'
    BY DEF LogType, BeginOp, durable, Status
  <2>2. WroteType'
    BY DEF WroteType, BeginOp
  <2> QED
    BY <2>1, <2>2
<1>2. CASE MustWait
  <2>1. Active' = Active
    BY <1>2 DEF Active, BeginOp, LogType
  <2>2. Written' = Written
    BY <1>2, <2>1 DEF Written, BeginOp
  <2>3. Commits'
    BY <1>2, <2>1 DEF Commits, BeginOp, LogType, Recovering
  <2>4. Header' /\ Contents'
    BY <1>2, <2>1 DEF Header, Contents, BeginOp, Recovering, Distinct, In, durable
  <2>5. Reserved'
    BY <1>2, <2>1, <2>2 DEF Reserved, BeginOp, In
  <2> QED
    BY <1>1, <2>3, <2>4, <2>5
<1>3. CASE ~MustWait
  <2>1. Active' = Active \cup {p} /\ p \notin Active
    BY <1>3 DEF Active, BeginOp, LogType
  <2>2. Written' = Written
    BY <1>3, <2>1 DEF Written, BeginOp, WroteType, Active
  <2>3. Cardinality(Active') = Cardinality(Active) + 1
    BY <2>1, CountsType, FS_AddElement
  <2>4. Commits'
    BY <1>3, <2>1, <2>3 DEF Commits, BeginOp, LogType, Recovering, MustWait
  <2>5. Header'
    BY <1>3, <2>1 DEF Header, BeginOp, Distinct, durable
  <2>6. Contents'
    BY <1>3 DEF Contents, BeginOp, Recovering, In, durable
  <2>7. Reserved'
    <3>1. \A q \in Proc : IsFiniteSet(wrote'[q]) /\ Cardinality(wrote'[q]) <= OpBlocks
      <4>1. \A q \in Proc : wrote'[q] = {} \/ wrote'[q] = wrote[q]
        BY <1>3 DEF BeginOp, WroteType
      <4>2. IsFiniteSet({}) /\ Cardinality({}) = 0 /\ 0 <= OpBlocks
        BY FS_EmptySet, LogAssumption
      <4> QED
        BY <4>1, <4>2 DEF Reserved
    <3>0. \A q \in Active' : \A b \in wrote'[q] : In(b, lh')
      BY <1>3, <2>1 DEF Reserved, BeginOp, WroteType, In, Active
    <3>2. /\ outstanding \in Nat /\ outstanding = Cardinality(Active)
          /\ Cardinality(Written) \in Nat /\ Cardinality(Written) <= Cardinality(Active) * OpBlocks
          /\ lh' = lh /\ Len(lh) \in Nat /\ outstanding' = outstanding + 1
      BY <1>3, CountsType DEF BeginOp, Commits, LogType
    <3>3. Len(lh) + (outstanding + 1) * MAXOPBLOCKS <= LOGSIZE
      BY <1>3, <3>2, LogAssumption DEF MustWait
    <3>4. CASE outstanding = 0
      <4>1. Active = {}
        BY <3>2, <3>4, CountsType, FS_EmptySet
      <4>2. phase = "none"
        BY <1>3 DEF BeginOp, MustWait, Commits, Recovering, LogType, Phase
      <4>3. lh = << >> /\ Len(lh) = 0
        BY <4>1, <4>2 DEF Header
      <4>4. Len(lh) + (outstanding + 1) * OpBlocks - Cardinality(Written) <= Room
        BY <3>2, <3>4, <4>3, LogAssumption DEF Room
      <4> QED
        BY <2>2, <3>0, <3>1, <3>2, <4>4 DEF Reserved
    <3>5. CASE outstanding > 0
      <4>1. (outstanding + 1) * (MAXOPBLOCKS - OpBlocks) >= 2 * (MAXOPBLOCKS - OpBlocks)
        <5>1. MAXOPBLOCKS - OpBlocks \in Nat
          BY LogAssumption
        <5>2. \A m \in Nat, n \in Nat : n > 0 => (n + 1) * m >= 2 * m
          OBVIOUS
        <5> QED
          BY <3>2, <3>5, <5>1, <5>2
      <4>2. (outstanding + 1) * (MAXOPBLOCKS - OpBlocks) =
              (outstanding + 1) * MAXOPBLOCKS - (outstanding + 1) * OpBlocks
        BY <3>2, LogAssumption
      <4> DEFINE o == (outstanding + 1) * OpBlocks
                 m == (outstanding + 1) * MAXOPBLOCKS
      <4>3. o \in Int /\ m \in Int
        BY <3>2, LogAssumption
      <4>4. Len(lh) + m <= LOGSIZE /\ m - o >= 2 * (MAXOPBLOCKS - OpBlocks)
        BY <3>3, <4>1, <4>2
      <4> HIDE DEF o, m
      <4>5. Len(lh) + o - Cardinality(Written) <= Room
        BY <3>2, <4>3, <4>4, LogAssumption DEF Room
      <4>6. Len(lh) + (outstanding + 1) * OpBlocks - Cardinality(Written) <= Room
        BY <4>5 DEF o
      <4> QED
        BY <2>2, <3>0, <3>1, <3>2, <4>6 DEF Reserved
    <3> QED
      BY <3>2, <3>4, <3>5
  <2> QED
    BY <1>1, <2>4, <2>5, <2>6, <2>7
<1> QED
  BY <1>2, <1>3

\* A step that leaves the processes alone leaves their counts alone.
LEMMA SameCounts ==
    ASSUME UNCHANGED <<st, wrote>>
    PROVE  Active' = Active /\ Written' = Written
BY DEF Active, Written

\* log_write(): one more entry at most, for one more block of the operation.
LEMMA WriteStep ==
    ASSUME IInv, NEW p \in Proc, NEW b \in Block, NEW v \in Val, LogWrite(p, b, v)
    PROVE  IInv'
<1> USE DEF IInv
<1>1. /\ lh \in Seq(Block) /\ Len(lh) \in Nat /\ Len(lh) < LOGSIZE
      /\ lh' \in Seq(Block) /\ Len(lh') \in Nat
      /\ \/ In(b, lh) /\ lh' = lh
         \/ /\ ~In(b, lh) /\ lh' = Append(lh, b) /\ Len(lh') = Len(lh) + 1
            /\ lh'[Len(lh')] = b
      /\ \A i \in 1 .. Len(lh) : lh'[i] = lh[i]
  <2>1. lh \in Seq(Block) /\ Len(lh) \in Nat /\ Len(lh) < LOGSIZE
    BY LogAssumption DEF LogWrite, TooBig, LogType
  <2>2. lh' = IF In(b, lh) THEN lh ELSE Append(lh, b)
    BY DEF LogWrite, Logged, In
  <2> QED
    BY <2>1, <2>2
<1>2. LogType' /\ WroteType'
  <2>1. LogType'
    BY <1>1, LogAssumption DEF LogType, LogWrite, durable
  <2>2. WroteType'
    BY DEF WroteType, LogWrite
  <2> QED
    BY <2>1, <2>2
<1>3. Active' = Active /\ p \in Active
  BY DEF Active, LogWrite, MayWrite
<1>4. phase = "none" /\ phase' = "none"
  BY <1>3 DEF Commits, LogWrite, Recovering, LogType, Phase, Active
<1>5. Commits'
  BY <1>3 DEF Commits, LogWrite, Recovering
<1>6. Header'
  <2>1. Distinct(lh')
    <3> SUFFICES ASSUME NEW i \in 1 .. Len(lh'), NEW j \in 1 .. Len(lh'), lh'[i] = lh'[j]
                 PROVE  i = j
      BY DEF Distinct
    <3>1. CASE lh' = lh
      BY <3>1 DEF Header, Distinct
    <3>2. CASE ~In(b, lh) /\ Len(lh') = Len(lh) + 1 /\ lh'[Len(lh')] = b
      BY <1>1, <3>2 DEF Header, Distinct, In
    <3> QED
      BY <1>1, <3>1, <3>2
  <2> QED
    BY <1>3, <1>4, <2>1 DEF Header, LogWrite, durable, Distinct
<1>7. Contents'
  <2>1. ASSUME NEW c \in Block PROVE In(c, lh') \/ disk'[c] = cache'[c]
    <3>1. CASE c = b
      BY <1>1, <3>1 DEF In
    <3>2. CASE c # b /\ In(c, lh)
      BY <1>1, <3>2 DEF In
    <3>3. CASE c # b /\ ~In(c, lh)
      BY <1>4, <3>3 DEF Contents, Recovering, LogWrite, durable, LogType
    <3> QED
      BY <3>1, <3>2, <3>3
  <2> QED
    BY <1>4, <2>1 DEF Contents, Recovering
<1>8. Reserved'
  <2> DEFINE w == <<p, b>>
  <2>1. Written' = Written \cup {w}
    BY <1>3 DEF Written, LogWrite, WroteType, Active
  <2>2. w \in Written <=> b \in wrote[p]
    BY <1>3 DEF Written
  <2>3. /\ IsFiniteSet(Written) /\ Cardinality(Written) \in Nat
        /\ Cardinality(Written') = IF b \in wrote[p] THEN Cardinality(Written)
                                   ELSE Cardinality(Written) + 1
    BY <2>1, <2>2, CountsType, FS_AddElement
  <2>4. b \in wrote[p] => In(b, lh)
    BY <1>3 DEF Reserved
  <2>5. \A q \in Active' : \A c \in wrote'[q] : In(c, lh')
    BY <1>1, <1>3 DEF Reserved, LogWrite, WroteType, In, Active
  <2>6. \A q \in Proc : IsFiniteSet(wrote'[q]) /\ Cardinality(wrote'[q]) <= OpBlocks
    <3>1. wrote'[p] = wrote[p] \cup {b} /\ \A q \in Proc \ {p} : wrote'[q] = wrote[q]
      BY DEF LogWrite, WroteType
    <3>2. /\ IsFiniteSet(wrote[p]) /\ Cardinality(wrote[p]) \in Nat
          /\ Cardinality(wrote[p]) <= OpBlocks
          /\ b \in wrote[p] \/ Cardinality(wrote[p]) < OpBlocks
      BY FS_CardinalityType DEF Reserved, LogWrite, MayWrite
    <3>3. IsFiniteSet(wrote'[p]) /\ Cardinality(wrote'[p]) <= OpBlocks
      <4>1. /\ IsFiniteSet(wrote[p] \cup {b})
            /\ Cardinality(wrote[p] \cup {b}) = IF b \in wrote[p] THEN Cardinality(wrote[p])
                                                ELSE Cardinality(wrote[p]) + 1
        BY <3>2, FS_AddElement
      <4>2. OpBlocks \in Nat
        BY LogAssumption
      <4> QED
        BY <3>1, <3>2, <4>1, <4>2
    <3> QED
      BY <3>1, <3>3 DEF Reserved
  <2>7. Len(lh') + outstanding' * OpBlocks - Cardinality(Written') <= Room
    <3>1. /\ outstanding' = outstanding /\ outstanding * OpBlocks \in Int
          /\ Len(lh) + outstanding * OpBlocks - Cardinality(Written) <= Room
      BY <1>4, LogAssumption DEF Reserved, LogWrite, LogType
    <3>2. Len(lh') - Cardinality(Written') <= Len(lh) - Cardinality(Written)
      BY <1>1, <2>3, <2>4
    <3>3. Room \in Int /\ Cardinality(Written') \in Int
      BY <2>3, LogAssumption DEF Room
    <3> HIDE DEF Room
    <3> QED
      BY <1>1, <2>3, <3>1, <3>2, <3>3
  <2> QED
    BY <2>5, <2>6, <2>7 DEF Reserved
<1> QED
  BY <1>2, <1>5, <1>6, <1>7, <1>8

\* end_op(): what the operation had reserved and not used is free again; the
\* last operation starts the commit.
LEMMA EndStep ==
    ASSUME IInv, NEW p \in Proc, EndOp(p)
    PROVE  IInv'
<1> USE DEF IInv
<1>1. Active' = Active \ {p} /\ p \in Active
  <2>1. \A q \in Proc : st'[q] = "op" <=> st[q] = "op" /\ q # p
    BY DEF EndOp, Wakeup, LogType
  <2> QED
    BY <2>1 DEF Active, EndOp
<1>2. /\ IsFiniteSet(Active) /\ Cardinality(Active) \in Nat
      /\ Cardinality(Active') = Cardinality(Active) - 1
      /\ outstanding = Cardinality(Active) /\ outstanding \in Nat /\ outstanding > 0
      /\ outstanding' = outstanding - 1
  <2>1. IsFiniteSet(Active) /\ Cardinality(Active) \in Nat
        /\ Cardinality(Active') = Cardinality(Active) - 1
    BY <1>1, CountsType, FS_RemoveElement
  <2>2. Cardinality(Active) # 0
    BY <1>1, <2>1, FS_EmptySet
  <2> QED
    BY <2>1, <2>2 DEF Commits, EndOp
<1>3. phase = "none" /\ ~committing
  BY <1>1 DEF Commits, Recovering, LogType, Phase, Active
<1>4. LogType' /\ WroteType'
  <2>1. st' \in [Proc -> Status]
    BY DEF LogType, EndOp, Wakeup, Status
  <2>2. outstanding' \in Nat
    BY <1>2
  <2>4. committing' \in BOOLEAN /\ phase' \in Phase
    BY DEF EndOp, Phase, LogType
  <2>3. tail' \in 1 .. LOGSIZE + 1
    BY LogAssumption DEF EndOp, LogType
  <2> QED
    BY <2>1, <2>2, <2>3, <2>4 DEF LogType, WroteType, EndOp, durable
<1>5. Reserved'
  <2> DEFINE W == {w \in Written : w[1] = p}
  <2>1. Written' = Written \ W
    BY <1>1 DEF Written, EndOp
  <2>2. IsFiniteSet(W) /\ Cardinality(W) \in Nat /\ Cardinality(W) <= OpBlocks
    BY <1>1, WrittenBy DEF Active
  <2>3. IsFiniteSet(Written) /\ Cardinality(Written) \in Nat
    BY CountsType
  <2>4. Cardinality(Written') = Cardinality(Written) - Cardinality(W)
    <3>1. Written \cap W = W
      OBVIOUS
    <3>2. Cardinality(Written \ W) = Cardinality(Written) - Cardinality(Written \cap W)
      BY <2>3, FS_Difference
    <3> QED
      BY <2>1, <3>1, <3>2
  <2>5. Len(lh') + outstanding' * OpBlocks - Cardinality(Written') <= Room
    <3>1. Len(lh) + outstanding * OpBlocks - Cardinality(Written) <= Room /\ lh' = lh
          /\ Len(lh) \in Nat
      BY <1>3 DEF Reserved, EndOp, LogType
    <3>2. outstanding' * OpBlocks = outstanding * OpBlocks - OpBlocks
          /\ outstanding * OpBlocks \in Int /\ OpBlocks \in Int
      BY <1>2, LogAssumption
    <3>3. Room \in Int
      BY LogAssumption DEF Room
    <3> DEFINE x == outstanding * OpBlocks
    <3>4. x \in Int /\ Len(lh) + x - Cardinality(Written) <= Room
      BY <3>1, <3>2
    <3>5. Len(lh') + (x - OpBlocks) - Cardinality(Written') <= Room
      <4> HIDE DEF x, Room
      <4> QED
        BY <2>2, <2>3, <2>4, <3>1, <3>2, <3>3, <3>4
    <3> QED
      BY <3>2, <3>5
  <2>6. \A q \in Active' : \A b \in wrote'[q] : In(b, lh')
    BY <1>1 DEF Reserved, EndOp, In
  <2> QED
    BY <2>5, <2>6 DEF Reserved, EndOp
<1>6. CASE LastOp
  <2>1. Active' = {}
    <3>1. Cardinality(Active') = 0 /\ IsFiniteSet(Active')
      BY <1>1, <1>2, <1>6, FS_RemoveElement DEF LastOp
    <3> QED
      BY <3>1, FS_EmptySet
  <2>2. /\ committing' = TRUE /\ st' = [st EXCEPT ![p] = "commit"]
        /\ phase' = IF lh = << >> THEN "done" ELSE "log"
        /\ tail' = 1 /\ lh' = lh /\ UNCHANGED <<disk, logblk, head, cache>>
    BY <1>6 DEF EndOp, durable
  <2>3. Commits'
    <3>1. \A q \in Proc : st[q] # "commit"
      BY <1>3 DEF Commits
    <3>2. \A q \in Proc : st'[q] = "commit" <=> q = p
      BY <2>2, <3>1 DEF LogType
    <3> QED
      BY <1>2, <2>1, <2>2, <3>2 DEF Commits, Recovering
  <2>4. Header'
    BY <1>3, <2>1, <2>2 DEF Header, Distinct
  <2>5. Contents'
    BY <1>3, <2>2, LogAssumption DEF Contents, Recovering, In, LogType
  <2> QED
    BY <1>4, <1>5, <2>3, <2>4, <2>5
<1>7. CASE ~LastOp
  <2>1. Active' # {}
    <3>1. Cardinality(Active') # 0
      BY <1>2, <1>7 DEF LastOp
    <3> QED
      BY <3>1, FS_EmptySet
  <2>2. /\ st' = [Wakeup EXCEPT ![p] = "idle"]
        /\ lh' = lh /\ UNCHANGED <<disk, logblk, head, cache, committing, phase, tail>>
    BY <1>7 DEF EndOp, durable
  <2>3. Commits'
    <3>1. \A q \in Proc : st'[q] # "commit"
      BY <1>3, <2>2 DEF Commits, Wakeup, LogType
    <3> QED
      BY <1>2, <1>3, <2>2, <3>1 DEF Commits, Recovering
  <2>4. Header'
    BY <1>3, <2>1, <2>2 DEF Header, Distinct
  <2>5. Contents'
    BY <1>3, <2>2 DEF Contents, Recovering, In
  <2> QED
    BY <1>4, <1>5, <2>3, <2>4, <2>5
<1> QED
  BY <1>6, <1>7

\* While nobody is in an operation, no entry is reserved: the log has its own
\* entries only.
LEMMA QuietReserved ==
    ASSUME IInv, UNCHANGED <<st, wrote, outstanding>>, Active = {},
           Len(lh') <= Len(lh), Len(lh') \in Nat,
           phase \in {"read", "reinstall"} => Len(lh') <= 0 \/ phase' \in {"read", "reinstall"}
    PROVE  Reserved'
<1> USE DEF IInv
<1>1. Active' = {} /\ Written' = {} /\ Written = {}
  BY DEF Active, Written
<1>2. Cardinality({}) = 0 /\ outstanding = 0 /\ outstanding' = 0 /\ Len(lh) \in Nat
  BY FS_EmptySet DEF Commits, LogType
<1>3. Room \in Nat
  BY LogAssumption DEF Room
<1>4. ASSUME phase' \notin {"read", "reinstall"}
      PROVE  Len(lh') + outstanding' * OpBlocks - Cardinality(Written') <= Room
  <2>1. CASE phase \notin {"read", "reinstall"}
    <3>1. Len(lh) <= Room
      BY <1>1, <1>2, <2>1, LogAssumption DEF Reserved
    <3> QED
      BY <1>1, <1>2, <1>3, <3>1, LogAssumption
  <2>2. CASE phase \in {"read", "reinstall"}
    BY <1>1, <1>2, <1>3, <1>4, <2>2, LogAssumption
  <2> QED
    BY <2>1, <2>2
<1> QED
  BY <1>1, <1>4 DEF Reserved

\* The steps of commit().
LEMMA CommitSteps ==
    ASSUME IInv, CommitStep
    PROVE  IInv'
<1> USE DEF IInv
<1>1. Active = {} /\ committing
  BY DEF CommitStep, WriteLog, WriteHead, LogWritten, InstallTrans, EraseHead, Commits
<1>2. /\ UNCHANGED <<st, wrote, outstanding, committing, crashes>>
      /\ Active' = {} /\ phase \notin {"read", "reinstall"}
  BY <1>1 DEF CommitStep, WriteLog, WriteHead, LogWritten, InstallTrans, EraseHead, Active
<1>3. Commits'
  BY <1>1, <1>2 DEF CommitStep, WriteLog, WriteHead, LogWritten, InstallTrans, EraseHead,
                    Commits, Recovering
<1>4. WroteType'
  BY <1>2 DEF WroteType
<1>5. CASE WriteLog
  <2>1. /\ phase = "log" /\ phase' = "log" /\ UNCHANGED <<disk, head, cache, lh>>
        /\ tail \in 1 .. Len(lh) /\ Len(lh) \in Nat /\ tail' = tail + 1
        /\ logblk' = [logblk EXCEPT ![tail] = cache[lh[tail]]]
        /\ tail \in 1 .. LOGSIZE
    BY <1>5, LogAssumption DEF WriteLog, LogType
  <2>2. cache[lh[tail]] \in Val
    BY <2>1 DEF LogType
  <2>3. LogType'
    BY <1>2, <2>1, <2>2, LogAssumption DEF LogType
  <2>4. Header' /\ Reserved'
    BY <1>1, <1>2, <2>1, QuietReserved DEF Header, Distinct
  <2>5. Contents'
    BY <2>1 DEF Contents, Recovering, In, LogType
  <2> QED
    BY <1>3, <1>4, <2>3, <2>4, <2>5
<1>6. CASE WriteHead
  <2>1. /\ phase = "log" /\ phase' = "install" /\ UNCHANGED <<disk, logblk, cache, lh>>
        /\ tail > Len(lh) /\ Len(lh) \in Nat /\ tail' = 1 /\ head' = lh
    BY <1>6 DEF WriteHead, LogWritten, LogType
  <2>2. LogType'
    BY <1>2, <2>1, LogAssumption DEF LogType, Phase
  <2>3. Header' /\ Reserved'
    BY <1>1, <1>2, <2>1, QuietReserved DEF Header, Distinct
  <2>4. Contents'
    BY <2>1 DEF Contents, Recovering, In, LogType
  <2> QED
    BY <1>3, <1>4, <2>2, <2>3, <2>4
<1>7. CASE InstallTrans
  <2>1. /\ phase = "install" /\ phase' = "install" /\ UNCHANGED <<logblk, head, lh>>
        /\ tail \in 1 .. Len(lh) /\ Len(lh) \in Nat /\ tail' = tail + 1
        /\ cache' = [cache EXCEPT ![lh[tail]] = logblk[tail]]
        /\ disk' = [disk EXCEPT ![lh[tail]] = logblk[tail]]
        /\ tail \in 1 .. LOGSIZE
    BY <1>7, LogAssumption DEF InstallTrans, LogType
  <2>2. lh[tail] \in Block /\ logblk[tail] \in Val /\ logblk[tail] = cache[lh[tail]]
    BY <2>1 DEF LogType, Contents
  <2>3. cache' = cache
    BY <2>1, <2>2 DEF LogType
  <2>4. LogType'
    BY <1>2, <2>1, <2>2, LogAssumption DEF LogType
  <2>5. Header' /\ Reserved'
    BY <1>1, <1>2, <2>1, QuietReserved DEF Header, Distinct
  <2>6. Contents'
    <3>1. \A b \in Block : In(b, lh) \/ disk'[b] = cache[b]
      BY <2>1, <2>2 DEF Contents, Recovering, In, LogType
    <3>2. \A i \in 1 .. Len(lh) : i < tail + 1 => disk'[lh[i]] = logblk[i]
      BY <2>1, <2>2 DEF Contents, Header, Distinct, LogType
    <3> QED
      BY <2>1, <2>3, <3>1, <3>2 DEF Contents, Recovering, In
  <2> QED
    BY <1>3, <1>4, <2>4, <2>5, <2>6
<1>8. CASE EraseHead
  <2>1. /\ phase = "install" /\ phase' = "done" /\ UNCHANGED <<disk, logblk, cache, tail>>
        /\ lh' = << >> /\ head' = << >> /\ tail > Len(lh) /\ Len(lh) \in Nat /\ Len(lh') = 0
    BY <1>8 DEF EraseHead, LogType
  <2>2. LogType'
    BY <1>2, <2>1, LogAssumption DEF LogType, Phase
  <2>3. Header' /\ Reserved'
    BY <1>1, <1>2, <2>1, QuietReserved DEF Header, Distinct
  <2>4. Contents'
    <3>1. \A b \in Block : disk[b] = cache[b]
      BY <2>1 DEF Contents, Recovering, In, LogType
    <3> QED
      BY <2>1, <3>1 DEF Contents, Recovering
  <2> QED
    BY <1>3, <1>4, <2>2, <2>3, <2>4
<1> QED
  BY <1>5, <1>6, <1>7, <1>8 DEF CommitStep

\* end_op() after commit().
LEMMA CommitDoneStep ==
    ASSUME IInv, NEW p \in Proc, CommitDone(p)
    PROVE  IInv'
<1> USE DEF IInv
<1>1. Active = {} /\ committing /\ ~committing' /\ phase = "done" /\ phase' = "none"
      /\ lh = << >> /\ head = << >>
      /\ UNCHANGED <<disk, logblk, head, cache, lh, outstanding, wrote, tail, crashes>>
  BY DEF CommitDone, Commits, durable, Header
<1>2. \A q \in Proc : st'[q] \in Status /\ st'[q] # "op" /\ st'[q] # "commit"
  BY <1>1 DEF CommitDone, Commits, Wakeup, LogType, Active, Status
<1>3. Active' = {} /\ Written' = {} /\ Written = {}
  BY <1>1, <1>2 DEF Active, Written
<1>4. LogType' /\ WroteType'
  <2>1. st' \in [Proc -> Status]
    BY DEF LogType, CommitDone, Wakeup, Status
  <2>2. committing' \in BOOLEAN /\ phase' \in Phase
    BY <1>1 DEF CommitDone, Phase
  <2>3. WroteType'
    BY <1>1 DEF WroteType
  <2> QED
    BY <1>1, <2>1, <2>2, <2>3 DEF LogType
<1>5. Commits'
  BY <1>1, <1>2, <1>3 DEF Commits, Recovering
<1>6. Header' /\ Contents'
  BY <1>1 DEF Header, Contents, Recovering, Distinct, In
<1>7. Reserved'
  BY <1>1, <1>3 DEF Reserved
<1> QED
  BY <1>4, <1>5, <1>6, <1>7

\* A crash, anywhere.
LEMMA CrashStep ==
    ASSUME IInv, Crash
    PROVE  IInv'
<1> USE DEF IInv
<1>1. /\ UNCHANGED <<disk, logblk, head>> /\ cache' = disk /\ lh' = << >> /\ outstanding' = 0
      /\ committing' = FALSE /\ phase' = "read" /\ tail' = 1
      /\ wrote' = [p \in Proc |-> {}] /\ st' = [p \in Proc |-> "idle"]
  BY DEF Crash, durable
<1>2. Active' = {} /\ Written' = {}
  BY <1>1 DEF Active, Written
<1>3. LogType' /\ WroteType'
  <2>1. committing' \in BOOLEAN /\ phase' \in Phase /\ st' \in [Proc -> Status]
    BY <1>1 DEF Phase, Status
  <2>2. outstanding' \in Nat /\ tail' \in 1 .. LOGSIZE + 1
    BY <1>1, LogAssumption
  <2>3. crashes' \in 0 .. MaxCrash
    BY LogAssumption DEF Crash, LogType
  <2>4. lh' \in Seq(Block) /\ Len(lh') <= LOGSIZE
    BY <1>1, LogAssumption
  <2>5. WroteType'
    BY <1>1 DEF WroteType
  <2> QED
    BY <1>1, <2>1, <2>2, <2>3, <2>4, <2>5 DEF LogType
<1>4. Commits'
  BY <1>1, <1>2, FS_EmptySet DEF Commits, Recovering
<1>5. Header'
  BY <1>1 DEF Header, Distinct
<1>6. Contents'
  BY <1>1 DEF Contents, Recovering
<1>7. Reserved'
  <2>1. IsFiniteSet({}) /\ Cardinality({}) = 0 /\ 0 <= OpBlocks
    BY FS_EmptySet, LogAssumption
  <2> QED
    BY <1>1, <1>2, <2>1 DEF Reserved
<1> QED
  BY <1>3, <1>4, <1>5, <1>6, <1>7

\* The steps of recover_from_log().
LEMMA RecoverSteps ==
    ASSUME IInv, RecoverStep
    PROVE  IInv'
<1> USE DEF IInv
<1>1. /\ UNCHANGED <<st, wrote, outstanding, committing, crashes>>
      /\ phase \in {"read", "reinstall"} /\ \A p \in Proc : st[p] = "idle"
  BY DEF RecoverStep, ReadHead, Reinstall, ResetLog, Reinstalled, Commits, Recovering
<1>2. Active = {} /\ Active' = {} /\ ~committing
  BY <1>1 DEF Active, Commits
<1>3. WroteType'
  BY <1>1 DEF WroteType
<1>4. Commits'
  BY <1>1, <1>2 DEF RecoverStep, ReadHead, Reinstall, ResetLog, Reinstalled, Commits, Recovering
<1>5. CASE ReadHead
  <2>1. /\ phase = "read" /\ phase' = "reinstall" /\ lh' = head /\ tail' = 1
        /\ UNCHANGED <<disk, logblk, head, cache>>
    BY <1>5 DEF ReadHead, durable
  <2>2. LogType'
    BY <1>1, <2>1, LogAssumption DEF LogType, Phase
  <2>3. Header' /\ Contents'
    BY <2>1 DEF Header, Contents, Distinct, Recovering, LogType
  <2>4. Reserved'
    BY <1>1, <1>2, <2>1 DEF Reserved
  <2> QED
    BY <1>3, <1>4, <2>2, <2>3, <2>4
<1>6. CASE Reinstall
  <2>1. /\ phase = "reinstall" /\ phase' = "reinstall" /\ UNCHANGED <<logblk, head, lh>>
        /\ tail \in 1 .. Len(lh) /\ Len(lh) \in Nat /\ tail' = tail + 1
        /\ cache' = [cache EXCEPT ![lh[tail]] = logblk[tail]]
        /\ disk' = [disk EXCEPT ![lh[tail]] = logblk[tail]]
        /\ tail \in 1 .. LOGSIZE
    BY <1>6, LogAssumption DEF Reinstall, LogType
  <2>2. lh[tail] \in Block /\ logblk[tail] \in Val
    BY <2>1 DEF LogType
  <2>3. LogType'
    BY <1>1, <2>1, <2>2, LogAssumption DEF LogType
  <2>4. Header'
    BY <2>1, <1>2 DEF Header, Distinct
  <2>5. Contents'
    <3>1. cache' = disk'
      BY <2>1 DEF Contents, Recovering
    <3>2. \A i \in 1 .. Len(lh) : i < tail + 1 => disk'[lh[i]] = logblk[i]
      BY <2>1, <2>2 DEF Contents, Header, Distinct, LogType
    <3> QED
      BY <2>1, <3>1, <3>2 DEF Contents, Recovering
  <2>6. Reserved'
    BY <1>1, <1>2, <2>1 DEF Reserved
  <2> QED
    BY <1>3, <1>4, <2>3, <2>4, <2>5, <2>6
<1>7. CASE ResetLog
  <2>1. /\ phase = "reinstall" /\ phase' = "none" /\ UNCHANGED <<disk, logblk, cache, tail>>
        /\ lh' = << >> /\ head' = << >> /\ Len(lh) \in Nat /\ Len(lh') = 0
    BY <1>7 DEF ResetLog, Reinstalled, LogType
  <2>2. LogType'
    BY <1>1, <2>1, LogAssumption DEF LogType, Phase
  <2>3. Header' /\ Contents'
    BY <2>1 DEF Header, Contents, Distinct, Recovering
  <2>4. Reserved'
    BY <1>1, <1>2, <2>1, QuietReserved
  <2> QED
    BY <1>3, <1>4, <2>2, <2>3, <2>4
<1> QED
  BY <1>5, <1>6, <1>7 DEF RecoverStep

LEMMA StepIInv == IInv /\ [Next]_vars => IInv'
<1> SUFFICES ASSUME IInv, [Next]_vars PROVE IInv'
  OBVIOUS
<1>1. ASSUME UNCHANGED <<disk, logblk, head, cache, lh, outstanding, committing, st, wrote,
                         phase, tail, crashes>>
      PROVE  IInv'
  BY <1>1, SameCounts DEF IInv, LogType, WroteType, Commits, Header, Contents, Reserved,
                          Distinct, In, Recovering
<1>2. CASE UNCHANGED vars
  BY <1>1, <1>2 DEF vars
<1>3. ASSUME NEW p \in Proc, Lose(p) PROVE IInv'
  BY <1>1, <1>3 DEF Lose, durable
<1> QED
  BY <1>2, <1>3, BeginStep, EndStep, CommitDoneStep, WriteStep, CommitSteps, RecoverSteps,
     CrashStep DEF Next

-----------------------------------------------------------------------------
(***************************************************************************)
(* The inductive invariant of kernel/log.c holds whatever the processes,   *)
(* the crashes and the sizes: who commits, what the header says, where the *)
(* contents of each block are and how much of the log is reserved.         *)
(***************************************************************************)
THEOREM Inductive == Spec => []IInv
BY InitIInv, StepIInv, PTL DEF Spec

(***************************************************************************)
(* Every field of the log stays in its range.                              *)
(***************************************************************************)
THEOREM TypeCorrect == Spec => []TypeOK
<1>1. Init => lost \subseteq Proc
  BY DEF Init
<1>2. lost \subseteq Proc /\ [Next]_vars => (lost \subseteq Proc)'
  <2> SUFFICES ASSUME lost \subseteq Proc, [Next]_vars PROVE lost' \subseteq Proc
    OBVIOUS
  <2>1. lost' = lost \/ lost' = {} \/ \E p \in Proc : lost' = lost \cup {p}
    BY DEF Next, BeginOp, EndOp, CommitDone, Lose, LogWrite, CommitStep, RecoverStep, Crash,
       WriteLog, WriteHead, InstallTrans, EraseHead, ReadHead, Reinstall, ResetLog, vars
  <2> QED
    BY <2>1
<1>3. IInv /\ lost \subseteq Proc => TypeOK
  BY DEF IInv, LogType, WroteType, TypeOK
<1> QED
  BY <1>1, <1>2, <1>3, Inductive, PTL DEF Spec

(***************************************************************************)
(* No file system call ever panics in log_write() or end_op(), for every   *)
(* number of concurrent calls: begin_op()'s reservation is enough although *)
(* absorbed blocks are tested too and log_write() stops one block early.   *)
(***************************************************************************)
THEOREM NeverPanics == Spec => []NoPanic
<1>1. IInv => NoPanic
  <2> SUFFICES ASSUME IInv, NEW p \in Proc, st[p] = "op"
               PROVE  ~committing /\ outstanding > 0 /\ ~TooBig
    BY DEF NoPanic
  <2> USE DEF IInv
  <2>1. p \in Active /\ ~committing
    BY DEF Active, Commits
  <2>2. /\ IsFiniteSet(Active) /\ Cardinality(Active) \in Nat
        /\ Cardinality(Written) \in Nat /\ Cardinality(Written) <= Cardinality(Active) * OpBlocks
    BY CountsType
  <2>3. outstanding = Cardinality(Active) /\ outstanding # 0
    BY <2>1, <2>2, FS_EmptySet DEF Commits
  <2>4. phase \notin {"read", "reinstall"}
    BY DEF Commits, Recovering
  <2>5. Len(lh) \in Nat /\ Len(lh) + outstanding * OpBlocks - Cardinality(Written) <= Room
        /\ Cardinality(Written) <= outstanding * OpBlocks /\ outstanding * OpBlocks \in Int
    BY <2>2, <2>3, <2>4, LogAssumption DEF Reserved, LogType
  <2>6. Room \in Int /\ Room < LOGSIZE /\ Room < nlog - 1
    BY LogAssumption, RoomAssumption DEF Room
  <2> DEFINE x == outstanding * OpBlocks
  <2>7. x \in Int /\ Len(lh) + x - Cardinality(Written) <= Room /\ Cardinality(Written) <= x
    BY <2>5
  <2> HIDE DEF x
  <2>8. Len(lh) <= Room
    BY <2>2, <2>5, <2>6, <2>7
  <2> QED
    BY <2>1, <2>2, <2>3, <2>5, <2>6, <2>8, LogAssumption DEF TooBig
<1> QED
  BY <1>1, Inductive, PTL

(***************************************************************************)
(* A quiet log is empty and every block is in its home location: end_op()  *)
(* and recovery leave nothing behind.                                      *)
(***************************************************************************)
THEOREM QuietIsDurable == Spec => []QuiescentDurable
<1>1. IInv => QuiescentDurable
  <2> SUFFICES ASSUME IInv, outstanding = 0, ~committing, ~Recovering
               PROVE  disk = cache /\ lh = << >> /\ head = << >>
    BY DEF QuiescentDurable
  <2> USE DEF IInv
  <2>1. Active = {}
    BY CountsType, FS_EmptySet DEF Commits
  <2>2. phase = "none"
    BY DEF Commits, Recovering, LogType, Phase
  <2>3. lh = << >> /\ head = << >>
    BY <2>1, <2>2 DEF Header
  <2>4. \A b \in Block : disk[b] = cache[b]
    BY <2>2, <2>3 DEF Contents, Recovering, In
  <2> QED
    BY <2>3, <2>4 DEF LogType
<1> QED
  BY <1>1, Inductive, PTL

-----------------------------------------------------------------------------
\* What recovery makes of disk d, log blocks l and header h.
Recover(d, l, h) ==
    [b \in Block |->
        IF \E i \in 1 .. Len(h) : h[i] = b
        THEN l[CHOOSE i \in 1 .. Len(h) : h[i] = b]
        ELSE d[b]]

\* Recovery puts the i-th log block into the i-th block of the header.
LEMMA RecoverIs ==
    ASSUME NEW d \in [Block -> Val], NEW l \in [1 .. LOGSIZE -> Val],
           NEW h \in Seq(Block), Len(h) <= LOGSIZE, Distinct(h)
    PROVE  /\ Recover(d, l, h) \in [Block -> Val]
           /\ \A i \in 1 .. Len(h) : Recover(d, l, h)[h[i]] = l[i]
           /\ \A b \in Block : ~In(b, h) => Recover(d, l, h)[b] = d[b]
<1>1. ASSUME NEW b \in Block, NEW i \in 1 .. Len(h), h[i] = b
      PROVE  Recover(d, l, h)[b] = l[i]
  <2>1. (CHOOSE j \in 1 .. Len(h) : h[j] = b) = i
    BY <1>1 DEF Distinct
  <2> QED
    BY <1>1, <2>1 DEF Recover
<1>2. ASSUME NEW b \in Block, ~In(b, h) PROVE Recover(d, l, h)[b] = d[b]
  BY <1>2 DEF Recover, In
<1>3. \A b \in Block : Recover(d, l, h)[b] \in Val
  BY <1>1, <1>2, LogAssumption DEF In
<1>4. Recover(d, l, h) \in [Block -> Val]
  BY <1>3 DEF Recover
<1>5. \A i \in 1 .. Len(h) : h[i] \in Block
  OBVIOUS
<1> QED
  BY <1>1, <1>2, <1>4, <1>5

\* The same of the state and of the next one.
LEMMA RecoveredIs ==
    ASSUME IInv
    PROVE  /\ Recovered \in [Block -> Val]
           /\ \A i \in 1 .. Len(head) : Recovered[head[i]] = logblk[i]
           /\ \A b \in Block : ~In(b, head) => Recovered[b] = disk[b]
<1>1. Recovered = Recover(disk, logblk, head)
  BY DEF Recovered, Recover
<1> QED
  BY <1>1, RecoverIs DEF IInv, LogType, Header

LEMMA RecoveredNext ==
    ASSUME IInv'
    PROVE  /\ Recovered' \in [Block -> Val]
           /\ \A i \in 1 .. Len(head') : Recovered'[head'[i]] = logblk'[i]
           /\ \A b \in Block : ~In(b, head') => Recovered'[b] = disk'[b]
<1>1. Recovered' = Recover(disk', logblk', head')
  BY DEF Recovered, Recover
<1>2. /\ disk' \in [Block -> Val] /\ logblk' \in [1 .. LOGSIZE -> Val]
      /\ head' \in Seq(Block) /\ Len(head') <= LOGSIZE /\ Distinct(head')
  BY DEF IInv, LogType, Header, Distinct
<1> QED
  BY <1>1, <1>2, RecoverIs

\* With an erased header recovery leaves the disk alone.
LEMMA RecoveredEmpty ==
    ASSUME disk \in [Block -> Val], head = << >>
    PROVE  Recovered = disk
BY DEF Recovered

\* The refinement mapping, with Active: what the system calls see and what a
\* crash would leave.
Live == IF Recovering THEN Recovered ELSE cache
Stable == Recovered

\* Two sets of contents are the same if they agree on every block of the
\* header and on every other one.
LEMMA SameContents ==
    ASSUME NEW f \in [Block -> Val], NEW g \in [Block -> Val], NEW s,
           \A i \in 1 .. Len(s) : f[s[i]] = g[s[i]],
           \A b \in Block : ~In(b, s) => f[b] = g[b]
    PROVE  f = g
<1>1. \A b \in Block : f[b] = g[b]
  BY DEF In
<1> QED
  BY <1>1

\* commit(): write_head() makes the contents of all the blocks stable at once,
\* and no other step of it can be seen.
LEMMA CommitRefines ==
    ASSUME IInv, IInv', CommitStep
    PROVE  /\ Active' = Active /\ Live' = Live
           /\ Stable' = Stable \/ (Stable' = Live /\ Active = {})
<1> USE DEF IInv
<1>1. UNCHANGED <<st, wrote>> /\ ~Recovering /\ ~Recovering' /\ Active = {}
  BY DEF CommitStep, WriteLog, WriteHead, LogWritten, InstallTrans, EraseHead, Commits, Recovering
<1>2. Active' = Active
  BY <1>1, SameCounts
<1>3. CASE WriteLog
  <2>1. head = << >> /\ head' = << >> /\ UNCHANGED <<disk, cache>>
    BY <1>3 DEF WriteLog, Header
  <2>2. Recovered = disk /\ Recovered' = disk'
    BY <2>1, RecoveredEmpty DEF LogType, Recovered
  <2> QED
    BY <1>1, <1>2, <2>1, <2>2 DEF Live, Stable
<1>4. CASE WriteHead
  <2>1. /\ phase = "log" /\ head' = lh /\ tail > Len(lh) /\ UNCHANGED <<disk, logblk, cache, lh>>
        /\ Len(lh) \in Nat /\ tail \in Nat
    BY <1>4 DEF WriteHead, LogWritten, LogType
  <2>2. \A i \in 1 .. Len(lh) : logblk[i] = cache[lh[i]]
    BY <2>1 DEF Contents
  <2>3. /\ Recovered' \in [Block -> Val]
        /\ \A i \in 1 .. Len(lh) : Recovered'[lh[i]] = logblk[i]
        /\ \A b \in Block : ~In(b, lh) => Recovered'[b] = disk[b]
    BY <2>1, RecoveredNext
  <2>4. \A b \in Block : ~In(b, lh) => disk[b] = cache[b]
    BY <1>1 DEF Contents
  <2>5. cache \in [Block -> Val]
    BY DEF LogType
  <2>6. Recovered' = cache
    BY <2>2, <2>3, <2>4, <2>5, SameContents
  <2> QED
    BY <1>1, <1>2, <2>1, <2>6 DEF Live, Stable
<1>5. CASE InstallTrans
  <2>1. /\ phase = "install" /\ head = lh /\ UNCHANGED <<head, lh, logblk>>
        /\ tail \in 1 .. Len(lh) /\ Len(lh) \in Nat
        /\ cache' = [cache EXCEPT ![lh[tail]] = logblk[tail]]
        /\ disk' = [disk EXCEPT ![lh[tail]] = logblk[tail]]
    BY <1>5 DEF InstallTrans, LogType, Header
  <2>2. cache' = cache
    BY <2>1 DEF Contents, LogType
  <2>3. Recovered' = Recovered
    <3>1. /\ Recovered \in [Block -> Val] /\ Recovered' \in [Block -> Val]
          /\ \A i \in 1 .. Len(head) : Recovered[head[i]] = logblk[i] /\ Recovered'[head[i]] = logblk[i]
          /\ \A b \in Block : ~In(b, head) => Recovered[b] = disk[b] /\ Recovered'[b] = disk'[b]
      BY <2>1, RecoveredIs, RecoveredNext
    <3>2. \A b \in Block : ~In(b, head) => disk'[b] = disk[b]
      BY <2>1 DEF In, LogType
    <3>3. /\ \A i \in 1 .. Len(head) : Recovered'[head[i]] = Recovered[head[i]]
          /\ \A b \in Block : ~In(b, head) => Recovered'[b] = Recovered[b]
      BY <3>1, <3>2
    <3> QED
      BY <3>1, <3>3, SameContents
  <2> QED
    BY <1>1, <1>2, <2>2, <2>3 DEF Live, Stable
<1>6. CASE EraseHead
  <2>1. /\ phase = "install" /\ head = lh /\ head' = << >> /\ UNCHANGED <<disk, cache>>
        /\ tail > Len(lh) /\ Len(lh) \in Nat /\ tail \in Nat
    BY <1>6 DEF EraseHead, LogType, Header
  <2>2. /\ Recovered \in [Block -> Val] /\ disk \in [Block -> Val]
        /\ \A i \in 1 .. Len(head) : Recovered[head[i]] = logblk[i]
        /\ \A b \in Block : ~In(b, head) => Recovered[b] = disk[b]
    BY RecoveredIs DEF LogType
  <2>3. \A i \in 1 .. Len(head) : logblk[i] = disk[head[i]]
    BY <2>1 DEF Contents
  <2>4. Recovered = disk
    BY <2>2, <2>3, SameContents
  <2>5. Recovered' = disk'
    BY <2>1, <2>2 DEF Recovered
  <2> QED
    BY <1>1, <1>2, <2>1, <2>4, <2>5 DEF Live, Stable
<1> QED
  BY <1>3, <1>4, <1>5, <1>6 DEF CommitStep

\* recover_from_log() changes nothing that can be seen.
LEMMA RecoverRefines ==
    ASSUME IInv, IInv', RecoverStep
    PROVE  Active' = Active /\ Live' = Live /\ Stable' = Stable
<1> USE DEF IInv
<1>1. UNCHANGED <<st, wrote>> /\ Recovering /\ cache = disk
  BY DEF RecoverStep, ReadHead, Reinstall, ResetLog, Reinstalled, Recovering, Contents
<1>2. Active' = Active
  BY <1>1, SameCounts
<1>3. CASE ReadHead
  <2>1. UNCHANGED <<disk, logblk, head>> /\ Recovering'
    BY <1>3 DEF ReadHead, durable, Recovering
  <2>2. Recovered' = Recovered
    BY <2>1 DEF Recovered
  <2> QED
    BY <1>1, <1>2, <2>1, <2>2 DEF Live, Stable
<1>4. CASE Reinstall
  <2>1. /\ head = lh /\ UNCHANGED <<head, lh, logblk>> /\ Recovering'
        /\ tail \in 1 .. Len(lh) /\ Len(lh) \in Nat
        /\ disk' = [disk EXCEPT ![lh[tail]] = logblk[tail]]
    BY <1>4 DEF Reinstall, LogType, Header, Recovering
  <2>2. Recovered' = Recovered
    <3>1. /\ Recovered \in [Block -> Val] /\ Recovered' \in [Block -> Val]
          /\ \A i \in 1 .. Len(head) : Recovered[head[i]] = logblk[i] /\ Recovered'[head[i]] = logblk[i]
          /\ \A b \in Block : ~In(b, head) => Recovered[b] = disk[b] /\ Recovered'[b] = disk'[b]
      BY <2>1, RecoveredIs, RecoveredNext
    <3>2. \A b \in Block : ~In(b, head) => disk'[b] = disk[b]
      BY <2>1 DEF In, LogType
    <3>3. /\ \A i \in 1 .. Len(head) : Recovered'[head[i]] = Recovered[head[i]]
          /\ \A b \in Block : ~In(b, head) => Recovered'[b] = Recovered[b]
      BY <3>1, <3>2
    <3> QED
      BY <3>1, <3>3, SameContents
  <2> QED
    BY <1>1, <1>2, <2>1, <2>2 DEF Live, Stable
<1>5. CASE ResetLog
  <2>1. /\ phase = "reinstall" /\ head = lh /\ head' = << >> /\ ~Recovering'
        /\ UNCHANGED <<disk, cache>>
        /\ tail > Len(lh) /\ Len(lh) \in Nat /\ tail \in Nat
    BY <1>5 DEF ResetLog, Reinstalled, LogType, Header, Recovering
  <2>2. /\ Recovered \in [Block -> Val] /\ disk \in [Block -> Val]
        /\ \A i \in 1 .. Len(head) : Recovered[head[i]] = logblk[i]
        /\ \A b \in Block : ~In(b, head) => Recovered[b] = disk[b]
    BY RecoveredIs DEF LogType
  <2>3. \A i \in 1 .. Len(head) : logblk[i] = disk[head[i]]
    BY <2>1 DEF Contents
  <2>4. Recovered = disk
    BY <2>2, <2>3, SameContents
  <2>5. Recovered' = disk'
    BY <2>1, <2>2 DEF Recovered
  <2> QED
    BY <1>1, <1>2, <2>1, <2>4, <2>5 DEF Live, Stable
<1> QED
  BY <1>3, <1>4, <1>5 DEF RecoverStep

(***************************************************************************)
(* The log implements atomic transactions (LogSpec), for every number of   *)
(* processes, blocks and crashes: what recovery would make of the disk     *)
(* changes only by write_head(), from one quiescent contents to another.   *)
(***************************************************************************)
THEOREM AtomicCommit == Spec => Implements
<1>1. Init => Abstract!Init
  <2> SUFFICES ASSUME Init PROVE Abstract!Init
    OBVIOUS
  <2>1. Recovering /\ Active = {}
    BY DEF Init, Recovering, Active
  <2>2. Recovered \in [Block -> Val]
    BY InitIInv, RecoveredIs
  <2> QED
    BY <2>1, <2>2 DEF Abstract!Init, Active
<1>2. IInv /\ IInv' /\ [Next]_vars => [Abstract!Next]_(Abstract!vars)
  <2> SUFFICES ASSUME IInv, IInv', [Next]_vars PROVE [Abstract!Next]_(Abstract!vars)
    OBVIOUS
  <2>0. ASSUME Active' = Active, Live' = Live, Stable' = Stable
        PROVE  UNCHANGED Abstract!vars
    BY <2>0 DEF Abstract!vars, Live, Stable, Active
  <2>1. ASSUME UNCHANGED durable PROVE Stable' = Stable
    BY <2>1 DEF Stable, Recovered, durable
  <2>2. ASSUME NEW p \in Proc, BeginOp(p) PROVE [Abstract!Next]_(Abstract!vars)
    <3>1. UNCHANGED durable /\ Live' = Live
      BY <2>2 DEF BeginOp, Live, Recovering
    <3>2. Active' = Active \/ Active' = Active \cup {p}
      BY <2>2 DEF BeginOp, Active, IInv, LogType
    <3>3. CASE Active' = Active \cup {p}
      BY <2>1, <3>1, <3>3 DEF Abstract!Next, Abstract!Begin, Live, Stable, Active
    <3> QED
      BY <2>0, <2>1, <3>1, <3>2, <3>3
  <2>3. ASSUME NEW p \in Proc, EndOp(p) PROVE [Abstract!Next]_(Abstract!vars)
    <3>1. UNCHANGED durable /\ ~Recovering /\ ~Recovering' /\ cache' = cache
      BY <2>3 DEF EndOp, Recovering, IInv, Commits
    <3>2. Live' = Live
      BY <3>1 DEF Live
    <3>3. \A q \in Proc : st'[q] = "op" <=> st[q] = "op" /\ q # p
      BY <2>3 DEF EndOp, Wakeup, IInv, LogType
    <3>4. Active' = Active \ {p}
      BY <3>3 DEF Active
    <3> QED
      BY <2>1, <3>1, <3>2, <3>4 DEF Abstract!Next, Abstract!End, Live, Stable, Active
  <2>4. ASSUME NEW p \in Proc, CommitDone(p) PROVE [Abstract!Next]_(Abstract!vars)
    <3>1. UNCHANGED durable /\ ~Recovering /\ ~Recovering' /\ cache' = cache
      BY <2>4 DEF CommitDone, Recovering
    <3>2. Live' = Live
      BY <3>1 DEF Live
    <3>3. \A q \in Proc : st'[q] = "op" <=> st[q] = "op"
      BY <2>4 DEF CommitDone, Wakeup, IInv, LogType
    <3>4. Active' = Active
      BY <3>3 DEF Active
    <3> QED
      BY <2>0, <2>1, <3>1, <3>2, <3>4
  <2>5. ASSUME NEW p \in Proc, NEW b \in Block, NEW v \in Val, LogWrite(p, b, v)
        PROVE  [Abstract!Next]_(Abstract!vars)
    <3>1. /\ UNCHANGED durable /\ ~Recovering /\ ~Recovering' /\ p \in Active /\ st' = st
          /\ cache' = [cache EXCEPT ![b] = v]
      BY <2>5 DEF LogWrite, MayWrite, Recovering, IInv, Commits, Active
    <3>2. Live = cache /\ Live' = cache'
      BY <3>1 DEF Live
    <3>3. Active' = Active
      BY <3>1 DEF Active
    <3> QED
      BY <2>1, <3>1, <3>2, <3>3 DEF Abstract!Next, Abstract!Write, Live, Stable, Active
  <2>6. CASE CommitStep
    <3>1. CASE Stable' = Stable
      BY <2>0, <2>6, <3>1, CommitRefines
    <3>2. CASE Stable' = Live /\ Active = {}
      BY <2>6, <3>2, CommitRefines DEF Abstract!Next, Abstract!Commit, Live, Stable, Active
    <3> QED
      BY <2>6, <3>1, <3>2, CommitRefines
  <2>7. CASE RecoverStep
    BY <2>0, <2>7, RecoverRefines
  <2>8. CASE Crash
    <3>1. UNCHANGED durable /\ Recovering' /\ Active' = {}
      BY <2>8 DEF Crash, Recovering, Active
    <3>2. Live' = Stable'
      BY <3>1 DEF Live, Stable
    <3> QED
      BY <2>1, <3>1, <3>2 DEF Abstract!Next, Abstract!Crash, Live, Stable, Active
  <2>9. ASSUME UNCHANGED <<disk, logblk, head, cache, st, phase>>
        PROVE  [Abstract!Next]_(Abstract!vars)
    <3>1. Active' = Active /\ Live' = Live /\ Stable' = Stable
      BY <2>9 DEF Active, Live, Stable, Recovering, Recovered
    <3> QED
      BY <2>0, <3>1
  <2>10. CASE UNCHANGED vars
    BY <2>9, <2>10 DEF vars
  <2>11. ASSUME NEW p \in Proc, Lose(p) PROVE [Abstract!Next]_(Abstract!vars)
    BY <2>9, <2>11 DEF Lose, durable
  <2> QED
    BY <2>2, <2>3, <2>4, <2>5, <2>6, <2>7, <2>8, <2>10, <2>11 DEF Next
<1> QED
  BY <1>1, <1>2, Inductive, PTL DEF Spec, Implements, Abstract!Spec
=============================================================================
