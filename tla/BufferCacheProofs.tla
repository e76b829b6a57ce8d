------------------------- MODULE BufferCacheProofs -------------------------
(***************************************************************************)
(* The buffer cache and the disk driver for any numbers of processes,      *)
(* buffers, blocks and descriptors: the driver's books (DriverExact), the  *)
(* cache's books (CacheConsistent), and that the two together implement    *)
(* the block store (Implements).                                           *)
(***************************************************************************)
EXTENDS BufferCache, VirtioDiskProofs

-----------------------------------------------------------------------------
(* The inductive invariant.                                                *)

MemoryType ==
    /\ disk \in [Block -> Val] /\ data \in [Buf -> Val]
    /\ blk \in [Buf -> Block \cup {None}] /\ buf \in [Proc -> Buf \cup {None}]
    /\ lock \in [Buf -> Proc \cup {None}] /\ st \in [Proc -> Status]
    /\ pinned \in SUBSET Block /\ lost \in SUBSET Proc

FlagType ==
    /\ owned \in [Buf -> BOOLEAN] /\ valid \in [Buf -> BOOLEAN]
    /\ write \in [Proc -> BOOLEAN]
    /\ handler \in BOOLEAN /\ intr \in BOOLEAN /\ owed \in BOOLEAN

DescType ==
    /\ desc \in [Desc -> [addr : Buf \cup {None}, next : Desc, more : BOOLEAN]]
    /\ ops \in [Desc -> [write : BOOLEAN, block : Block \cup {None}, status : {0, 255}]]
    /\ info \in [Desc -> Buf \cup {None}]
    /\ free \in SUBSET Desc /\ head \in [Proc -> Desc]

RingType ==
    /\ avail \in [Desc -> Desc] /\ used \in [Desc -> Desc]
    /\ avail_idx \in Index /\ fetched \in Index
    /\ used_idx \in Index /\ used_ring_idx \in Index
    /\ inflight \in SUBSET Desc

LruType ==
    /\ lru \in [1 .. Cardinality(Buf) -> Buf]
    /\ \A i \in Buf : \E k \in 1 .. Cardinality(Buf) : lru[k] = i

\* Who uses which buffer for which block, and who has it locked.
Users ==
    /\ \A p \in Proc : buf[p] = None <=> st[p] = "idle"
    /\ \A p \in Proc : st[p] # "idle" => blk[buf[p]] # None
    /\ \A i, j \in Buf : blk[i] = blk[j] /\ blk[i] # None => i = j
    /\ \A p \in Proc : st[p] \in HasLock => lock[buf[p]] = p
    /\ \A i \in Buf : lock[i] # None => st[lock[i]] \in HasLock /\ buf[lock[i]] = i
    /\ LockSleepers
    /\ \A b \in pinned : \E i \in Buf : blk[i] = b

\* The processes that use buffer i when f says which one each uses.
UsersOf(f, i) == {p \in Proc : f[p] = i}

\* A reference for every user and one for a pin.
Refs ==
    /\ refcnt \in [Buf -> Nat]
    /\ \A i \in Buf : refcnt[i] = Cardinality(UsersOf(buf, i))
                                  + (IF blk[i] \in pinned THEN 1 ELSE 0)

\* The three descriptors of a request.
First(p) == head[p]
Second(p) == desc[head[p]].next
Third(p) == desc[desc[head[p]].next].next

\* What the descriptors of p's request say.
Described(p) ==
    /\ desc[First(p)].more /\ desc[Second(p)].more
    /\ desc[Second(p)].addr = buf[p]
    /\ First(p) # Second(p) /\ Second(p) # Third(p) /\ First(p) # Third(p)
    /\ First(p) \notin free /\ Second(p) \notin free /\ Third(p) \notin free
    /\ info[First(p)] = buf[p]
    /\ ops[First(p)].write = write[p] /\ ops[First(p)].block = blk[buf[p]]

\* The descriptors are shared out among the requests.
Shared ==
    /\ \A p \in Requesting : Described(p)
    /\ \A p, q \in Requesting : p # q =>
         {First(p), Second(p), Third(p)} \cap {First(q), Second(q), Third(q)} = {}
    /\ \A d \in Desc \ free :
         \E p \in Requesting : d \in {First(p), Second(p), Third(p)}

\* Requests on their way to the device, in it and on their way back.
Coming == Between(fetched, avail_idx, avail)

Tracked ==
    /\ NoRepeat(fetched, avail_idx, avail) /\ NoRepeat(used_idx, used_ring_idx, used)
    /\ Coming \cap inflight = {} /\ Coming \cap Unseen = {} /\ inflight \cap Unseen = {}
    /\ \A p \in Requesting :
         owned[buf[p]] <=> head[p] \in Coming \cup inflight \cup Unseen
    /\ \A h \in Coming \cup inflight \cup Unseen : \E p \in Requesting : h = head[p]
    /\ \A h \in Unseen : ops[h].status = 0
    /\ NoLostCompletion

\* p is in virtio_disk_rw().
InRw(p) == st[p] \in DriverStatus

\* What a buffer holds: the reader's is not valid until it is read; when the
\* device has answered, buffer and disk agree; and they agree whenever the
\* buffer is valid and nobody has pinned it or is writing it.
Clean ==
    /\ \A p \in Proc : InRw(p) => (valid[buf[p]] <=> write[p])
    /\ \A p \in Proc : st[p] \in {"held", "written"} => valid[buf[p]]
    /\ \A p \in Requesting : head[p] \notin Coming \cup inflight =>
         data[buf[p]] = disk[blk[buf[p]]]
    /\ \A p \in Proc : st[p] = "written" => data[buf[p]] = disk[blk[buf[p]]]
    /\ \A i \in Buf : blk[i] # None /\ valid[i] /\ blk[i] \notin pinned =>
         \/ data[i] = disk[blk[i]]
         \/ \E p \in Proc : buf[p] = i /\ InRw(p) /\ write[p]

Types == MemoryType /\ FlagType /\ DescType /\ RingType /\ LruType

IInv == Types /\ Users /\ Refs /\ Shared /\ Tracked /\ Clean

-----------------------------------------------------------------------------
(* Frames: what a part of the invariant does not look at.                  *)

\* The requests, their descriptors and the rings are as they were.
SameRequests ==
    /\ UNCHANGED <<owned, free, desc, ops, info, rings, head>>
    /\ Requesting' = Requesting
    /\ \A p \in Requesting : /\ buf'[p] = buf[p] /\ write'[p] = write[p]
                             /\ blk'[buf[p]] = blk[buf[p]]

LEMMA RequestsFrame ==
    ASSUME Shared, Tracked, DescType, RingType, SameRequests
    PROVE  Shared' /\ Tracked' /\ DescType' /\ RingType' /\ Coming' = Coming
<1> USE DEF SameRequests, rings
<1>1. Coming' = Coming /\ Unseen' = Unseen
  BY DEF Coming, Unseen, Between
<1>2. Shared'
  BY DEF Shared, Described, First, Second, Third
<1>3. DescType' /\ RingType'
  BY DEF DescType, RingType
<1>4. Tracked'
  <2>1. NoRepeat(fetched, avail_idx, avail)' /\ NoRepeat(used_idx, used_ring_idx, used)'
    BY DEF Tracked, NoRepeat, Count, Entry
  <2>2. NoLostCompletion'
    BY DEF Tracked, NoLostCompletion, MoreUsed
  <2> QED
    BY <2>1, <2>2, <1>1 DEF Tracked
<1> QED
  BY <1>1, <1>2, <1>3, <1>4

\* Nobody gets, locks, lets go or moves a buffer.
SameUsers ==
    /\ UNCHANGED <<blk, buf, refcnt, lock, lru, pinned, lost>>
    /\ \A p \in Proc : st'[p] = st[p] \/ (st[p] \in HasLock /\ st'[p] \in HasLock)

LEMMA UsersFrame ==
    ASSUME MemoryType, Users, Refs, LruType, SameUsers
    PROVE  Users' /\ Refs' /\ LruType'
<1> USE DEF SameUsers
<1>1. Refs' /\ LruType'
  BY DEF Refs, LruType
<1>2. Users'
  BY DEF MemoryType, Users, LockSleepers, HasLock, Asleep
<1> QED
  BY <1>1, <1>2

-----------------------------------------------------------------------------
\* Nothing is under way in the initial state.
LEMMA InitIInv == Init => IInv
<1> SUFFICES ASSUME Init PROVE IInv
  OBVIOUS
<1> USE DEF Init, DiskInit
<1>1. MemoryType
  BY VirtioAssumption DEF MemoryType, Status
<1>2. FlagType
  BY DEF FlagType
<1>3. 0 \in Desc /\ 0 \in Index
  BY VirtioAssumption DEF Desc, Index
<1>4. DescType
  BY <1>3 DEF DescType, NoDesc, NoOp
<1>5. RingType
  BY <1>3 DEF RingType
<1>6. LruType
  <2> DEFINE n == Cardinality(Buf)
  <2>1. n \in Nat /\ IsFiniteSet(Buf)
    BY VirtioAssumption, FS_CardinalityType
  <2>2. lru \in [1 .. n -> Buf] /\ \A i, j \in 1 .. n : i # j => lru[i] # lru[j]
    BY DEF SetToSeqs
  <2>3. lru \in Injection(1 .. n, Buf)
    BY <2>2 DEF Injection, IsInjective
  <2>4. Cardinality(1 .. n) = n
    BY <2>1, FS_Interval
  <2>5. lru \in Surjection(1 .. n, Buf)
    BY <2>1, <2>3, <2>4, FS_Injection
  <2> QED
    BY <2>2, <2>5 DEF LruType, Surjection
<1>7. Users
  BY VirtioAssumption DEF Users, LockSleepers, HasLock, Asleep
<1>8. Refs
  <2>1. \A i \in Buf : UsersOf(buf, i) = {}
    BY VirtioAssumption DEF UsersOf
  <2>2. \A i \in Buf : Cardinality(UsersOf(buf, i)) = 0
    BY <2>1, FS_EmptySet
  <2> QED
    BY <2>2 DEF Refs
<1>9. Requesting = {}
  BY DEF Requesting
<1>10. Shared
  BY <1>9 DEF Shared
<1>11. /\ Coming = {} /\ Unseen = {}
       /\ NoRepeat(fetched, avail_idx, avail) /\ NoRepeat(used_idx, used_ring_idx, used)
  BY <1>3, RingEmpty DEF Coming, Unseen
<1>12. Tracked
  BY <1>9, <1>11 DEF Tracked, NoLostCompletion, MoreUsed
<1>13. Clean
  BY <1>9 DEF Clean, InRw, DriverStatus
<1> QED
  BY <1>1, <1>2, <1>4, <1>5, <1>6, <1>7, <1>8, <1>10, <1>12, <1>13 DEF IInv, Types

-----------------------------------------------------------------------------
(* Lemmas about the cache's operators.                                     *)

\* Nobody uses a buffer without references, and its block is not pinned.
LEMMA NoReference ==
    ASSUME Refs, NEW i \in Buf, refcnt[i] = 0
    PROVE  /\ \A p \in Proc : buf[p] # i
           /\ blk[i] \notin pinned
<1> DEFINE S == UsersOf(buf, i)
<1>1. IsFiniteSet(S)
  BY VirtioAssumption, FS_Subset DEF UsersOf
<1>2. Cardinality(S) \in Nat
  BY <1>1, FS_CardinalityType
<1>3. refcnt[i] = Cardinality(S) + (IF blk[i] \in pinned THEN 1 ELSE 0)
  BY DEF Refs
<1> HIDE DEF S
<1>4. Cardinality(S) = 0 /\ blk[i] \notin pinned
  BY <1>2, <1>3
<1>5. S = {}
  BY <1>1, <1>4, FS_EmptySet
<1> QED
  BY <1>4, <1>5 DEF S, UsersOf

\* bget()'s second loop finds a buffer without references if there is one.
LEMMA VictimUnused ==
    ASSUME LruType, Unused # {}
    PROVE  Victim \in Unused
<1> DEFINE n == Cardinality(Buf)
           K == {k \in 1 .. Len(lru) : lru[k] \in Unused}
           D == {n - k : k \in K}
<1>1. n \in Nat
  BY VirtioAssumption, FS_CardinalityType
<1> HIDE DEF n
<1>2. lru \in [1 .. n -> Buf] /\ \A i \in Buf : \E k \in 1 .. n : lru[k] = i
  BY DEF LruType, n
<1>3. Len(lru) = n
  BY <1>1, <1>2
<1>4. K \in SUBSET (1 .. n) /\ \E k \in 1 .. n : k \in K
  BY <1>2, <1>3 DEF Unused
<1>5. \A k \in K : lru[k] \in Unused
  OBVIOUS
<1> HIDE DEF K
<1>6. D \in SUBSET Nat /\ D # {}
  BY <1>1, <1>4
<1>7. PICK d \in D : \A e \in D : d <= e
  BY <1>6, MinLeast
<1>8. PICK m \in K : d = n - m
  BY <1>7
<1>9. ASSUME NEW k \in K PROVE m >= k
  <2>1. n - m <= n - k
    BY <1>7, <1>8
  <2> QED
    BY <2>1, <1>1, <1>4
<1>10. Max(K) \in K
  BY <1>9 DEF Max
<1> QED
  BY <1>5, <1>10 DEF Victim, K

\* A buffer that moves to the front leaves every buffer in the list.
LEMMA FrontType ==
    ASSUME LruType, NEW i \in Buf
    PROVE  /\ MoveToFront(i) \in [1 .. Cardinality(Buf) -> Buf]
           /\ \A j \in Buf : \E k \in 1 .. Cardinality(Buf) : MoveToFront(i)[k] = j
<1> DEFINE n == Cardinality(Buf)
           at == CHOOSE k \in DOMAIN lru : lru[k] = i
           f == [k \in DOMAIN lru |-> IF k = 1 THEN i
                                      ELSE IF k <= at THEN lru[k - 1] ELSE lru[k]]
<1>1. n \in Nat
  BY VirtioAssumption, FS_CardinalityType
<1> HIDE DEF n
<1>2. lru \in [1 .. n -> Buf] /\ \A j \in Buf : \E k \in 1 .. n : lru[k] = j
  BY DEF LruType, n
<1>3. at \in 1 .. n /\ lru[at] = i
  BY <1>2
<1> HIDE DEF at
<1>4. f \in [1 .. n -> Buf]
  BY <1>1, <1>2, <1>3
<1>5. ASSUME NEW j \in Buf PROVE \E k \in 1 .. n : f[k] = j
  <2>1. PICK k \in 1 .. n : lru[k] = j
    BY <1>2
  <2>2. CASE k = at
    BY <2>1, <2>2, <1>1, <1>2, <1>3
  <2>3. CASE k < at
    <3>1. k + 1 \in 1 .. n /\ k + 1 <= at /\ (k + 1) - 1 = k /\ k + 1 # 1
      BY <2>3, <1>1, <1>3
    <3> QED
      BY <3>1, <2>1, <1>2
  <2>4. CASE k > at
    <3>1. ~(k <= at) /\ k # 1
      BY <2>4, <1>1, <1>3
    <3> QED
      BY <3>1, <2>1, <1>2
  <2> QED
    BY <2>2, <2>3, <2>4, <1>1, <1>3
<1>6. MoveToFront(i) = f
  BY DEF MoveToFront, at
<1> HIDE DEF f
<1> QED
  BY <1>4, <1>5, <1>6 DEF n

\* The number of a buffer's users when one more joins them.
LEMMA UserCount ==
    ASSUME NEW S \in SUBSET Proc, NEW p \in Proc
    PROVE  /\ Cardinality(S) \in Nat
           /\ p \notin S => Cardinality(S \cup {p}) = Cardinality(S) + 1
<1>1. IsFiniteSet(S)
  BY VirtioAssumption, FS_Subset
<1> QED
  BY <1>1, FS_CardinalityType, FS_AddElement

\* The buffer of a process, and that its holder is alone with it.
LEMMA HolderAlone ==
    ASSUME MemoryType, Users
    PROVE  /\ \A p \in Proc : st[p] # "idle" => buf[p] \in Buf /\ blk[buf[p]] \in Block
           /\ \A p, q \in Proc :
                st[p] \in HasLock /\ st[q] \in HasLock /\ buf[p] = buf[q] => p = q
BY DEF MemoryType, Users, HasLock

-----------------------------------------------------------------------------
(* The processes' steps that make no request.                              *)

\* bget() takes a reference, and a buffer nobody uses if the block has none.
LEMMA BgetStep ==
    ASSUME IInv, NEW p \in Proc, NEW b \in Block, Bget(p, b)
    PROVE  IInv'
<1> USE DEF IInv, Types
<1>1. PICK i \in Buf :
        /\ refcnt' = [refcnt EXCEPT ![i] = refcnt[i] + 1]
        /\ buf' = [buf EXCEPT ![p] = i]
        /\ blk'[i] = b
        /\ \/ blk' = blk /\ valid' = valid
           \/ /\ \A j \in Buf : blk[j] # b
              /\ \A q \in Proc : buf[q] # i
              /\ blk[i] \notin pinned
              /\ blk' = [blk EXCEPT ![i] = b] /\ valid' = [valid EXCEPT ![i] = FALSE]
  <2>1. CASE \E i \in Cached(b) : /\ refcnt' = [refcnt EXCEPT ![i] = refcnt[i] + 1]
                                  /\ buf' = [buf EXCEPT ![p] = i]
                                  /\ UNCHANGED <<blk, valid>>
    BY <2>1 DEF Cached
  <2>2. CASE /\ Cached(b) = {} /\ Unused # {}
             /\ LET i == Victim IN
                  /\ blk' = [blk EXCEPT ![i] = b]
                  /\ valid' = Invalid(i)
                  /\ refcnt' = [refcnt EXCEPT ![i] = 1]
                  /\ buf' = [buf EXCEPT ![p] = i]
    <3> DEFINE i == Victim
    <3>1. i \in Unused
      BY <2>2, VictimUnused
    <3> HIDE DEF i
    <3>2. i \in Buf /\ refcnt[i] = 0
      BY <3>1 DEF Unused
    <3>3. (\A q \in Proc : buf[q] # i) /\ blk[i] \notin pinned
      BY <3>2, NoReference
    <3>4. refcnt' = [refcnt EXCEPT ![i] = refcnt[i] + 1]
      BY <2>2, <3>2 DEF i
    <3>5. blk' = [blk EXCEPT ![i] = b] /\ valid' = [valid EXCEPT ![i] = FALSE]
          /\ buf' = [buf EXCEPT ![p] = i]
      BY <2>2 DEF i, Invalid
    <3>6. \A j \in Buf : blk[j] # b
      BY <2>2 DEF Cached
    <3>7. blk'[i] = b
      BY <3>2, <3>5 DEF MemoryType
    <3> QED
      BY <3>2, <3>3, <3>4, <3>5, <3>6, <3>7
  <2> QED
    BY <2>1, <2>2 DEF Bget
<1>2. /\ st[p] = "idle" /\ st' = [st EXCEPT ![p] = "lock"] /\ buf[p] = None
      /\ UNCHANGED <<disk, data, owned, free, desc, ops, info, rings, write, head, lost,
                     lock, lru, pinned>>
  BY DEF Bget, MayGet, Users
<1>3. MemoryType'
  BY <1>1, <1>2 DEF MemoryType, Status
<1>4. FlagType'
  BY <1>1, <1>2 DEF FlagType, rings
<1>5. LruType'
  BY <1>2 DEF LruType
<1>6. SameRequests
  <2>1. Requesting' = Requesting
    BY <1>2 DEF Requesting, MemoryType
  <2>2. \A q \in Requesting : q # p
    BY <1>2 DEF Requesting
  <2>3. \A q \in Requesting : buf'[q] = buf[q] /\ blk'[buf[q]] = blk[buf[q]]
    BY <1>1, <2>2 DEF Requesting, MemoryType, Users
  <2> QED
    BY <1>2, <2>1, <2>3 DEF SameRequests
<1>7. Shared' /\ Tracked' /\ DescType' /\ RingType' /\ Coming' = Coming
  BY <1>6, RequestsFrame
<1>8. \A q \in Proc : q # p => /\ buf'[q] = buf[q] /\ st'[q] = st[q]
                               /\ buf[q] # None => blk'[buf[q]] = blk[buf[q]]
                                                   /\ valid'[buf[q]] = valid[buf[q]]
  BY <1>1, <1>2 DEF MemoryType, FlagType
<1>9. buf'[p] = i /\ st'[p] = "lock" /\ blk'[i] = b /\ b # None
  BY <1>1, <1>2, VirtioAssumption DEF MemoryType
<1>10. \A j \in Buf : j # i => blk'[j] = blk[j] /\ valid'[j] = valid[j]
  BY <1>1 DEF MemoryType, FlagType
<1>11. Users'
  <2>1. \A q \in Proc : buf'[q] = None <=> st'[q] = "idle"
    BY <1>8, <1>9, VirtioAssumption DEF Users
  <2>2. \A q \in Proc : st'[q] # "idle" => blk'[buf'[q]] # None
    BY <1>8, <1>9 DEF Users
  <2>3. \A j, k \in Buf : blk'[j] = blk'[k] /\ blk'[j] # None => j = k
    BY <1>1, <1>9, <1>10 DEF Users
  <2>4. \A q \in Proc : st'[q] \in HasLock => lock'[buf'[q]] = q
    BY <1>2, <1>8, <1>9 DEF Users, HasLock
  <2>5. \A j \in Buf : lock'[j] # None => st'[lock'[j]] \in HasLock /\ buf'[lock'[j]] = j
    BY <1>2, <1>8, <1>9 DEF Users, HasLock, MemoryType
  <2>6. LockSleepers'
    BY <1>2, <1>8, <1>9 DEF Users, LockSleepers, Asleep
  <2>7. \A c \in pinned' : \E j \in Buf : blk'[j] = c
    BY <1>1, <1>2, <1>10 DEF Users
  <2> QED
    BY <2>1, <2>2, <2>3, <2>4, <2>5, <2>6, <2>7 DEF Users
<1>12. Refs'
  <2>1. refcnt \in [Buf -> Nat] /\ refcnt' \in [Buf -> Nat]
    BY <1>1 DEF Refs
  <2>2. buf \in [Proc -> Buf \cup {None}] /\ buf' \in [Proc -> Buf \cup {None}]
    BY <1>3 DEF MemoryType
  <2>3. ASSUME NEW j \in Buf
        PROVE  refcnt'[j] = Cardinality(UsersOf(buf', j))
                            + (IF blk'[j] \in pinned' THEN 1 ELSE 0)
    <3>1. /\ Cardinality(UsersOf(buf, j)) \in Nat
          /\ Cardinality(UsersOf(buf', j))
               = Cardinality(UsersOf(buf, j)) + (IF j = i THEN 1 ELSE 0)
      <4>1. UsersOf(buf, j) \in SUBSET Proc
        BY DEF UsersOf
      <4>2. CASE j = i
        <5>1. UsersOf(buf', j) = UsersOf(buf, j) \cup {p} /\ p \notin UsersOf(buf, j)
          BY <1>1, <1>2, <2>2, <4>2, VirtioAssumption DEF UsersOf
        <5> QED
          BY <4>1, <4>2, <5>1, UserCount
      <4>3. CASE j # i
        <5>1. UsersOf(buf', j) = UsersOf(buf, j)
          BY <1>1, <1>2, <2>2, <4>3, VirtioAssumption DEF UsersOf
        <5>2. Cardinality(UsersOf(buf, j)) \in Nat
          BY <4>1, UserCount
        <5> QED
          BY <4>3, <5>1, <5>2
      <4> QED
        BY <4>2, <4>3
    <3>2. refcnt'[j] = refcnt[j] + (IF j = i THEN 1 ELSE 0) /\ refcnt[j] \in Nat
      BY <1>1, <2>1
    <3>3. blk'[j] \in pinned' <=> blk[j] \in pinned
      BY <1>1, <1>2, <1>10 DEF Users
    <3>4. refcnt[j] = Cardinality(UsersOf(buf, j))
                      + (IF blk[j] \in pinned THEN 1 ELSE 0)
      BY DEF Refs
    <3> QED
      BY <3>1, <3>2, <3>3, <3>4
  <2> QED
    BY <2>1, <2>3 DEF Refs
<1>13. Clean'
  <2>0. data' = data /\ disk' = disk /\ write' = write /\ head' = head /\ inflight' = inflight
        /\ pinned' = pinned
    BY <1>2 DEF rings
  <2>1. \A q \in Proc : q # p \/ ~(st'[q] \in DriverStatus \cup {"held", "written"})
    BY <1>9 DEF DriverStatus
  <2>2. \A q \in Proc : st'[q] \in DriverStatus \cup {"held", "written"} =>
          buf[q] # None /\ buf'[q] = buf[q] /\ st'[q] = st[q] /\ blk'[buf[q]] = blk[buf[q]]
          /\ valid'[buf[q]] = valid[buf[q]]
    BY <1>8, <2>1 DEF Users, DriverStatus
  <2>3. \A q \in Proc : InRw(q)' => (valid'[buf'[q]] <=> write'[q])
    BY <2>0, <2>2 DEF Clean, InRw
  <2>4. \A q \in Proc : st'[q] \in {"held", "written"} => valid'[buf'[q]]
    BY <2>2 DEF Clean
  <2>5. \A q \in Requesting' : head'[q] \notin (Coming \cup inflight)' =>
          data'[buf'[q]] = disk'[blk'[buf'[q]]]
    BY <2>0, <2>2, <1>6, <1>7 DEF Clean, SameRequests
  <2>6. \A q \in Proc : st'[q] = "written" => data'[buf'[q]] = disk'[blk'[buf'[q]]]
    BY <2>0, <2>2 DEF Clean
  <2>7. ASSUME NEW j \in Buf, blk'[j] # None, valid'[j], blk'[j] \notin pinned'
        PROVE  \/ data'[j] = disk'[blk'[j]]
               \/ \E q \in Proc : buf'[q] = j /\ InRw(q)' /\ write'[q]
    <3>1. blk'[j] = blk[j] /\ valid[j]
      BY <1>1, <1>10, <2>7 DEF FlagType
    <3>2. CASE data[j] = disk[blk[j]]
      BY <3>1, <3>2, <2>0
    <3>3. CASE \E q \in Proc : buf[q] = j /\ InRw(q) /\ write[q]
      <4>1. PICK q \in Proc : buf[q] = j /\ InRw(q) /\ write[q]
        BY <3>3
      <4>2. q # p
        BY <4>1, <1>2 DEF InRw, DriverStatus
      <4> QED
        BY <4>1, <4>2, <1>8, <2>0 DEF InRw
    <3> QED
      BY <3>1, <3>2, <3>3, <2>0, <2>7 DEF Clean
  <2> QED
    BY <2>3, <2>4, <2>5, <2>6, <2>7 DEF Clean
<1> QED
  BY <1>3, <1>4, <1>5, <1>7, <1>11, <1>12, <1>13

\* acquiresleep() sleeps while somebody has the lock, and takes it else.
LEMMA AcquireStep ==
    ASSUME IInv, NEW p \in Proc, AcquireSleep(p)
    PROVE  IInv'
<1> USE DEF IInv, Types
<1> DEFINE i == buf[p]
<1>1. /\ st[p] = "lock" /\ i \in Buf
      /\ UNCHANGED <<disk, blk, data, owned, free, desc, ops, info, rings, buf, head,
                     lost, valid, refcnt, lru, pinned>>
      /\ \A q \in Proc : q # p => st'[q] = st[q] /\ write'[q] = write[q]
  BY HolderAlone DEF AcquireSleep, MemoryType, FlagType
<1>2. \/ /\ lock[i] # None /\ lock' = lock /\ write' = write
         /\ st'[p] = "asleep"
      \/ /\ lock[i] = None /\ lock' = [lock EXCEPT ![i] = p]
         /\ write' = [write EXCEPT ![p] = FALSE]
         /\ \/ st'[p] = "held" /\ valid[i]
            \/ st'[p] = "rw" /\ ~valid[i]
  BY DEF AcquireSleep, MustSleep, MemoryType
<1>3. MemoryType'
  BY <1>1, <1>2 DEF MemoryType, Status, DriverStatus, AcquireSleep
<1>4. FlagType'
  BY <1>1, <1>2 DEF FlagType, rings
<1>5. SameRequests
  <2>1. p \notin Requesting /\ p \notin Requesting'
    BY <1>1, <1>2 DEF Requesting
  <2>2. Requesting' = Requesting
    BY <1>1, <2>1 DEF Requesting
  <2> QED
    BY <1>1, <2>1, <2>2 DEF SameRequests, Requesting
<1>6. Shared' /\ Tracked' /\ DescType' /\ RingType' /\ Coming' = Coming
  BY <1>5, RequestsFrame
<1>7. LruType' /\ Refs'
  BY <1>1 DEF LruType, Refs
<1>8. Users'
  <2>1. CASE lock[i] # None /\ lock' = lock /\ st'[p] = "asleep"
    BY <1>1, <2>1 DEF Users, LockSleepers, HasLock, MemoryType, Asleep
  <2>2. CASE /\ lock[i] = None /\ lock' = [lock EXCEPT ![i] = p]
             /\ st'[p] \in {"held", "rw"}
    <3>1. p # None
      BY VirtioAssumption
    <3> QED
      <4>0. /\ lock'[i] = p /\ buf' = buf /\ blk' = blk /\ pinned' = pinned
            /\ \A j \in Buf : j # i => lock'[j] = lock[j]
        BY <1>1, <2>2 DEF MemoryType
      <4>1. \A q \in Proc : buf'[q] = None <=> st'[q] = "idle"
        BY <4>0, <1>1, <2>2, VirtioAssumption DEF Users
      <4>2. \A q \in Proc : st'[q] # "idle" => blk'[buf'[q]] # None
        BY <4>0, <1>1, <2>2 DEF Users
      <4>3. ASSUME NEW q \in Proc, st'[q] \in HasLock PROVE lock'[buf'[q]] = q
        <5>1. CASE q = p
          BY <5>1, <4>0
        <5>2. CASE q # p
          <6>1. st[q] \in HasLock /\ lock[buf[q]] = q /\ buf[q] \in Buf
            BY <5>2, <4>3, <1>1, HolderAlone DEF Users, HasLock
          <6>2. q # None
            BY VirtioAssumption
          <6> QED
            BY <6>1, <6>2, <4>0, <2>2
        <5> QED
          BY <5>1, <5>2
      <4>4. ASSUME NEW j \in Buf, lock'[j] # None
            PROVE  st'[lock'[j]] \in HasLock /\ buf'[lock'[j]] = j
        <5>1. CASE j = i
          BY <5>1, <4>0, <2>2 DEF HasLock
        <5>2. CASE j # i
          <6>1. lock[j] \in Proc /\ lock[j] # None /\ lock'[j] = lock[j]
            BY <5>2, <4>0, <4>4 DEF MemoryType
          <6>2. st[lock[j]] \in HasLock /\ buf[lock[j]] = j
            BY <6>1 DEF Users
          <6> QED
            BY <6>1, <6>2, <5>2, <4>0, <1>1
        <5> QED
          BY <5>1, <5>2
      <4>5. LockSleepers'
        BY <4>0, <1>1, <2>2, <3>1 DEF Users, LockSleepers, MemoryType, Asleep
      <4>6. (\A j, k \in Buf : blk[j] = blk[k] /\ blk[j] # None => j = k)'
            /\ (\A c \in pinned : \E j \in Buf : blk[j] = c)'
        BY <4>0 DEF Users
      <4> QED
        BY <4>1, <4>2, <4>3, <4>4, <4>5, <4>6 DEF Users
  <2> QED
    BY <1>2, <2>1, <2>2
<1>9. Clean'
  <2>0. inflight' = inflight
    BY <1>1 DEF rings
  <2>1. \A q \in Proc : InRw(q)' => (valid'[buf'[q]] <=> write'[q])
    BY <1>1, <1>2 DEF Clean, InRw, DriverStatus, FlagType
  <2>2. \A q \in Proc : st'[q] \in {"held", "written"} => valid'[buf'[q]]
    BY <1>1, <1>2 DEF Clean
  <2>3. \A q \in Requesting' : head'[q] \notin (Coming \cup inflight)' =>
          data'[buf'[q]] = disk'[blk'[buf'[q]]]
    BY <1>1, <2>0, <1>5, <1>6 DEF Clean, SameRequests
  <2>4. \A q \in Proc : st'[q] = "written" => data'[buf'[q]] = disk'[blk'[buf'[q]]]
    BY <1>1, <1>2 DEF Clean
  <2>5. \A q \in Proc : InRw(q) /\ write[q] => InRw(q)' /\ write'[q]
    BY <1>1 DEF InRw, DriverStatus
  <2>6. \A j \in Buf : blk'[j] # None /\ valid'[j] /\ blk'[j] \notin pinned' =>
          \/ data'[j] = disk'[blk'[j]]
          \/ \E q \in Proc : buf'[q] = j /\ InRw(q)' /\ write'[q]
    BY <1>1, <2>5 DEF Clean
  <2> QED
    BY <2>1, <2>2, <2>3, <2>4, <2>6 DEF Clean
<1> QED
  BY <1>3, <1>4, <1>6, <1>7, <1>8, <1>9

\* log_write() pins the block whose contents its holder has changed.
LEMMA LogWriteStep ==
    ASSUME IInv, NEW p \in Proc, NEW v \in Val, LogWrite(p, v)
    PROVE  IInv'
<1> USE DEF IInv, Types
<1> DEFINE i == buf[p]
           b == blk[buf[p]]
<1>1. /\ st[p] = "held" /\ i \in Buf /\ b \in Block
      /\ data' = [data EXCEPT ![i] = v] /\ pinned' = pinned \cup {b}
      /\ refcnt' = [refcnt EXCEPT ![i] = IF b \notin pinned THEN refcnt[i] + 1 ELSE refcnt[i]]
      /\ UNCHANGED <<disk, blk, owned, free, desc, ops, info, rings, st, buf, write, head,
                     lost, valid, lock, lru>>
  BY HolderAlone DEF LogWrite, Pins
<1>2. MemoryType' /\ FlagType' /\ LruType'
  <2>1. MemoryType'
    BY <1>1 DEF MemoryType
  <2>2. FlagType' /\ LruType'
    BY <1>1 DEF FlagType, LruType, rings
  <2> QED
    BY <2>1, <2>2
<1>3. SameRequests
  BY <1>1 DEF SameRequests, Requesting
<1>4. Shared' /\ Tracked' /\ DescType' /\ RingType' /\ Coming' = Coming
  BY <1>3, RequestsFrame
<1>5. Users'
  BY <1>1 DEF Users, LockSleepers, Asleep
<1>6. \A j \in Buf : j # i => blk[j] # b
  BY <1>1, VirtioAssumption DEF Users
<1>7. Refs'
  <2>1. refcnt' \in [Buf -> Nat]
    BY <1>1 DEF Refs
  <2>2. ASSUME NEW j \in Buf
        PROVE  refcnt'[j] = Cardinality(UsersOf(buf', j))
                            + (IF blk'[j] \in pinned' THEN 1 ELSE 0)
    <3>1. Cardinality(UsersOf(buf, j)) \in Nat /\ UsersOf(buf', j) = UsersOf(buf, j)
      BY <1>1, UserCount DEF UsersOf
    <3>2. refcnt[j] = Cardinality(UsersOf(buf, j)) + (IF blk[j] \in pinned THEN 1 ELSE 0)
      BY DEF Refs
    <3>3. CASE j = i
      <4>1. refcnt'[j] = IF b \notin pinned THEN refcnt[j] + 1 ELSE refcnt[j]
        BY <1>1, <3>3 DEF Refs
      <4>2. blk'[j] \in pinned' /\ blk[j] = b
        BY <1>1, <3>3
      <4> QED
        BY <3>1, <3>2, <4>1, <4>2
    <3>4. CASE j # i
      <4>1. refcnt'[j] = refcnt[j]
        BY <1>1, <3>4 DEF Refs
      <4>2. blk'[j] \in pinned' <=> blk[j] \in pinned
        BY <1>1, <1>6, <3>4
      <4> QED
        BY <3>1, <3>2, <4>1, <4>2
    <3> QED
      BY <3>3, <3>4
  <2> QED
    BY <2>1, <2>2 DEF Refs
<1>8. Clean'
  <2>1. \A j \in Buf : j # i => data'[j] = data[j]
    BY <1>1 DEF MemoryType
  <2>2. \A q \in Proc : q \in Requesting \/ st[q] = "written" => buf[q] \in Buf /\ buf[q] # i
    BY <1>1, HolderAlone DEF Requesting, HasLock
  <2>3. \A q \in Requesting' : head'[q] \notin (Coming \cup inflight)' =>
          data'[buf'[q]] = disk'[blk'[buf'[q]]]
    <3>1. /\ Requesting' = Requesting /\ head' = head /\ inflight' = inflight
          /\ Coming' = Coming /\ disk' = disk /\ blk' = blk /\ buf' = buf
      BY <1>1, <1>3, <1>4 DEF SameRequests, rings
    <3>2. \A q \in Requesting : data'[buf[q]] = data[buf[q]] /\ q \in Proc
      BY <2>1, <2>2 DEF Requesting
    <3> QED
      BY <3>1, <3>2 DEF Clean
  <2>4. \A q \in Proc : st'[q] = "written" => data'[buf'[q]] = disk'[blk'[buf'[q]]]
    BY <1>1, <2>1, <2>2 DEF Clean
  <2>5. ASSUME NEW j \in Buf, blk'[j] # None, valid'[j], blk'[j] \notin pinned'
        PROVE  \/ data'[j] = disk'[blk'[j]]
               \/ \E q \in Proc : buf'[q] = j /\ InRw(q)' /\ write'[q]
    <3>1. j # i /\ blk[j] # None /\ valid[j] /\ blk[j] \notin pinned
      BY <1>1, <2>5
    <3> QED
      BY <3>1, <1>1, <2>1 DEF Clean, InRw
  <2>6. /\ \A q \in Proc : InRw(q)' => (valid'[buf'[q]] <=> write'[q])
        /\ \A q \in Proc : st'[q] \in {"held", "written"} => valid'[buf'[q]]
    BY <1>1 DEF Clean, InRw
  <2> QED
    BY <2>3, <2>4, <2>5, <2>6 DEF Clean
<1> QED
  BY <1>2, <1>4, <1>5, <1>7, <1>8

\* bwrite() changes an unpinned block, or writes out a pinned one.
LEMMA BwriteStep ==
    ASSUME IInv, NEW p \in Proc, NEW v \in Val, Bwrite(p, v)
    PROVE  IInv'
<1> USE DEF IInv, Types
<1> DEFINE i == buf[p]
<1>1. /\ st[p] = "held" /\ i \in Buf
      /\ data' = [data EXCEPT ![i] = v]
      /\ write' = [write EXCEPT ![p] = TRUE] /\ st' = [st EXCEPT ![p] = "rw"]
      /\ UNCHANGED <<disk, blk, owned, free, desc, ops, info, rings, buf, head,
                     lost, valid, refcnt, lock, lru, pinned>>
  BY HolderAlone DEF Bwrite, bvars
<1>2. MemoryType'
  BY <1>1 DEF MemoryType, Status, DriverStatus
<1>3. FlagType'
  BY <1>1 DEF FlagType, rings
<1>4. SameRequests
  <2>1. Requesting' = Requesting /\ p \notin Requesting
    BY <1>1 DEF Requesting, MemoryType
  <2>2. \A q \in Requesting : write'[q] = write[q]
    BY <1>1, <2>1 DEF Requesting, FlagType
  <2> QED
    BY <1>1, <2>1, <2>2 DEF SameRequests
<1>5. Shared' /\ Tracked' /\ DescType' /\ RingType' /\ Coming' = Coming
  BY <1>4, RequestsFrame
<1>6. SameUsers
  BY <1>1 DEF SameUsers, HasLock, MemoryType
<1>7. Users' /\ Refs' /\ LruType'
  BY <1>6, UsersFrame
<1>8. Clean'
  <2>1. \A j \in Buf : j # i => data'[j] = data[j]
    BY <1>1 DEF MemoryType
  <2>2. \A q \in Proc : q # p => st'[q] = st[q] /\ write'[q] = write[q]
    BY <1>1 DEF MemoryType, FlagType
  <2>3. st'[p] = "rw" /\ write'[p] /\ valid[i]
    BY <1>1 DEF MemoryType, FlagType, Clean
  <2>4. \A q \in Proc : q \in Requesting \/ st[q] = "written" => buf[q] \in Buf /\ buf[q] # i
    BY <1>1, HolderAlone DEF Requesting, HasLock
  <2>5. \A q \in Requesting' : head'[q] \notin (Coming \cup inflight)' =>
          data'[buf'[q]] = disk'[blk'[buf'[q]]]
    <3>1. /\ Requesting' = Requesting /\ head' = head /\ inflight' = inflight
          /\ Coming' = Coming /\ disk' = disk /\ blk' = blk /\ buf' = buf
      BY <1>1, <1>4, <1>5 DEF SameRequests, rings
    <3>2. \A q \in Requesting : data'[buf[q]] = data[buf[q]] /\ q \in Proc
      BY <2>1, <2>4 DEF Requesting
    <3> QED
      BY <3>1, <3>2 DEF Clean
  <2>6. \A q \in Proc : st'[q] = "written" => data'[buf'[q]] = disk'[blk'[buf'[q]]]
    BY <1>1, <2>1, <2>2, <2>3, <2>4 DEF Clean
  <2>7. \A q \in Proc : InRw(q)' => (valid'[buf'[q]] <=> write'[q])
    BY <1>1, <2>2, <2>3 DEF Clean, InRw
  <2>8. \A q \in Proc : st'[q] \in {"held", "written"} => valid'[buf'[q]]
    BY <1>1, <2>2, <2>3 DEF Clean
  <2>9. ASSUME NEW j \in Buf, blk'[j] # None, valid'[j], blk'[j] \notin pinned'
        PROVE  \/ data'[j] = disk'[blk'[j]]
               \/ \E q \in Proc : buf'[q] = j /\ InRw(q)' /\ write'[q]
    <3>1. CASE j = i
      BY <3>1, <1>1, <2>3 DEF InRw, DriverStatus
    <3>2. CASE j # i
      <4>1. data'[j] = data[j] /\ blk'[j] = blk[j] /\ disk' = disk /\ valid[j]
            /\ blk[j] \notin pinned /\ blk[j] # None
        BY <3>2, <1>1, <2>1, <2>9
      <4>2. \A q \in Proc : buf[q] = j /\ InRw(q) /\ write[q] =>
                            buf'[q] = j /\ InRw(q)' /\ write'[q]
        BY <1>1, <2>2, <2>3, <3>2 DEF InRw
      <4> QED
        BY <4>1, <4>2 DEF Clean
    <3> QED
      BY <3>1, <3>2
  <2> QED
    BY <2>5, <2>6, <2>7, <2>8, <2>9 DEF Clean
<1> QED
  BY <1>2, <1>3, <1>5, <1>7, <1>8

\* bunpin() gives back the reference of log_write() once the block is written.
LEMMA BunpinStep ==
    ASSUME IInv, NEW p \in Proc, Bunpin(p)
    PROVE  IInv'
<1> USE DEF IInv, Types
<1> DEFINE i == buf[p]
           b == blk[buf[p]]
<1>1. /\ st[p] = "written" /\ i \in Buf /\ b \in Block /\ b \in pinned
      /\ refcnt' = [refcnt EXCEPT ![i] = refcnt[i] - 1] /\ pinned' = pinned \ {b}
      /\ UNCHANGED <<valid, lock, lru>>
  BY HolderAlone DEF Bunpin
<1>2. UNCHANGED <<disk, blk, data, owned, free, desc, ops, info, rings, st, buf, write, head,
                  lost>>
  BY DEF Bunpin, dvars, rings
<1>3. MemoryType' /\ FlagType' /\ LruType'
  <2>1. MemoryType'
    BY <1>1, <1>2 DEF MemoryType
  <2>2. FlagType' /\ LruType'
    BY <1>1, <1>2 DEF FlagType, LruType, rings
  <2> QED
    BY <2>1, <2>2
<1>4. SameRequests
  BY <1>2 DEF SameRequests, Requesting
<1>5. Shared' /\ Tracked' /\ DescType' /\ RingType' /\ Coming' = Coming
  BY <1>4, RequestsFrame
<1>6. Users'
  BY <1>1, <1>2 DEF Users, LockSleepers, Asleep
<1>7. \A j \in Buf : j # i => blk[j] # b
  BY <1>1, VirtioAssumption DEF Users
<1>8. Refs'
  <2>1. ASSUME NEW j \in Buf
        PROVE  /\ refcnt'[j] = Cardinality(UsersOf(buf', j))
                               + (IF blk'[j] \in pinned' THEN 1 ELSE 0)
               /\ refcnt'[j] \in Nat
    <3>1. Cardinality(UsersOf(buf, j)) \in Nat /\ UsersOf(buf', j) = UsersOf(buf, j)
      BY <1>2, UserCount DEF UsersOf
    <3>2. refcnt[j] = Cardinality(UsersOf(buf, j)) + (IF blk[j] \in pinned THEN 1 ELSE 0)
      BY DEF Refs
    <3>3. CASE j = i
      <4>1. refcnt'[j] = refcnt[j] - 1
        BY <1>1, <3>3 DEF Refs
      <4>2. blk'[j] \notin pinned' /\ blk[j] \in pinned
        BY <1>1, <1>2, <3>3
      <4> QED
        BY <3>1, <3>2, <4>1, <4>2
    <3>4. CASE j # i
      <4>1. refcnt'[j] = refcnt[j]
        BY <1>1, <3>4 DEF Refs
      <4>2. blk'[j] \in pinned' <=> blk[j] \in pinned
        BY <1>1, <1>2, <1>7, <3>4
      <4> QED
        BY <3>1, <3>2, <4>1, <4>2
    <3> QED
      BY <3>3, <3>4
  <2>2. refcnt' \in [Buf -> Nat]
    BY <2>1, <1>1 DEF Refs
  <2> QED
    BY <2>1, <2>2 DEF Refs
<1>9. Clean'
  <2>1. /\ \A q \in Proc : InRw(q)' => (valid'[buf'[q]] <=> write'[q])
        /\ \A q \in Proc : st'[q] \in {"held", "written"} => valid'[buf'[q]]
        /\ \A q \in Proc : st'[q] = "written" => data'[buf'[q]] = disk'[blk'[buf'[q]]]
    BY <1>1, <1>2 DEF Clean, InRw
  <2>2. \A q \in Requesting' : head'[q] \notin (Coming \cup inflight)' =>
          data'[buf'[q]] = disk'[blk'[buf'[q]]]
    BY <1>2, <1>4, <1>5 DEF Clean, SameRequests, rings
  <2>3. ASSUME NEW j \in Buf, blk'[j] # None, valid'[j], blk'[j] \notin pinned'
        PROVE  \/ data'[j] = disk'[blk'[j]]
               \/ \E q \in Proc : buf'[q] = j /\ InRw(q)' /\ write'[q]
    <3>1. CASE j = i
      BY <3>1, <1>1, <1>2 DEF Clean
    <3>2. CASE j # i
      <4>1. blk[j] # None /\ valid[j] /\ blk[j] \notin pinned
        BY <3>2, <2>3, <1>1, <1>2, <1>7
      <4> QED
        BY <4>1, <1>2 DEF Clean, InRw
    <3> QED
      BY <3>1, <3>2
  <2> QED
    BY <2>1, <2>2, <2>3 DEF Clean
<1> QED
  BY <1>3, <1>5, <1>6, <1>8, <1>9

\* What the steps leave alone that change neither the requests nor what is in
\* the buffers and on the disk, and move no process in or out of the driver.
LEMMA CleanFrame ==
    ASSUME Clean, SameRequests, Coming' = Coming,
           UNCHANGED <<disk, blk, data, valid, write, pinned>>,
           \A q \in Proc : /\ InRw(q)' <=> InRw(q)
                           /\ st'[q] \in {"held", "written"} => st'[q] = st[q]
                           /\ st'[q] \in DriverStatus \cup {"held", "written"} =>
                                buf'[q] = buf[q]
    PROVE  Clean'
<1>1. \A q \in Proc : InRw(q)' => (valid'[buf'[q]] <=> write'[q])
  BY DEF Clean, InRw
<1>2. \A q \in Proc : st'[q] \in {"held", "written"} => valid'[buf'[q]]
  BY DEF Clean
<1>3. \A q \in Proc : st'[q] = "written" => data'[buf'[q]] = disk'[blk'[buf'[q]]]
  BY DEF Clean
<1>4. \A q \in Requesting' : head'[q] \notin (Coming \cup inflight)' =>
        data'[buf'[q]] = disk'[blk'[buf'[q]]]
  BY DEF Clean, SameRequests, rings
<1>5. \A q \in Proc : InRw(q) => InRw(q)' /\ buf'[q] = buf[q]
  BY DEF InRw
<1>6. \A i \in Buf : blk'[i] # None /\ valid'[i] /\ blk'[i] \notin pinned' =>
         \/ data'[i] = disk'[blk'[i]]
         \/ \E q \in Proc : buf'[q] = i /\ InRw(q)' /\ write'[q]
  BY <1>5 DEF Clean
<1> QED
  BY <1>1, <1>2, <1>3, <1>4, <1>6 DEF Clean

\* releasesleep() wakes everybody who sleeps on the lock it frees.
LEMMA ReleaseStep ==
    ASSUME IInv, NEW p \in Proc, ReleaseSleep(p)
    PROVE  IInv'
<1> USE DEF IInv, Types
<1> DEFINE i == buf[p]
<1>1. /\ st[p] \in {"held", "written"} /\ i \in Buf
      /\ lock' = [lock EXCEPT ![i] = None]
      /\ st' = [WakeLock(i) EXCEPT ![p] = "unref"]
      /\ UNCHANGED <<disk, blk, data, owned, free, desc, ops, info, rings, buf, write, head,
                     lost, valid, refcnt, lru, pinned>>
  BY HolderAlone DEF ReleaseSleep
<1>2. /\ st'[p] = "unref" /\ lock'[i] = None
      /\ \A j \in Buf : j # i => lock'[j] = lock[j]
      /\ \A q \in Proc : q # p => \/ st'[q] = st[q] /\ ~(Asleep(q, "asleep") /\ buf[q] = i)
                                  \/ st[q] = "asleep" /\ buf[q] = i /\ st'[q] = "lock"
  BY <1>1 DEF WakeLock, MemoryType, Asleep
<1>3. MemoryType'
  BY <1>1 DEF MemoryType, Status, WakeLock, Asleep
<1>4. FlagType'
  BY <1>1 DEF FlagType, rings
<1>5. SameRequests
  <2>1. Requesting' = Requesting
    BY <1>1, <1>2 DEF Requesting
  <2> QED
    BY <1>1, <2>1 DEF SameRequests
<1>6. Shared' /\ Tracked' /\ DescType' /\ RingType' /\ Coming' = Coming
  BY <1>5, RequestsFrame
<1>7. LruType' /\ Refs'
  BY <1>1 DEF LruType, Refs
<1>8. Users'
  <2>1. \A q \in Proc : buf'[q] = None <=> st'[q] = "idle"
    BY <1>1, <1>2, VirtioAssumption DEF Users
  <2>2. \A q \in Proc : st'[q] # "idle" => blk'[buf'[q]] # None
    BY <1>1, <1>2 DEF Users
  <2>3. ASSUME NEW q \in Proc, st'[q] \in HasLock PROVE lock'[buf'[q]] = q
    <3>1. q # p /\ st[q] = st'[q] /\ buf[q] \in Buf
      BY <2>3, <1>2, HolderAlone DEF HasLock
    <3>2. buf[q] # i
      BY <3>1, <2>3, <1>1, HolderAlone DEF HasLock
    <3> QED
      BY <3>1, <3>2, <2>3, <1>1, <1>2 DEF Users
  <2>4. ASSUME NEW j \in Buf, lock'[j] # None
        PROVE  st'[lock'[j]] \in HasLock /\ buf'[lock'[j]] = j
    <3>1. j # i /\ lock'[j] = lock[j] /\ lock[j] \in Proc
      BY <2>4, <1>2 DEF MemoryType
    <3>2. st[lock[j]] \in HasLock /\ buf[lock[j]] = j
      BY <3>1, <2>4 DEF Users
    <3>3. lock[j] # p /\ st[lock[j]] # "asleep"
      BY <3>1, <3>2 DEF HasLock
    <3> QED
      BY <3>1, <3>2, <3>3, <1>1, <1>2
  <2>5. LockSleepers'
    <3> SUFFICES ASSUME NEW q \in Proc, Asleep(q, "asleep")' PROVE lock'[buf'[q]] # None
      BY DEF LockSleepers, Asleep
    <3>1. q # p /\ Asleep(q, "asleep") /\ buf[q] # i /\ buf[q] \in Buf
      BY <1>1, <1>2, HolderAlone DEF Asleep
    <3> QED
      BY <3>1, <1>1, <1>2 DEF Users, LockSleepers, Asleep
  <2>6. (\A j, k \in Buf : blk[j] = blk[k] /\ blk[j] # None => j = k)'
        /\ (\A c \in pinned : \E j \in Buf : blk[j] = c)'
    BY <1>1 DEF Users
  <2> QED
    BY <2>1, <2>2, <2>3, <2>4, <2>5, <2>6 DEF Users
<1>9. Clean'
  <2>1. \A q \in Proc : /\ InRw(q)' <=> InRw(q)
                        /\ st'[q] \in {"held", "written"} => st'[q] = st[q]
    BY <1>1, <1>2 DEF InRw, DriverStatus
  <2> QED
    BY <2>1, <1>1, <1>5, <1>6, CleanFrame
<1> QED
  BY <1>3, <1>4, <1>6, <1>7, <1>8, <1>9

\* The end of brelse(): the last reference moves the buffer to the front.
LEMMA UnrefStep ==
    ASSUME IInv, NEW p \in Proc, Unref(p)
    PROVE  IInv'
<1> USE DEF IInv, Types
<1> DEFINE i == buf[p]
<1>1. /\ st[p] = "unref" /\ i \in Buf
      /\ refcnt' = [refcnt EXCEPT ![i] = refcnt[i] - 1]
      /\ lru' = MoveToFront(i) \/ lru' = lru
      /\ buf' = [buf EXCEPT ![p] = None] /\ st' = [st EXCEPT ![p] = "idle"]
      /\ UNCHANGED <<disk, blk, data, owned, free, desc, ops, info, rings, write, head,
                     lost, valid, lock, pinned>>
  BY HolderAlone DEF Unref
<1>2. /\ st'[p] = "idle" /\ buf'[p] = None
      /\ \A q \in Proc : q # p => st'[q] = st[q] /\ buf'[q] = buf[q]
  BY <1>1 DEF MemoryType
<1>3. MemoryType'
  BY <1>1 DEF MemoryType, Status
<1>4. FlagType'
  BY <1>1 DEF FlagType, rings
<1>5. LruType'
  <2>1. CASE lru' = lru
    BY <2>1 DEF LruType
  <2>2. CASE lru' = MoveToFront(i)
    <3> HIDE DEF i
    <3>1. /\ lru' \in [1 .. Cardinality(Buf) -> Buf]
          /\ \A j \in Buf : \E k \in 1 .. Cardinality(Buf) : lru'[k] = j
      BY <2>2, <1>1, FrontType
    <3> QED
      BY <3>1 DEF LruType
  <2> QED
    BY <2>1, <2>2, <1>1
<1>6. SameRequests
  <2>1. Requesting' = Requesting /\ p \notin Requesting
    BY <1>1, <1>2 DEF Requesting
  <2> QED
    BY <1>1, <1>2, <2>1 DEF SameRequests, Requesting
<1>7. Shared' /\ Tracked' /\ DescType' /\ RingType' /\ Coming' = Coming
  BY <1>6, RequestsFrame
<1>8. Users'
  <2>1. \A q \in Proc : buf'[q] = None <=> st'[q] = "idle"
    BY <1>2 DEF Users
  <2>2. \A q \in Proc : st'[q] # "idle" => blk'[buf'[q]] # None
    BY <1>1, <1>2 DEF Users
  <2>3. \A q \in Proc : st'[q] \in HasLock => lock'[buf'[q]] = q
    BY <1>1, <1>2 DEF Users, HasLock
  <2>4. \A j \in Buf : lock'[j] # None => st'[lock'[j]] \in HasLock /\ buf'[lock'[j]] = j
    BY <1>1, <1>2 DEF Users, HasLock, MemoryType
  <2>5. LockSleepers'
    BY <1>1, <1>2 DEF Users, LockSleepers, Asleep
  <2>6. (\A j, k \in Buf : blk[j] = blk[k] /\ blk[j] # None => j = k)'
        /\ (\A c \in pinned : \E j \in Buf : blk[j] = c)'
    BY <1>1 DEF Users
  <2> QED
    BY <2>1, <2>2, <2>3, <2>4, <2>5, <2>6 DEF Users
<1>9. Refs'
  <2>1. ASSUME NEW j \in Buf
        PROVE  /\ refcnt'[j] = Cardinality(UsersOf(buf', j))
                               + (IF blk'[j] \in pinned' THEN 1 ELSE 0)
               /\ refcnt'[j] \in Nat
    <3>0. UsersOf(buf', j) \in SUBSET Proc
      BY DEF UsersOf
    <3>1. Cardinality(UsersOf(buf', j)) \in Nat
      BY <3>0, UserCount
    <3>2. refcnt[j] = Cardinality(UsersOf(buf, j)) + (IF blk[j] \in pinned THEN 1 ELSE 0)
      BY DEF Refs
    <3>3. blk'[j] \in pinned' <=> blk[j] \in pinned
      BY <1>1
    <3>4. CASE j = i
      <4>1. refcnt'[j] = refcnt[j] - 1
        BY <1>1, <3>4 DEF Refs
      <4>2. UsersOf(buf, j) = UsersOf(buf', j) \cup {p} /\ p \notin UsersOf(buf', j)
        BY <1>1, <1>2, <3>4, VirtioAssumption DEF UsersOf
      <4>3. Cardinality(UsersOf(buf, j)) = Cardinality(UsersOf(buf', j)) + 1
        BY <3>0, <4>2, UserCount
      <4> QED
        BY <3>1, <3>2, <3>3, <4>1, <4>3
    <3>5. CASE j # i
      <4>1. refcnt'[j] = refcnt[j]
        BY <1>1, <3>5 DEF Refs
      <4>2. UsersOf(buf', j) = UsersOf(buf, j)
        BY <1>1, <1>2, <3>5, VirtioAssumption DEF UsersOf
      <4> QED
        BY <3>1, <3>2, <3>3, <4>1, <4>2
    <3> QED
      BY <3>4, <3>5
  <2>2. refcnt' \in [Buf -> Nat]
    BY <2>1, <1>1 DEF Refs
  <2> QED
    BY <2>1, <2>2 DEF Refs
<1>10. Clean'
  <2>1. \A q \in Proc : /\ InRw(q)' <=> InRw(q)
                        /\ st'[q] \in {"held", "written"} => st'[q] = st[q]
                        /\ st'[q] \in DriverStatus \cup {"held", "written"} =>
                             buf'[q] = buf[q]
    BY <1>1, <1>2 DEF InRw, DriverStatus
  <2> QED
    BY <2>1, <1>1, <1>6, <1>7, CleanFrame
<1> QED
  BY <1>3, <1>4, <1>5, <1>7, <1>8, <1>9, <1>10

-----------------------------------------------------------------------------
(* The driver's sleeps.                                                    *)

\* A sleeper is woken, or goes back to sleep, inside virtio_disk_rw() or
\* acquiresleep(), and nothing else changes.
LEMMA SleepStep ==
    ASSUME IInv,
           UNCHANGED <<disk, blk, data, owned, free, desc, ops, info, rings, buf, write,
                       head, bvars>>,
           lost' \in SUBSET Proc, lost \subseteq lost',
           st' \in [Proc -> Status],
           \A q \in Proc : \/ st'[q] = st[q]
                           \/ st[q] \in {"rw", "nofree"} /\ st'[q] \in {"rw", "nofree"}
                           \/ st[q] \in {"wait", "done"} /\ st'[q] \in {"wait", "done"}
                           \/ st[q] = "asleep" /\ st'[q] = "lock"
    PROVE  IInv'
<1> USE DEF IInv, Types, bvars
<1>1. MemoryType' /\ FlagType' /\ LruType' /\ Refs'
  <2>1. MemoryType'
    BY DEF MemoryType
  <2>2. FlagType' /\ LruType' /\ Refs'
    BY DEF FlagType, LruType, Refs, rings
  <2> QED
    BY <2>1, <2>2
<1>2. SameRequests
  BY DEF SameRequests, Requesting
<1>3. Shared' /\ Tracked' /\ DescType' /\ RingType' /\ Coming' = Coming
  BY <1>2, RequestsFrame
<1>4. Users'
  <2>1. \A q \in Proc : /\ st'[q] = "idle" <=> st[q] = "idle"
                        /\ st'[q] \in HasLock <=> st[q] \in HasLock
                        /\ st'[q] = "asleep" => st[q] = "asleep"
    BY DEF HasLock
  <2> QED
    BY <2>1 DEF Users, LockSleepers, MemoryType, Asleep
<1>5. Clean'
  <2>1. \A q \in Proc : /\ InRw(q)' <=> InRw(q)
                        /\ st'[q] \in {"held", "written"} => st'[q] = st[q]
    BY DEF InRw, DriverStatus
  <2> QED
    BY <2>1, <1>2, <1>3, CleanFrame
<1> QED
  BY <1>1, <1>3, <1>4, <1>5

\* kill() and the re-test of b->disk.
LEMMA WakeSteps ==
    ASSUME IInv, NEW p \in Proc, Kill(p) \/ (RwAgain(p) /\ UNCHANGED bvars)
    PROVE  IInv'
<1>1. st \in [Proc -> Status] /\ lost \in SUBSET Proc
  BY DEF IInv, Types, MemoryType
<1>2. CASE Kill(p)
  <2>1. /\ st' \in [Proc -> Status]
        /\ \A q \in Proc : \/ st'[q] = st[q]
                           \/ st[q] \in {"rw", "nofree"} /\ st'[q] \in {"rw", "nofree"}
                           \/ st[q] \in {"wait", "done"} /\ st'[q] \in {"wait", "done"}
                           \/ st[q] = "asleep" /\ st'[q] = "lock"
    BY <1>1, <1>2 DEF Kill, Status, DriverStatus, Asleep
  <2> QED
    BY <1>1, <1>2, <2>1, SleepStep DEF Kill
<1>3. CASE RwAgain(p) /\ UNCHANGED bvars
  <2>1. /\ st' \in [Proc -> Status]
        /\ \A q \in Proc : \/ st'[q] = st[q]
                           \/ st[q] \in {"rw", "nofree"} /\ st'[q] \in {"rw", "nofree"}
                           \/ st[q] \in {"wait", "done"} /\ st'[q] \in {"wait", "done"}
                           \/ st[q] = "asleep" /\ st'[q] = "lock"
    BY <1>1, <1>3 DEF RwAgain, Status, DriverStatus
  <2> QED
    BY <1>1, <1>3, <2>1, SleepStep DEF RwAgain
<1> QED
  BY <1>2, <1>3

\* alloc3_desc() fails: the process sleeps, and may wake the others that do.
LEMMA NoDescriptorsStep ==
    ASSUME IInv, NEW p \in Proc, st[p] = "rw", NoDescriptors(p),
           UNCHANGED <<disk, blk, data, buf, write, lost, bvars>>
    PROVE  IInv'
<1>1. st \in [Proc -> Status] /\ lost \in SUBSET Proc
  BY DEF IInv, Types, MemoryType
<1>2. WakeFree \in [Proc -> Status]
      /\ \A q \in Proc : WakeFree[q] = st[q] \/ (st[q] = "nofree" /\ WakeFree[q] = "rw")
  BY <1>1 DEF WakeFree, Status, DriverStatus, Asleep
<1>3. PICK f \in [Proc -> Status] :
        /\ f = st \/ f = WakeFree
        /\ st' = [f EXCEPT ![p] = "nofree"]
  BY <1>1, <1>2 DEF NoDescriptors
<1>4. /\ st' \in [Proc -> Status]
      /\ \A q \in Proc : \/ st'[q] = st[q]
                         \/ st[q] \in {"rw", "nofree"} /\ st'[q] \in {"rw", "nofree"}
                         \/ st[q] \in {"wait", "done"} /\ st'[q] \in {"wait", "done"}
                         \/ st[q] = "asleep" /\ st'[q] = "lock"
  BY <1>1, <1>2, <1>3 DEF Status, DriverStatus
<1> QED
  BY <1>1, <1>4, SleepStep DEF NoDescriptors

-----------------------------------------------------------------------------
(* The device and the interrupt handler.                                   *)

\* Requests are told apart by their heads, and no head is in another place.
LEMMA HeadsApart ==
    ASSUME Shared, NEW p \in Requesting
    PROVE  /\ head[p] \notin free
           /\ \A q \in Requesting : head[q] = head[p] => q = p
           /\ \A q \in Requesting : head[q] # Second(p) /\ head[q] # Third(p)
           /\ Second(p) # head[p]
<1>1. \A q \in Requesting : q # p =>
        {First(p), Second(p), Third(p)} \cap {First(q), Second(q), Third(q)} = {}
  BY DEF Shared
<1>2. Described(p)
  BY DEF Shared
<1> QED
  BY <1>1, <1>2 DEF Described, First

\* The parts that do not look at the rings or at who has answered.
LEMMA DriverFrame ==
    ASSUME IInv, UNCHANGED <<blk, free, desc, info, buf, write, head, lost, bvars>>,
           st' \in [Proc -> Status], owned' \in [Buf -> BOOLEAN],
           \A q \in Proc : \/ st'[q] = st[q]
                           \/ st[q] = "wait" /\ st'[q] = "done",
           ops' \in [Desc -> [write : BOOLEAN, block : Block \cup {None}, status : {0, 255}]],
           \A d \in Desc : ops'[d].write = ops[d].write /\ ops'[d].block = ops[d].block
    PROVE  /\ Users' /\ Refs' /\ LruType' /\ Shared' /\ DescType'
           /\ Requesting' = Requesting
           /\ \A q \in Proc : /\ InRw(q)' <=> InRw(q)
                              /\ st'[q] \in {"held", "written"} <=> st[q] \in {"held", "written"}
                              /\ st'[q] = "written" <=> st[q] = "written"
<1> USE DEF IInv, Types
<1>1. SameUsers
  BY DEF SameUsers, HasLock, bvars
<1>2. Users' /\ Refs' /\ LruType'
  BY <1>1, UsersFrame
<1>3. Requesting' = Requesting
  BY DEF Requesting
<1>4. DescType'
  BY DEF DescType
<1>5. \A q \in Requesting : head[q] \in Desc
  BY DEF Requesting, DescType
<1>6. Shared'
  BY <1>3, <1>5 DEF Shared, Described, First, Second, Third
<1>7. \A q \in Proc : /\ InRw(q)' <=> InRw(q)
                      /\ st'[q] \in {"held", "written"} <=> st[q] \in {"held", "written"}
                      /\ st'[q] = "written" <=> st[q] = "written"
  BY DEF InRw, DriverStatus
<1> QED
  BY <1>2, <1>3, <1>4, <1>6, <1>7

\* An interrupt is raised, taken or over: no completion is forgotten.
LEMMA IntrSteps ==
    ASSUME IInv, DevIntr \/ IntrBegin \/ IntrEnd, UNCHANGED bvars
    PROVE  IInv'
<1> USE DEF IInv, Types
<1>1. UNCHANGED <<disk, blk, data, owned, free, desc, ops, info, avail, avail_idx, used,
                  used_ring_idx, used_idx, fetched, inflight, st, buf, write, head, lost, bvars>>
  BY DEF DevIntr, IntrBegin, IntrEnd
<1>2. /\ handler' \in BOOLEAN /\ intr' \in BOOLEAN /\ owed' \in BOOLEAN
      /\ NoLostCompletion'
  BY <1>1 DEF DevIntr, IntrBegin, IntrEnd, NoLostCompletion, MoreUsed, Tracked, FlagType
<1>3. MemoryType'
  BY <1>1 DEF MemoryType, bvars
<1>4. FlagType' /\ RingType'
  BY <1>1, <1>2 DEF FlagType, RingType, bvars
<1>5. Users' /\ Refs' /\ LruType' /\ Shared' /\ DescType' /\ Requesting' = Requesting
  BY <1>1, DriverFrame DEF MemoryType, DescType, FlagType
<1>6. /\ Coming' = Coming /\ Unseen' = Unseen
      /\ NoRepeat(fetched, avail_idx, avail)' /\ NoRepeat(used_idx, used_ring_idx, used)'
  BY <1>1 DEF Coming, Unseen, Tracked
<1>7. Tracked'
  BY <1>1, <1>2, <1>5, <1>6 DEF Tracked
<1>8. Clean'
  BY <1>1, <1>5, <1>6 DEF Clean, InRw, bvars
<1> QED
  BY <1>3, <1>4, <1>5, <1>7, <1>8

\* The device takes a request off the avail ring.
LEMMA FetchStep ==
    ASSUME IInv, DevFetch, UNCHANGED bvars
    PROVE  IInv'
<1> USE DEF IInv, Types
<1> DEFINE x == avail[fetched % NUM]
<1>1. /\ fetched # avail_idx /\ inflight' = inflight \cup {x}
      /\ fetched' = (fetched + 1) % IDX
      /\ UNCHANGED <<disk, blk, data, owned, free, desc, ops, info, avail, avail_idx, used,
                     used_ring_idx, used_idx, owed, intr, handler, st, buf, write, head, lost,
                     bvars>>
  BY DEF DevFetch
<1>2. /\ fetched' \in Index /\ x \in Desc /\ x \in Coming
      /\ Coming' = Coming \ {x} /\ NoRepeat(fetched, avail_idx, avail)'
  BY <1>1, RingTake DEF RingType, Coming, Tracked
<1>3. Unseen' = Unseen /\ NoRepeat(used_idx, used_ring_idx, used)' /\ NoLostCompletion'
  BY <1>1 DEF Unseen, Tracked, NoLostCompletion, MoreUsed
<1>4. MemoryType'
  BY <1>1 DEF MemoryType, bvars
<1>5. FlagType'
  BY <1>1 DEF FlagType, bvars
<1>6. RingType'
  BY <1>1, <1>2 DEF RingType
<1>7. Users' /\ Refs' /\ LruType' /\ Shared' /\ DescType' /\ Requesting' = Requesting
  BY <1>1, DriverFrame DEF MemoryType, DescType, FlagType
<1>8. (Coming \cup inflight)' = Coming \cup inflight
  BY <1>1, <1>2
<1>9. Tracked'
  BY <1>1, <1>2, <1>3, <1>7, <1>8 DEF Tracked
<1>10. Clean'
  BY <1>1, <1>7, <1>8 DEF Clean, InRw, bvars
<1> QED
  BY <1>4, <1>5, <1>6, <1>7, <1>9, <1>10

\* The device carries out a request and puts it into the used ring: it moves
\* the contents between the buffer and the block of the process that asked.
LEMMA DoneStep ==
    ASSUME IInv, NEW h \in Desc, DevDone(h), UNCHANGED bvars
    PROVE  IInv'
<1> USE DEF IInv, Types
<1>1. /\ h \in inflight /\ inflight' = inflight \ {h}
      /\ ops' = [ops EXCEPT ![h].status = 0]
      /\ used' = [used EXCEPT ![used_ring_idx % NUM] = h]
      /\ used_ring_idx' = (used_ring_idx + 1) % IDX /\ owed' = TRUE
      /\ UNCHANGED <<blk, owned, free, desc, info, avail, avail_idx, used_idx, fetched,
                     intr, handler, st, buf, write, head, lost, bvars>>
  BY DEF DevDone
<1>2. PICK p \in Requesting : h = head[p]
  BY <1>1 DEF Tracked
<1> DEFINE i == buf[p]
           b == blk[buf[p]]
<1>3. p \in Proc /\ i \in Buf /\ b \in Block
  BY HolderAlone DEF Requesting
<1>4. ops[h].block = b /\ desc[desc[h].next].addr = i
  BY <1>2 DEF Shared, Described, First, Second
<1>5. \/ disk' = [disk EXCEPT ![b] = data[i]] /\ data' = data
      \/ data' = [data EXCEPT ![i] = disk[b]] /\ disk' = disk
  BY <1>4 DEF DevDone
<1>6. /\ data'[i] = disk'[b]
      /\ \A j \in Buf : j # i => data'[j] = data[j]
      /\ \A c \in Block : c # b => disk'[c] = disk[c]
  BY <1>3, <1>5 DEF MemoryType
<1>7. MemoryType'
  BY <1>1, <1>3, <1>5 DEF MemoryType, bvars
<1>8. FlagType'
  BY <1>1 DEF FlagType, bvars
<1>9. /\ ops' \in [Desc -> [write : BOOLEAN, block : Block \cup {None}, status : {0, 255}]]
      /\ \A d \in Desc : ops'[d].write = ops[d].write /\ ops'[d].block = ops[d].block
      /\ \A d \in Desc : ops'[d].status = ops[d].status \/ ops'[d].status = 0
      /\ ops'[h].status = 0
  BY <1>1 DEF DescType
<1>10. /\ Users' /\ Refs' /\ LruType' /\ Shared' /\ DescType' /\ Requesting' = Requesting
  BY <1>1, <1>9, DriverFrame DEF MemoryType, FlagType
<1>11. Coming' = Coming /\ NoRepeat(fetched, avail_idx, avail)'
  BY <1>1 DEF Coming, Tracked
<1>12. /\ used' \in [Desc -> Desc] /\ used_ring_idx' \in Index
       /\ Unseen' = Unseen \cup {h} /\ NoRepeat(used_idx, used_ring_idx, used)'
  <2>1. h \notin Unseen
    BY <1>1 DEF Tracked
  <2>2. Count(used_idx, used_ring_idx) + 1 < NUM
    <3> DEFINE S == (Desc \ {h}) \ {Second(p)}
    <3>1. Second(p) \in Desc /\ Second(p) # h
      BY <1>2, <1>3, HeadsApart DEF Second, DescType
    <3>2. Unseen \subseteq S
      <4> SUFFICES ASSUME NEW g \in Unseen PROVE g \in S
        OBVIOUS
      <4>1. PICK q \in Requesting : g = head[q]
        BY DEF Tracked
      <4>2. g \in Desc /\ g # h /\ g # Second(p)
        BY <4>1, <2>1, <1>2, HeadsApart DEF Requesting, DescType
      <4> QED
        BY <4>2
    <3>3. IsFiniteSet(Desc \ {h}) /\ Cardinality(Desc \ {h}) = NUM - 1
      BY DescFinite, FS_RemoveElement
    <3>4. IsFiniteSet(S) /\ Cardinality(S) = (NUM - 1) - 1
      <4>1. Second(p) \in Desc \ {h}
        BY <3>1
      <4> QED
        BY <3>3, <4>1, FS_RemoveElement
    <3> HIDE DEF S
    <3>5. Count(used_idx, used_ring_idx) <= Cardinality(S)
      BY <3>2, <3>4, RingBound DEF RingType, Tracked, Unseen
    <3>6. Count(used_idx, used_ring_idx) \in Nat
      BY RingNumbers DEF RingType
    <3> QED
      BY <3>4, <3>5, <3>6, VirtioAssumption
  <2>3. used' = PutAt(used, used_ring_idx % NUM, h)
    BY <1>1 DEF PutAt
  <2>4. /\ used_idx \in Index /\ used_ring_idx \in Index /\ used \in [Desc -> Desc]
        /\ h \notin Between(used_idx, used_ring_idx, used)
        /\ NoRepeat(used_idx, used_ring_idx, used)
    BY <2>1 DEF RingType, Tracked, Unseen
  <2>5. LET ring2 == PutAt(used, used_ring_idx % NUM, h)
            to2 == (used_ring_idx + 1) % IDX
        IN  /\ ring2 \in [Desc -> Desc] /\ to2 \in Index
            /\ Between(used_idx, to2, ring2) = Between(used_idx, used_ring_idx, used) \cup {h}
            /\ NoRepeat(used_idx, to2, ring2)
    BY <2>2, <2>4, RingPut
  <2> QED
    BY <1>1, <2>3, <2>5 DEF Unseen
<1>13. RingType'
  BY <1>1, <1>12 DEF RingType
<1>14. Tracked'
  <2>1. h \notin Coming /\ h \notin Unseen
    BY <1>1 DEF Tracked
  <2>2. Coming' \cap inflight' = {} /\ Coming' \cap Unseen' = {} /\ inflight' \cap Unseen' = {}
    BY <1>1, <1>11, <1>12, <2>1 DEF Tracked
  <2>3. (Coming \cup inflight \cup Unseen)' = Coming \cup inflight \cup Unseen
    BY <1>1, <1>11, <1>12
  <2>4. \A q \in Requesting' :
          owned'[buf'[q]] <=> head'[q] \in (Coming \cup inflight \cup Unseen)'
    BY <1>1, <1>10, <2>3 DEF Tracked
  <2>5. \A g \in (Coming \cup inflight \cup Unseen)' : \E q \in Requesting' : g = head'[q]
    BY <1>1, <1>10, <2>3 DEF Tracked
  <2>6. \A g \in Unseen' : ops'[g].status = 0
    <3> SUFFICES ASSUME NEW g \in Unseen' PROVE ops'[g].status = 0
      OBVIOUS
    <3>1. CASE g = h
      BY <3>1, <1>9
    <3>2. CASE g # h
      <4>1. g \in Unseen
        BY <3>2, <1>12
      <4>2. g \in Desc
        BY <4>1 DEF Tracked, Requesting, DescType
      <4> QED
        BY <4>1, <4>2, <1>9 DEF Tracked
    <3> QED
      BY <3>1, <3>2
  <2>7. NoLostCompletion'
    BY <1>1 DEF NoLostCompletion
  <2> QED
    BY <2>2, <2>4, <2>5, <2>6, <2>7, <1>11, <1>12 DEF Tracked
<1>15. Clean'
  <2>1. \A j \in Buf : j # i => blk[j] # b
    BY <1>3, VirtioAssumption DEF Users
  <2>2. \A q \in Proc : q # p /\ st[q] \in HasLock =>
          data'[buf[q]] = data[buf[q]] /\ disk'[blk[buf[q]]] = disk[blk[buf[q]]]
    <3> SUFFICES ASSUME NEW q \in Proc, q # p, st[q] \in HasLock
                 PROVE data'[buf[q]] = data[buf[q]] /\ disk'[blk[buf[q]]] = disk[blk[buf[q]]]
      OBVIOUS
    <3>1. buf[q] \in Buf /\ blk[buf[q]] \in Block
      BY HolderAlone DEF HasLock
    <3>2. buf[q] # i
      BY HolderAlone DEF HasLock, Requesting
    <3> QED
      BY <3>1, <3>2, <2>1, <1>6
  <2>3. \A q \in Proc : InRw(q)' => (valid'[buf'[q]] <=> write'[q])
    BY <1>1 DEF Clean, InRw, bvars
  <2>4. \A q \in Proc : st'[q] \in {"held", "written"} => valid'[buf'[q]]
    BY <1>1 DEF Clean, bvars
  <2>5. ASSUME NEW q \in Requesting', head'[q] \notin (Coming \cup inflight)'
        PROVE  data'[buf'[q]] = disk'[blk'[buf'[q]]]
    <3>1. CASE q = p
      BY <3>1, <1>1, <1>6
    <3>2. CASE q # p
      <4>1. q \in Requesting /\ head[q] # h
        BY <3>2, <1>2, <1>10, HeadsApart
      <4>2. head[q] \notin Coming \cup inflight
        BY <4>1, <2>5, <1>1, <1>11
      <4>3. data[buf[q]] = disk[blk[buf[q]]]
        BY <4>1, <4>2 DEF Clean
      <4>4. q \in Proc /\ st[q] \in HasLock
        BY <4>1 DEF Requesting, HasLock
      <4> QED
        BY <4>3, <4>4, <3>2, <2>2, <1>1
    <3> QED
      BY <3>1, <3>2
  <2>6. \A q \in Proc : st'[q] = "written" => data'[buf'[q]] = disk'[blk'[buf'[q]]]
    <3>1. st[p] # "written"
      BY DEF Requesting
    <3> QED
      BY <3>1, <2>2, <1>1 DEF Clean, HasLock
  <2>7. ASSUME NEW j \in Buf, blk'[j] # None, valid'[j], blk'[j] \notin pinned'
        PROVE  \/ data'[j] = disk'[blk'[j]]
               \/ \E q \in Proc : buf'[q] = j /\ InRw(q)' /\ write'[q]
    <3>1. CASE j = i
      BY <3>1, <1>1, <1>6
    <3>2. CASE j # i
      <4>1. data'[j] = data[j] /\ disk'[blk[j]] = disk[blk[j]] /\ blk'[j] = blk[j]
        BY <3>2, <2>1, <2>7, <1>1, <1>6 DEF MemoryType
      <4>2. blk[j] # None /\ valid[j] /\ blk[j] \notin pinned
        BY <2>7, <1>1 DEF bvars
      <4> QED
        BY <4>1, <4>2, <1>1 DEF Clean, InRw
    <3> QED
      BY <3>1, <3>2
  <2> QED
    BY <2>3, <2>4, <2>5, <2>6, <2>7 DEF Clean
<1> QED
  BY <1>7, <1>8, <1>10, <1>13, <1>14, <1>15

\* One pass of virtio_disk_intr(): the request's buffer is the process's
\* again, and its sleeper is woken.
LEMMA IntrOneStep ==
    ASSUME IInv, IntrOne, UNCHANGED bvars
    PROVE  IInv'
<1> USE DEF IInv, Types
<1> DEFINE id == used[used_idx % NUM]
<1>1. /\ handler /\ used_idx # used_ring_idx
      /\ owned' = [owned EXCEPT ![info[id]] = FALSE] /\ st' = WakeBuf(info[id])
      /\ used_idx' = (used_idx + 1) % IDX
      /\ UNCHANGED <<disk, blk, data, free, desc, ops, info, avail, avail_idx, used,
                     used_ring_idx, fetched, inflight, owed, intr, handler, buf, write,
                     head, lost, bvars>>
  BY DEF IntrOne, MoreUsed
<1>2. /\ used_idx' \in Index /\ id \in Desc /\ id \in Unseen
      /\ Unseen' = Unseen \ {id} /\ NoRepeat(used_idx, used_ring_idx, used)'
  BY <1>1, RingTake DEF RingType, Unseen, Tracked
<1> HIDE DEF id
<1>3. PICK p \in Requesting : id = head[p]
  BY <1>2 DEF Tracked
<1> DEFINE i == buf[p]
<1>4. p \in Proc /\ i \in Buf /\ info[id] = i
  BY <1>3, HolderAlone DEF Requesting, Shared, Described, First
<1>5. owned'[i] = FALSE /\ \A j \in Buf : j # i => owned'[j] = owned[j]
  BY <1>1, <1>4 DEF FlagType
<1>6. /\ owned' \in [Buf -> BOOLEAN] /\ st' \in [Proc -> Status]
      /\ \A q \in Proc : st'[q] = st[q] \/ (st[q] = "wait" /\ st'[q] = "done")
  BY <1>1, <1>4 DEF FlagType, MemoryType, WakeBuf, Status, DriverStatus, Asleep
<1>7. Coming' = Coming /\ NoRepeat(fetched, avail_idx, avail)'
  BY <1>1 DEF Coming, Tracked
<1>8. MemoryType'
  BY <1>1, <1>6 DEF MemoryType, bvars
<1>9. FlagType'
  BY <1>1, <1>6 DEF FlagType, bvars
<1>10. RingType'
  BY <1>1, <1>2 DEF RingType
<1>11. /\ Users' /\ Refs' /\ LruType' /\ Shared' /\ DescType' /\ Requesting' = Requesting
       /\ \A q \in Proc : /\ InRw(q)' <=> InRw(q)
                          /\ st'[q] \in {"held", "written"} <=> st[q] \in {"held", "written"}
                          /\ st'[q] = "written" <=> st[q] = "written"
  BY <1>1, <1>6, DriverFrame DEF DescType
<1>12. Tracked'
  <2>1. id \notin Coming /\ id \notin inflight
    BY <1>2 DEF Tracked
  <2>2. Coming' \cap inflight' = {} /\ Coming' \cap Unseen' = {} /\ inflight' \cap Unseen' = {}
    BY <1>1, <1>2, <1>7 DEF Tracked
  <2>3. (Coming \cup inflight \cup Unseen)' = (Coming \cup inflight \cup Unseen) \ {id}
    BY <1>1, <1>2, <1>7, <2>1
  <2>4. ASSUME NEW q \in Requesting
        PROVE  owned'[buf'[q]] <=> head'[q] \in (Coming \cup inflight \cup Unseen)'
    <3>1. CASE q = p
      BY <3>1, <1>1, <1>3, <1>5, <2>3
    <3>2. CASE q # p
      <4>1. head[q] # id
        BY <3>2, <1>3, HeadsApart
      <4>2. buf[q] \in Buf /\ buf[q] # i
        BY <3>2, HolderAlone DEF Requesting, HasLock
      <4> QED
        BY <4>1, <4>2, <1>1, <1>5, <2>3 DEF Tracked
    <3> QED
      BY <3>1, <3>2
  <2>5. \A g \in (Coming \cup inflight \cup Unseen)' : \E q \in Requesting' : g = head'[q]
    BY <1>1, <1>11, <2>3 DEF Tracked
  <2>6. \A g \in Unseen' : ops'[g].status = 0
    BY <1>1, <1>2 DEF Tracked
  <2>7. NoLostCompletion'
    BY <1>1 DEF NoLostCompletion
  <2> QED
    BY <2>2, <2>4, <2>5, <2>6, <2>7, <1>2, <1>7, <1>11 DEF Tracked
<1>13. Clean'
  <2>1. /\ UNCHANGED <<disk, blk, data, buf, write, head, inflight>>
        /\ UNCHANGED <<valid, pinned>>
    BY <1>1 DEF bvars
  <2>2. /\ \A q \in Proc : InRw(q)' => (valid'[buf'[q]] <=> write'[q])
        /\ \A q \in Proc : st'[q] \in {"held", "written"} => valid'[buf'[q]]
        /\ \A q \in Proc : st'[q] = "written" => data'[buf'[q]] = disk'[blk'[buf'[q]]]
    BY <2>1, <1>11 DEF Clean
  <2>3. \A q \in Requesting' : head'[q] \notin (Coming \cup inflight)' =>
          data'[buf'[q]] = disk'[blk'[buf'[q]]]
    BY <2>1, <1>7, <1>11 DEF Clean
  <2>4. \A j \in Buf : blk'[j] # None /\ valid'[j] /\ blk'[j] \notin pinned' =>
          \/ data'[j] = disk'[blk'[j]]
          \/ \E q \in Proc : buf'[q] = j /\ InRw(q)' /\ write'[q]
    BY <2>1, <1>11 DEF Clean
  <2> QED
    BY <2>2, <2>3, <2>4 DEF Clean
<1> QED
  BY <1>8, <1>9, <1>10, <1>11, <1>12, <1>13

-----------------------------------------------------------------------------
(* A request begins and ends.                                              *)

\* Three free descriptors are formatted and the request is made.
LEMMA SubmitStep ==
    ASSUME IInv, NEW p \in Proc, st[p] = "rw", Submit(p),
           UNCHANGED <<disk, blk, data, buf, write, lost, bvars>>
    PROVE  IInv'
<1> USE DEF IInv, Types
<1> DEFINE d0 == Alloc3[1]
           d1 == Alloc3[2]
           d2 == Alloc3[3]
           i == buf[p]
<1>1. /\ d0 \in free /\ d1 \in free /\ d2 \in free
      /\ d0 # d1 /\ d1 # d2 /\ d0 # d2
  BY Alloc3Free DEF DescType, Submit
<1>2. /\ Cardinality(free) >= 3
      /\ free' = free \ {d0, d1, d2}
      /\ desc' = [desc EXCEPT ![d0] = [addr |-> None, next |-> d1, more |-> TRUE],
                              ![d1] = [addr |-> i, next |-> d2, more |-> TRUE],
                              ![d2] = NoDesc]
      /\ ops' = [ops EXCEPT ![d0] = [write |-> write[p], block |-> blk[i], status |-> 255]]
      /\ info' = [info EXCEPT ![d0] = i]
      /\ avail' = [avail EXCEPT ![avail_idx % NUM] = d0]
      /\ head' = [head EXCEPT ![p] = d0]
      /\ owned' = [owned EXCEPT ![i] = TRUE]
      /\ avail_idx' = (avail_idx + 1) % IDX
      /\ st' = [st EXCEPT ![p] = "wait"]
      /\ UNCHANGED <<used, used_ring_idx, used_idx, fetched, inflight, owed, intr, handler>>
  BY DEF Submit
<1> HIDE DEF d0, d1, d2
<1>3. i \in Buf /\ blk[i] \in Block /\ d0 \in Desc /\ d1 \in Desc /\ d2 \in Desc
  BY <1>1, HolderAlone DEF DescType
<1>4. MemoryType'
  BY <1>2 DEF MemoryType, Status, DriverStatus, bvars
<1>5. FlagType'
  BY <1>2 DEF FlagType, bvars
<1>6. DescType'
  <2>1. 0 \in Desc
    BY VirtioAssumption DEF Desc
  <2>2. write[p] \in BOOLEAN
    BY DEF FlagType
  <2>3. desc' \in [Desc -> [addr : Buf \cup {None}, next : Desc, more : BOOLEAN]]
    BY <1>2, <1>3, <2>1 DEF DescType, NoDesc
  <2>4. ops' \in [Desc -> [write : BOOLEAN, block : Block \cup {None}, status : {0, 255}]]
    BY <1>2, <1>3, <2>2 DEF DescType
  <2>5. /\ info' \in [Desc -> Buf \cup {None}]
        /\ free' \in SUBSET Desc /\ head' \in [Proc -> Desc]
    BY <1>2, <1>3 DEF DescType
  <2> QED
    BY <2>3, <2>4, <2>5 DEF DescType
<1>7. SameUsers
  BY <1>2 DEF SameUsers, HasLock, MemoryType, bvars
<1>8. Users' /\ Refs' /\ LruType'
  BY <1>7, UsersFrame
<1>9. Requesting' = Requesting \cup {p} /\ p \notin Requesting
  BY <1>2 DEF Requesting, MemoryType
<1>10. /\ head'[p] = d0
       /\ desc'[d0] = [addr |-> None, next |-> d1, more |-> TRUE]
       /\ desc'[d1] = [addr |-> i, next |-> d2, more |-> TRUE]
       /\ desc'[d2] = NoDesc
       /\ ops'[d0] = [write |-> write[p], block |-> blk[i], status |-> 255]
       /\ info'[d0] = i
  <2> HIDE DEF i
  <2>1. head'[p] = d0
    BY <1>2 DEF DescType
  <2>2. info'[d0] = i
    BY <1>2, <1>3 DEF DescType
  <2>3. ops'[d0] = [write |-> write[p], block |-> blk[i], status |-> 255]
    BY <1>2, <1>3 DEF DescType
  <2>4. DOMAIN desc = Desc
    BY DEF DescType
  <2>5. desc'[d0] = [addr |-> None, next |-> d1, more |-> TRUE]
    BY <1>1, <1>2, <1>3, <2>4
  <2>6. desc'[d1] = [addr |-> i, next |-> d2, more |-> TRUE]
    BY <1>1, <1>2, <1>3, <2>4
  <2>7. desc'[d2] = NoDesc
    BY <1>1, <1>2, <1>3, <2>4
  <2> QED
    BY <2>1, <2>2, <2>3, <2>5, <2>6, <2>7
<1>11. \A d \in Desc \ free : /\ desc'[d] = desc[d] /\ ops'[d] = ops[d] /\ info'[d] = info[d]
                              /\ d # d0 /\ d # d1 /\ d # d2 /\ d \notin free'
  BY <1>1, <1>2 DEF DescType
<1>12. First(p)' = d0 /\ Second(p)' = d1 /\ Third(p)' = d2
  BY <1>10 DEF First, Second, Third
<1>13. ASSUME NEW q \in Requesting
       PROVE  /\ First(q) \in Desc \ free /\ Second(q) \in Desc \ free /\ Third(q) \in Desc \ free
              /\ First(q)' = First(q) /\ Second(q)' = Second(q) /\ Third(q)' = Third(q)
              /\ head'[q] = head[q] /\ Described(q)'
  <2>1. q \in Proc /\ q # p /\ Described(q)
    BY <1>9 DEF Requesting, Shared
  <2>2. First(q) \in Desc \ free /\ Second(q) \in Desc \ free /\ Third(q) \in Desc \ free
    BY <2>1 DEF DescType, Described, First, Second, Third
  <2>3. head'[q] = head[q]
    BY <1>2, <2>1 DEF DescType
  <2>4. First(q)' = First(q) /\ Second(q)' = Second(q) /\ Third(q)' = Third(q)
    BY <2>2, <2>3, <1>11 DEF First, Second, Third
  <2>5. Described(q)'
    BY <2>1, <2>2, <2>4, <1>11 DEF Described
  <2> QED
    BY <2>2, <2>3, <2>4, <2>5
<1>14. Shared'
  <2>1. Described(p)'
    BY <1>1, <1>2, <1>10, <1>12 DEF Described
  <2>2. \A q \in Requesting' : Described(q)'
    BY <1>9, <1>13, <2>1
  <2>3. \A q, r \in Requesting' : q # r =>
          {First(q)', Second(q)', Third(q)'} \cap {First(r)', Second(r)', Third(r)'} = {}
    <3> SUFFICES ASSUME NEW q \in Requesting', NEW r \in Requesting', q # r
                 PROVE {First(q)', Second(q)', Third(q)'} \cap {First(r)', Second(r)', Third(r)'} = {}
      OBVIOUS
    <3>1. CASE q = p
      <4>1. r \in Requesting
        BY <3>1, <1>9
      <4> QED
        BY <3>1, <4>1, <1>11, <1>12, <1>13
    <3>2. CASE r = p
      <4>1. q \in Requesting
        BY <3>2, <1>9
      <4> QED
        BY <3>2, <4>1, <1>11, <1>12, <1>13
    <3>3. CASE q # p /\ r # p
      <4>1. q \in Requesting /\ r \in Requesting
        BY <3>3, <1>9
      <4>2. {First(q), Second(q), Third(q)} \cap {First(r), Second(r), Third(r)} = {}
        BY <4>1 DEF Shared
      <4> QED
        BY <4>1, <4>2, <1>13
    <3> QED
      BY <3>1, <3>2, <3>3
  <2>4. ASSUME NEW d \in Desc \ free'
        PROVE \E q \in Requesting' : d \in {First(q)', Second(q)', Third(q)'}
    <3>1. CASE d \in {d0, d1, d2}
      BY <3>1, <1>9, <1>12
    <3>2. CASE d \notin {d0, d1, d2}
      <4>1. d \in Desc \ free
        BY <3>2, <1>2
      <4>2. PICK q \in Requesting : d \in {First(q), Second(q), Third(q)}
        BY <4>1 DEF Shared
      <4> QED
        BY <4>2, <1>9, <1>13
    <3> QED
      BY <3>1, <3>2
  <2> QED
    BY <2>2, <2>3, <2>4 DEF Shared
<1>15. Coming \subseteq Desc \ free
  <2> SUFFICES ASSUME NEW g \in Coming PROVE g \in Desc \ free
    OBVIOUS
  <2>1. PICK q \in Requesting : g = head[q]
    BY DEF Tracked
  <2> QED
    BY <2>1, <1>13 DEF First
<1>16. /\ avail' \in [Desc -> Desc] /\ avail_idx' \in Index
       /\ Coming' = Coming \cup {d0} /\ NoRepeat(fetched, avail_idx, avail)'
  <2>1. Count(fetched, avail_idx) + 1 < NUM
    <3>1. IsFiniteSet(free) /\ Cardinality(free) \in Nat
      BY DescFinite, FS_Subset, FS_CardinalityType DEF DescType
    <3>2. IsFiniteSet(Desc \ free) /\ Cardinality(Desc \ free) = NUM - Cardinality(free)
      <4>1. Desc \cap free = free
        BY DEF DescType
      <4>2. /\ IsFiniteSet(Desc \ free)
            /\ Cardinality(Desc \ free) = Cardinality(Desc) - Cardinality(Desc \cap free)
        BY DescFinite, <3>1, FS_Difference
      <4> QED
        BY <4>1, <4>2, DescFinite
    <3>3. Count(fetched, avail_idx) <= Cardinality(Desc \ free)
      BY <1>15, <3>2, RingBound DEF RingType, Tracked, Coming
    <3>4. Count(fetched, avail_idx) \in Nat
      BY RingNumbers DEF RingType
    <3> QED
      BY <1>2, <3>1, <3>2, <3>3, <3>4, VirtioAssumption
  <2>2. /\ fetched \in Index /\ avail_idx \in Index /\ avail \in [Desc -> Desc]
        /\ d0 \notin Between(fetched, avail_idx, avail)
        /\ NoRepeat(fetched, avail_idx, avail)
    BY <1>1, <1>15 DEF RingType, Tracked, Coming
  <2>3. LET ring2 == PutAt(avail, avail_idx % NUM, d0)
            to2 == (avail_idx + 1) % IDX
        IN  /\ ring2 \in [Desc -> Desc] /\ to2 \in Index
            /\ Between(fetched, to2, ring2) = Between(fetched, avail_idx, avail) \cup {d0}
            /\ NoRepeat(fetched, to2, ring2)
    BY <2>1, <2>2, <1>3, RingPut
  <2>4. avail' = PutAt(avail, avail_idx % NUM, d0)
    BY <1>2 DEF PutAt
  <2> QED
    BY <1>2, <2>3, <2>4 DEF Coming
<1>17. RingType'
  BY <1>2, <1>16 DEF RingType
<1>18. Unseen' = Unseen /\ NoRepeat(used_idx, used_ring_idx, used)' /\ NoLostCompletion'
  BY <1>2 DEF Unseen, Tracked, NoLostCompletion, MoreUsed
<1>19. Tracked'
  <2>1. \A g \in Coming \cup inflight \cup Unseen : g \in Desc \ free
    BY <1>13 DEF Tracked, First
  <2>2. d0 \notin Coming \cup inflight \cup Unseen
    BY <2>1, <1>1
  <2>3. Coming' \cap inflight' = {} /\ Coming' \cap Unseen' = {} /\ inflight' \cap Unseen' = {}
    BY <1>2, <1>16, <1>18, <2>2 DEF Tracked
  <2>4. (Coming \cup inflight \cup Unseen)' = (Coming \cup inflight \cup Unseen) \cup {d0}
    BY <1>2, <1>16, <1>18
  <2>5. ASSUME NEW q \in Requesting'
        PROVE  owned'[buf'[q]] <=> head'[q] \in (Coming \cup inflight \cup Unseen)'
    <3>1. CASE q = p
      BY <3>1, <1>2, <1>3, <1>10, <2>4 DEF FlagType
    <3>2. CASE q # p
      <4>1. q \in Requesting /\ q \in Proc
        BY <3>2, <1>9 DEF Requesting
      <4>2. buf[q] \in Buf /\ buf[q] # i
        BY <3>2, <4>1, HolderAlone DEF Requesting, HasLock
      <4>3. owned'[buf[q]] = owned[buf[q]]
        BY <4>2, <1>2, <1>3 DEF FlagType
      <4>4. head'[q] = head[q] /\ head[q] # d0
        BY <4>1, <1>1, <1>13 DEF First
      <4> QED
        BY <4>1, <4>3, <4>4, <2>4 DEF Tracked
    <3> QED
      BY <3>1, <3>2
  <2>6. \A g \in (Coming \cup inflight \cup Unseen)' : \E q \in Requesting' : g = head'[q]
    BY <1>9, <1>10, <1>13, <2>4 DEF Tracked
  <2>7. \A g \in Unseen' : ops'[g].status = 0
    BY <1>11, <1>18, <2>1 DEF Tracked
  <2> QED
    BY <2>3, <2>5, <2>6, <2>7, <1>16, <1>18 DEF Tracked
<1>20. Clean'
  <2>1. UNCHANGED <<disk, blk, data, buf, write, valid, pinned, inflight>>
    BY <1>2 DEF bvars
  <2>2. \A q \in Proc : /\ InRw(q)' <=> InRw(q)
                        /\ st'[q] \in {"held", "written"} => st'[q] = st[q]
    BY <1>2 DEF InRw, DriverStatus, MemoryType
  <2>3. /\ \A q \in Proc : InRw(q)' => (valid'[buf'[q]] <=> write'[q])
        /\ \A q \in Proc : st'[q] \in {"held", "written"} => valid'[buf'[q]]
        /\ \A q \in Proc : st'[q] = "written" => data'[buf'[q]] = disk'[blk'[buf'[q]]]
    BY <2>1, <2>2 DEF Clean
  <2>4. ASSUME NEW q \in Requesting', head'[q] \notin (Coming \cup inflight)'
        PROVE  data'[buf'[q]] = disk'[blk'[buf'[q]]]
    <3>1. q # p
      BY <2>4, <1>10, <1>16
    <3>2. q \in Requesting
      BY <3>1, <1>9
    <3>3. head[q] \notin Coming \cup inflight
      BY <3>2, <2>4, <1>13, <1>16, <2>1
    <3> QED
      BY <3>2, <3>3, <2>1 DEF Clean
  <2>5. \A j \in Buf : blk'[j] # None /\ valid'[j] /\ blk'[j] \notin pinned' =>
          \/ data'[j] = disk'[blk'[j]]
          \/ \E q \in Proc : buf'[q] = j /\ InRw(q)' /\ write'[q]
    BY <2>1, <2>2 DEF Clean
  <2> QED
    BY <2>3, <2>4, <2>5 DEF Clean
<1> QED
  BY <1>4, <1>5, <1>6, <1>8, <1>14, <1>17, <1>19, <1>20

\* virtio_disk_rw() returns: the descriptors are free again, and what was
\* transferred is in the buffer and on the disk.
LEMMA RwReturnStep ==
    ASSUME IInv, NEW p \in Proc, RwReturn(p)
    PROVE  IInv'
<1> USE DEF IInv, Types
<1> DEFINE i == buf[p]
           C == {First(p), Second(p), Third(p)}
           All == Coming \cup inflight \cup Unseen
<1>1. st[p] = "done" /\ ~owned[i] /\ p \in Requesting /\ ~handler
  BY DEF RwReturn, RwEnd, StillOwned, Requesting
<1>2. i \in Buf /\ blk[i] \in Block /\ Described(p)
  BY <1>1, HolderAlone DEF Shared
<1>3. Chain(head[p]) = C
  BY <1>2 DEF Chain, Described, First, Second, Third
<1>4. /\ free' = free \cup C
      /\ desc' = [d \in Desc |-> IF d \in C THEN NoDesc ELSE desc[d]]
      /\ ops' = [ops EXCEPT ![head[p]] = NoOp]
      /\ info' = [info EXCEPT ![head[p]] = None]
      /\ head' = [head EXCEPT ![p] = 0]
      /\ st' = [WakeFree EXCEPT ![p] = IF write[p] THEN "written" ELSE "held"]
      /\ valid' = [valid EXCEPT ![i] = TRUE]
      /\ write' = [write EXCEPT ![p] = FALSE]
      /\ UNCHANGED <<disk, blk, data, owned, rings, buf, lost, refcnt, lock, lru, pinned>>
  BY <1>3 DEF RwReturn, RwEnd
<1>5. head[p] \in C /\ C \subseteq Desc
  BY DEF First, Second, Third, DescType
<1> HIDE DEF C
<1>6. /\ st' \in [Proc -> Status] /\ st'[p] \in {"held", "written"}
      /\ st'[p] = "written" => write[p]
      /\ \A q \in Proc : q # p => st'[q] = st[q] \/ (st[q] = "nofree" /\ st'[q] = "rw")
  BY <1>4 DEF WakeFree, MemoryType, Status, DriverStatus, Asleep
<1>7. MemoryType'
  BY <1>4, <1>6 DEF MemoryType
<1>8. FlagType'
  BY <1>4 DEF FlagType, rings
<1>9. DescType'
  <2>1. 0 \in Desc
    BY VirtioAssumption DEF Desc
  <2>2. desc' \in [Desc -> [addr : Buf \cup {None}, next : Desc, more : BOOLEAN]]
    BY <1>4, <2>1 DEF DescType, NoDesc
  <2>3. ops' \in [Desc -> [write : BOOLEAN, block : Block \cup {None}, status : {0, 255}]]
    BY <1>4 DEF DescType, NoOp
  <2>4. /\ info' \in [Desc -> Buf \cup {None}]
        /\ free' \in SUBSET Desc /\ head' \in [Proc -> Desc]
    BY <1>4, <1>5, <2>1 DEF DescType
  <2> QED
    BY <2>2, <2>3, <2>4 DEF DescType
<1>10. RingType'
  BY <1>4 DEF RingType, rings
<1>11. SameUsers
  BY <1>1, <1>4, <1>6 DEF SameUsers, HasLock
<1>12. Users' /\ Refs' /\ LruType'
  BY <1>11, UsersFrame
<1>13. Requesting' = Requesting \ {p}
  BY <1>6 DEF Requesting
<1>14. \A d \in Desc : d \notin C =>
         /\ desc'[d] = desc[d] /\ ops'[d] = ops[d] /\ info'[d] = info[d]
         /\ d \in free' <=> d \in free
  BY <1>4, <1>5 DEF DescType
<1>15. ASSUME NEW q \in Requesting, q # p
       PROVE  /\ First(q) \in Desc \ C /\ Second(q) \in Desc \ C /\ Third(q) \in Desc \ C
              /\ First(q)' = First(q) /\ Second(q)' = Second(q) /\ Third(q)' = Third(q)
              /\ head'[q] = head[q] /\ Described(q)'
  <2>1. q \in Proc /\ Described(q)
    BY DEF Requesting, Shared
  <2>2. {First(q), Second(q), Third(q)} \cap C = {}
    BY <1>1, <1>15 DEF Shared, C
  <2>3. First(q) \in Desc \ C /\ Second(q) \in Desc \ C /\ Third(q) \in Desc \ C
    <3>1. First(q) \in Desc /\ Second(q) \in Desc /\ Third(q) \in Desc
      BY <2>1 DEF DescType, First, Second, Third
    <3> QED
      BY <2>2, <3>1
  <2>4. head'[q] = head[q]
    BY <1>4, <1>15, <2>1 DEF DescType
  <2>5. First(q)' = First(q) /\ Second(q)' = Second(q) /\ Third(q)' = Third(q)
    BY <2>3, <2>4, <1>14 DEF First, Second, Third
  <2>6. write'[q] = write[q] /\ buf'[q] = buf[q] /\ blk' = blk
    BY <1>4, <1>15, <2>1 DEF FlagType
  <2>7. Described(q)'
    BY <2>1, <2>3, <2>5, <2>6, <1>14 DEF Described
  <2> QED
    BY <2>3, <2>4, <2>5, <2>7
<1>16. Shared'
  <2>1. \A q \in Requesting' : Described(q)'
    BY <1>13, <1>15
  <2>2. \A q, r \in Requesting' : q # r =>
          {First(q)', Second(q)', Third(q)'} \cap {First(r)', Second(r)', Third(r)'} = {}
    <3> SUFFICES ASSUME NEW q \in Requesting', NEW r \in Requesting', q # r
                 PROVE {First(q)', Second(q)', Third(q)'} \cap {First(r)', Second(r)', Third(r)'} = {}
      OBVIOUS
    <3>1. q \in Requesting /\ r \in Requesting /\ q # p /\ r # p
      BY <1>13
    <3>2. {First(q), Second(q), Third(q)} \cap {First(r), Second(r), Third(r)} = {}
      BY <3>1 DEF Shared
    <3> QED
      BY <3>1, <3>2, <1>15
  <2>3. ASSUME NEW d \in Desc \ free'
        PROVE \E q \in Requesting' : d \in {First(q)', Second(q)', Third(q)'}
    <3>1. d \in Desc \ free /\ d \notin C
      BY <1>4
    <3>2. PICK q \in Requesting : d \in {First(q), Second(q), Third(q)}
      BY <3>1 DEF Shared
    <3>3. q # p
      BY <3>1, <3>2 DEF C
    <3> QED
      BY <3>2, <3>3, <1>13, <1>15
  <2> QED
    BY <2>1, <2>2, <2>3 DEF Shared
<1>17. /\ Coming' = Coming /\ Unseen' = Unseen /\ inflight' = inflight
       /\ NoRepeat(fetched, avail_idx, avail)' /\ NoRepeat(used_idx, used_ring_idx, used)'
       /\ NoLostCompletion'
  BY <1>4 DEF rings, Coming, Unseen, Tracked, NoLostCompletion, MoreUsed
<1>18. head[p] \notin All
  BY <1>1 DEF Tracked
<1>19. Tracked'
  <2>1. \A q \in Requesting' :
          owned'[buf'[q]] <=> head'[q] \in (Coming \cup inflight \cup Unseen)'
    BY <1>4, <1>13, <1>15, <1>17 DEF Tracked
  <2>2. \A g \in (Coming \cup inflight \cup Unseen)' : \E q \in Requesting' : g = head'[q]
    <3> SUFFICES ASSUME NEW g \in All PROVE \E q \in Requesting' : g = head'[q]
      BY <1>17
    <3>1. PICK q \in Requesting : g = head[q]
      BY DEF Tracked
    <3>2. q # p
      BY <3>1, <1>18
    <3> QED
      BY <3>1, <3>2, <1>13, <1>15
  <2>3. \A g \in Unseen' : ops'[g].status = 0
    <3> SUFFICES ASSUME NEW g \in Unseen PROVE ops'[g].status = 0
      BY <1>17
    <3>1. PICK q \in Requesting : g = head[q]
      BY DEF Tracked
    <3>2. q # p
      BY <3>1, <1>18
    <3>3. g \in Desc \ C
      BY <3>1, <3>2, <1>15 DEF First
    <3> QED
      BY <3>3, <1>14 DEF Tracked
  <2> QED
    BY <2>1, <2>2, <2>3, <1>17 DEF Tracked
<1>20. Clean'
  <2>1. data[i] = disk[blk[i]]
    BY <1>1, <1>18 DEF Clean
  <2>2. /\ UNCHANGED <<disk, blk, data, buf, pinned>>
        /\ valid'[i] /\ \A j \in Buf : j # i => valid'[j] = valid[j]
        /\ \A q \in Proc : q # p => write'[q] = write[q]
    BY <1>2, <1>4 DEF FlagType
  <2>3. \A q \in Proc : q # p /\ st[q] \in HasLock => buf[q] \in Buf /\ buf[q] # i
    BY <1>1, HolderAlone DEF HasLock
  <2>4. \A q \in Proc : q # p => /\ InRw(q)' <=> InRw(q)
                                 /\ st'[q] \in {"held", "written"} => st'[q] = st[q]
    BY <1>6 DEF InRw, DriverStatus
  <2>5. ~InRw(p)'
    BY <1>6 DEF InRw, DriverStatus
  <2>6. ASSUME NEW q \in Proc, InRw(q)' PROVE valid'[buf'[q]] <=> write'[q]
    <3>1. q # p /\ InRw(q)
      BY <2>4, <2>5, <2>6
    <3>2. buf[q] \in Buf /\ buf[q] # i
      BY <3>1, <2>3 DEF InRw, DriverStatus, HasLock
    <3> QED
      BY <3>1, <3>2, <2>2 DEF Clean
  <2>7. ASSUME NEW q \in Proc, st'[q] \in {"held", "written"} PROVE valid'[buf'[q]]
    <3>1. CASE q = p
      BY <3>1, <2>2
    <3>2. CASE q # p
      <4>1. st[q] \in {"held", "written"}
        BY <3>2, <2>4, <2>7
      <4>2. buf[q] \in Buf /\ buf[q] # i
        BY <3>2, <4>1, <2>3 DEF HasLock
      <4> QED
        BY <4>1, <4>2, <2>2 DEF Clean
    <3> QED
      BY <3>1, <3>2
  <2>8. \A q \in Requesting' : head'[q] \notin (Coming \cup inflight)' =>
          data'[buf'[q]] = disk'[blk'[buf'[q]]]
    BY <2>2, <1>13, <1>15, <1>17 DEF Clean
  <2>9. \A q \in Proc : st'[q] = "written" => data'[buf'[q]] = disk'[blk'[buf'[q]]]
    BY <2>1, <2>2, <2>4 DEF Clean
  <2>10. ASSUME NEW j \in Buf, blk'[j] # None, valid'[j], blk'[j] \notin pinned'
         PROVE  \/ data'[j] = disk'[blk'[j]]
                \/ \E q \in Proc : buf'[q] = j /\ InRw(q)' /\ write'[q]
    <3>1. CASE j = i
      BY <3>1, <2>1, <2>2
    <3>2. CASE j # i
      <4>1. valid[j] /\ blk[j] # None /\ blk[j] \notin pinned
        BY <3>2, <2>2, <2>10
      <4>2. CASE data[j] = disk[blk[j]]
        BY <4>2, <2>2
      <4>3. CASE \E q \in Proc : buf[q] = j /\ InRw(q) /\ write[q]
        <5>1. PICK q \in Proc : buf[q] = j /\ InRw(q) /\ write[q]
          BY <4>3
        <5>2. q # p
          BY <3>2, <5>1
        <5> QED
          BY <5>1, <5>2, <2>2, <2>4
      <4> QED
        BY <4>1, <4>2, <4>3 DEF Clean
    <3> QED
      BY <3>1, <3>2
  <2> QED
    BY <2>6, <2>7, <2>8, <2>9, <2>10 DEF Clean
<1> QED
  BY <1>7, <1>8, <1>9, <1>10, <1>12, <1>16, <1>19, <1>20

-----------------------------------------------------------------------------
\* Every step keeps the invariant.
LEMMA StepIInv == IInv /\ [Next]_vars => IInv'
<1> SUFFICES ASSUME IInv, [Next]_vars PROVE IInv'
  OBVIOUS
<1>1. ASSUME NEW p \in Proc, Run(p) PROVE IInv'
  <2>1. CASE RwStart(p) /\ UNCHANGED bvars
    <3>1. /\ st[p] = "rw" /\ (NoDescriptors(p) \/ Submit(p))
          /\ UNCHANGED <<disk, blk, data, buf, write, lost, bvars>>
      BY <2>1 DEF RwStart
    <3> QED
      BY <3>1, NoDescriptorsStep, SubmitStep
  <2>2. CASE RwAgain(p) /\ UNCHANGED bvars
    BY <2>2, WakeSteps
  <2> QED
    BY <1>1, <2>1, <2>2, AcquireStep, RwReturnStep, BunpinStep, ReleaseStep, UnrefStep DEF Run
<1>2. ASSUME NEW p \in Proc, Kill(p) PROVE IInv'
  BY <1>2, WakeSteps
<1>3. ASSUME NEW p \in Proc, NEW b \in Block, Bget(p, b) PROVE IInv'
  BY <1>3, BgetStep
<1>4. ASSUME NEW p \in Proc, NEW v \in Val, LogWrite(p, v) \/ Bwrite(p, v) PROVE IInv'
  BY <1>4, LogWriteStep, BwriteStep
<1>5. ASSUME Device \/ Handler, UNCHANGED bvars PROVE IInv'
  BY <1>5, FetchStep, DoneStep, IntrSteps, IntrOneStep DEF Device, Handler
<1>6. ASSUME UNCHANGED vars PROVE IInv'
  <2>1. st \in [Proc -> Status] /\ lost \in SUBSET Proc
    BY DEF IInv, Types, MemoryType
  <2>2. UNCHANGED <<disk, blk, data, owned, free, desc, ops, info, rings, buf, write,
                    head, lost, bvars>> /\ st' = st
    BY <1>6 DEF vars, dvars, rings
  <2> QED
    BY <2>1, <2>2, SleepStep
<1>7. ASSUME NEW p \in Proc, Lose(p) PROVE IInv'
  <2>1. st \in [Proc -> Status] /\ lost \in SUBSET Proc
    BY DEF IInv, Types, MemoryType
  <2>2. UNCHANGED <<disk, blk, data, owned, free, desc, ops, info, rings, buf, write,
                    head, bvars>> /\ st' = st /\ lost' = lost \cup {p}
    BY <1>7 DEF Lose
  <2> QED
    BY <2>1, <2>2, SleepStep
<1> QED
  BY <1>1, <1>2, <1>3, <1>4, <1>5, <1>6, <1>7 DEF Next

\* The inductive invariant holds always.
THEOREM Inductive == Spec => []IInv
<1>1. Init => IInv
  BY InitIInv
<1>2. IInv /\ [Next]_vars => IInv'
  BY StepIInv
<1> QED
  BY <1>1, <1>2, PTL DEF Spec

-----------------------------------------------------------------------------
(* The driver's books.                                                     *)

\* The descriptors that are not free are those of the requests, three each.
LEMMA DescriptorsShared == IInv => DescriptorsExact
<1> SUFFICES ASSUME IInv PROVE DescriptorsExact
  OBVIOUS
<1> USE DEF IInv, Types
<1>1. ASSUME NEW p \in Requesting
      PROVE  /\ Chain(head[p]) = {First(p), Second(p), Third(p)}
             /\ Chain(head[p]) \subseteq Desc \ free
  <2>1. Described(p) /\ p \in Proc
    BY DEF Shared, Requesting
  <2>2. Chain(head[p]) = {First(p), Second(p), Third(p)}
    BY <2>1 DEF Chain, Described, First, Second, Third
  <2>3. First(p) \in Desc /\ Second(p) \in Desc /\ Third(p) \in Desc
    BY <2>1 DEF DescType, First, Second, Third
  <2>4. First(p) \notin free /\ Second(p) \notin free /\ Third(p) \notin free
    BY <2>1 DEF Described
  <2> QED
    BY <2>2, <2>3, <2>4
<1>2. ASSUME NEW p \in Requesting PROVE Cardinality(Chain(head[p])) = 3
  <2> DEFINE a == First(p)
             b == Second(p)
             c == Third(p)
  <2>1. a # b /\ b # c /\ a # c
    BY DEF Shared, Described
  <2> HIDE DEF a, b, c
  <2>2. IsFiniteSet({}) /\ Cardinality({}) = 0
    BY FS_EmptySet
  <2>3. IsFiniteSet({} \cup {a}) /\ Cardinality({} \cup {a}) = 1
    BY <2>2, FS_AddElement
  <2>4. {a} = {} \cup {a} /\ b \notin {a}
    BY <2>1
  <2>5. IsFiniteSet({a} \cup {b}) /\ Cardinality({a} \cup {b}) = 2
    BY <2>3, <2>4, FS_AddElement
  <2>6. {a, b} = {a} \cup {b} /\ c \notin {a, b}
    BY <2>1
  <2>7. Cardinality({a, b} \cup {c}) = 3
    BY <2>5, <2>6, FS_AddElement
  <2>8. {a, b, c} = {a, b} \cup {c}
    OBVIOUS
  <2> QED
    BY <1>1, <2>7, <2>8 DEF a, b, c
<1>3. \A p, q \in Requesting : p # q => Chain(head[p]) \cap Chain(head[q]) = {}
  BY <1>1 DEF Shared
<1>4. free = Desc \ UNION {Chain(head[p]) : p \in Requesting}
  <2>1. \A d \in Desc : d \notin free => \E p \in Requesting : d \in Chain(head[p])
    BY <1>1 DEF Shared
  <2>2. \A d \in free : d \in Desc
    BY DEF DescType
  <2> QED
    BY <1>1, <2>1, <2>2
<1> QED
  BY <1>2, <1>3, <1>4 DEF DescriptorsExact

\* The rings carry exactly the requests whose buffers the disk owns.
LEMMA RingsExact == IInv => RequestsTracked
<1> SUFFICES ASSUME IInv PROVE RequestsTracked
  OBVIOUS
<1> USE DEF IInv, Types
<1>1. Unanswered = Coming \cup inflight
  BY DEF Unanswered, Coming
<1>2. Unanswered \cap Unseen = {}
  BY <1>1 DEF Tracked
<1>3. Unanswered \cup Unseen = {head[p] : p \in {q \in Requesting : owned[buf[q]]}}
  BY <1>1 DEF Tracked
<1>4. ASSUME NEW h \in Unseen PROVE info[h] # None /\ ops[h].status = 0
  <2>1. PICK p \in Requesting : h = head[p]
    BY DEF Tracked
  <2>2. p \in Proc /\ st[p] # "idle"
    BY DEF Requesting
  <2>3. info[h] = buf[p] /\ buf[p] \in Buf
    BY <2>1, <2>2, HolderAlone DEF Shared, Described, First
  <2> QED
    BY <2>3, VirtioAssumption DEF Tracked
<1> QED
  BY <1>2, <1>3, <1>4 DEF RequestsTracked

\* DriverExact: however transfers, completions, interrupts and kills
\* interleave, and however far the 16-bit ring indices have wrapped,
\* virtio_disk.c's descriptors are shared out exactly, every request is in
\* one place of the rings, and no completion is missed.
THEOREM DriverBooks == Spec => []DriverExact
<1>1. IInv => DriverExact
  BY DescriptorsShared, RingsExact DEF DriverExact, IInv, Tracked
<1> QED
  BY <1>1, Inductive, PTL

-----------------------------------------------------------------------------
(* The cache's books.                                                      *)

\* A count is at most one for every process and one for the pin.
LEMMA TypesOK == IInv => TypeOK
<1> SUFFICES ASSUME IInv PROVE TypeOK
  OBVIOUS
<1> USE DEF IInv, Types
<1>1. ASSUME NEW i \in Buf PROVE refcnt[i] \in 0 .. Cardinality(Proc) + 1
  <2> DEFINE S == UsersOf(buf, i)
  <2>1. S \in SUBSET Proc
    BY DEF UsersOf
  <2>2. Cardinality(S) \in Nat /\ Cardinality(S) <= Cardinality(Proc)
        /\ Cardinality(Proc) \in Nat
    BY <2>1, VirtioAssumption, FS_Subset, FS_CardinalityType
  <2>3. refcnt[i] = Cardinality(S) + (IF blk[i] \in pinned THEN 1 ELSE 0)
    BY DEF Refs
  <2> HIDE DEF S
  <2> QED
    BY <2>2, <2>3
<1>2. refcnt \in [Buf -> 0 .. Cardinality(Proc) + 1]
  BY <1>1 DEF Refs
<1>3. ToSet(lru) = Buf
  BY DEF LruType, ToSet
<1>4. {avail_idx, fetched, used_idx, used_ring_idx} \subseteq 0 .. IDX - 1
  BY DEF RingType, Index
<1> QED
  BY <1>2, <1>3, <1>4 DEF TypeOK, MemoryType, FlagType, DescType, RingType, LruType

\* bget() does not run out of buffers: if all of them are referenced they
\* stand for as many blocks in use.
LEMMA BufferFound ==
    ASSUME IInv, NEW p \in Proc, NEW b \in Block, MayGet(p, b)
    PROVE  Cached(b) # {} \/ Unused # {}
<1> USE DEF IInv, Types
<1> SUFFICES ASSUME Cached(b) = {}, Unused = {} PROVE FALSE
  OBVIOUS
<1> DEFINE B == {blk[i] : i \in Buf}
<1>1. ASSUME NEW i \in Buf PROVE blk[i] \in InUse /\ blk[i] # None
  <2>1. refcnt[i] # 0
    BY DEF Unused
  <2>2. CASE blk[i] \in pinned
    BY <2>2, VirtioAssumption DEF InUse, MemoryType
  <2>3. CASE blk[i] \notin pinned
    <3>1. UsersOf(buf, i) # {}
      <4>1. refcnt[i] = Cardinality(UsersOf(buf, i))
        BY <2>3, VirtioAssumption, FS_Subset, FS_CardinalityType DEF Refs, UsersOf
      <4> QED
        BY <4>1, <2>1, FS_EmptySet
    <3>2. PICK q \in Proc : buf[q] = i
      BY <3>1 DEF UsersOf
    <3>3. st[q] # "idle"
      BY <3>2, VirtioAssumption DEF Users
    <3> QED
      BY <3>2, <3>3 DEF InUse, Users
  <2> QED
    BY <2>2, <2>3
<1>2. InUse = B
  <2>1. InUse \subseteq B
    <3>1. ASSUME NEW q \in Proc, st[q] # "idle" PROVE blk[buf[q]] \in B
      BY <3>1, HolderAlone
    <3>2. \A c \in pinned : c \in B
      BY DEF Users
    <3> QED
      BY <3>1, <3>2 DEF InUse
  <2> QED
    BY <1>1, <2>1
<1>3. blk \in Injection(Buf, B) /\ blk \in Surjection(Buf, B)
  BY <1>1 DEF MemoryType, Users, Injection, IsInjective, Surjection
<1>4. b \notin B
  BY DEF Cached
<1> HIDE DEF B
<1>5. IsFiniteSet(B) /\ Cardinality(B) = Cardinality(Buf)
  BY <1>3, VirtioAssumption, FS_Surjection
<1>6. Cardinality(B \cup {b}) = Cardinality(Buf) + 1
  BY <1>4, <1>5, FS_AddElement
<1>7. Cardinality(Buf) \in Nat
  BY VirtioAssumption, FS_CardinalityType
<1> QED
  BY <1>2, <1>6, <1>7 DEF MayGet

\* CacheConsistent: through the two critical sections of bget() and
\* brelse(), the pins of log_write() and every wakeup, bio.c keeps one
\* buffer for a block and one user for a buffer, counts every reference,
\* finds a buffer while the blocks in use are no more than the buffers, and
\* leaves no sleeper at a free lock.
THEOREM CacheBooks == Spec => []CacheConsistent
<1>1. IInv => CacheConsistent
  <2> SUFFICES ASSUME IInv PROVE CacheConsistent
    OBVIOUS
  <2>1. OneBuffer /\ LockSleepers
    BY HolderAlone DEF IInv, Types, OneBuffer, Users
  <2>2. RefExact
    BY BufferFound DEF IInv, Refs, RefExact, UsersOf
  <2> QED
    BY <2>1, <2>2, TypesOK DEF CacheConsistent
<1> QED
  BY <1>1, Inductive, PTL

-----------------------------------------------------------------------------
(* The block store.                                                        *)

\* Contents(b) when the cache and the disk are as the arguments say.
ContentsIn(bk, vl, dt, dk, b) ==
    IF \E i \in Buf : bk[i] = b /\ vl[i]
    THEN dt[CHOOSE i \in Buf : bk[i] = b /\ vl[i]]
    ELSE dk[b]

\* The valid buffer of a block is the only one, and has its contents.
LEMMA ContentsOf ==
    ASSUME NEW bk, NEW vl, NEW dt, NEW dk, NEW b \in Block,
           \A i, j \in Buf : bk[i] = bk[j] /\ bk[i] # None => i = j
    PROVE  /\ \A i \in Buf : bk[i] = b /\ vl[i] => ContentsIn(bk, vl, dt, dk, b) = dt[i]
           /\ (\A i \in Buf : bk[i] = b => ~vl[i]) => ContentsIn(bk, vl, dt, dk, b) = dk[b]
<1>1. b # None
  BY VirtioAssumption
<1>2. ASSUME NEW i \in Buf, bk[i] = b, vl[i]
      PROVE  ContentsIn(bk, vl, dt, dk, b) = dt[i]
  <2> DEFINE c == CHOOSE j \in Buf : bk[j] = b /\ vl[j]
  <2>1. c \in Buf /\ bk[c] = b
    BY <1>2
  <2>2. c = i
    BY <1>1, <1>2, <2>1
  <2> QED
    BY <1>2, <2>2 DEF ContentsIn
<1>3. (\A i \in Buf : bk[i] = b => ~vl[i]) => ContentsIn(bk, vl, dt, dk, b) = dk[b]
  BY DEF ContentsIn
<1> QED
  BY <1>2, <1>3

\* The contents of a block, before and after a step.
LEMMA ContentsNow ==
    ASSUME Users, NEW b \in Block
    PROVE  /\ \A i \in Buf : blk[i] = b /\ valid[i] => Contents(b) = data[i]
           /\ (\A i \in Buf : blk[i] = b => ~valid[i]) => Contents(b) = disk[b]
<1>1. Contents(b) = ContentsIn(blk, valid, data, disk, b)
  BY DEF Contents, ContentsIn
<1>2. \A i, j \in Buf : blk[i] = blk[j] /\ blk[i] # None => i = j
  BY DEF Users
<1> QED
  BY <1>1, <1>2, ContentsOf

LEMMA ContentsNext ==
    ASSUME Users', NEW b \in Block
    PROVE  /\ \A i \in Buf : blk'[i] = b /\ valid'[i] => Contents(b)' = data'[i]
           /\ (\A i \in Buf : blk'[i] = b => ~valid'[i]) => Contents(b)' = disk'[b]
<1>1. Contents(b)' = ContentsIn(blk', valid', data', disk', b)
  BY DEF Contents, ContentsIn
<1>2. \A i, j \in Buf : blk'[i] = blk'[j] /\ blk'[i] # None => i = j
  BY DEF Users
<1> QED
  BY <1>1, <1>2, ContentsOf

\* The holder, of one process that has the lock or of none.
LEMMA HolderIs ==
    ASSUME NEW b
    PROVE  /\ Holders(b) = {} => HolderOf(b) = None
           /\ \A p : Holders(b) = {p} => HolderOf(b) = p
           /\ (Holders(b) = {} => HolderOf(b) = None)'
           /\ \A p : (Holders(b)' = {p} => HolderOf(b)' = p)
           /\ Holders(b)' = Holders(b) => HolderOf(b)' = HolderOf(b)
<1>1. \A p : (CHOOSE q \in {p} : TRUE) = p
  OBVIOUS
<1>2. Holders(b) = {} => HolderOf(b) = None
  BY DEF HolderOf
<1>3. ASSUME NEW p, Holders(b) = {p} PROVE HolderOf(b) = p
  BY <1>1, <1>3 DEF HolderOf
<1>4. Holders(b)' = {} => HolderOf(b)' = None
  BY DEF HolderOf
<1>5. ASSUME NEW p, Holders(b)' = {p} PROVE HolderOf(b)' = p
  BY <1>1, <1>5 DEF HolderOf
<1>6. ASSUME Holders(b)' = Holders(b) PROVE HolderOf(b)' = HolderOf(b)
  BY <1>6 DEF HolderOf
<1> QED
  BY <1>2, <1>3, <1>4, <1>5, <1>6

\* A step that keeps the contents, the disk and the holders is no step of
\* the store.
LEMMA StoreStutter ==
    ASSUME \A b \in Block : Contents(b)' = Contents(b), disk' = disk,
           \A b \in Block : Holders(b)' = Holders(b)
    PROVE  UNCHANGED Store!vars
<1>1. \A b \in Block : HolderOf(b)' = HolderOf(b)
  BY HolderIs
<1> QED
  BY <1>1 DEF Store!vars

\* The holders stay while nobody passes or releases a lock.
LEMMA HoldersSame ==
    ASSUME \A q \in Proc : st'[q] \in HasLock <=> st[q] \in HasLock,
           \A q \in Proc : st[q] \in HasLock => /\ buf'[q] = buf[q]
                                                /\ blk'[buf[q]] = blk[buf[q]]
    PROVE  \A b \in Block : Holders(b)' = Holders(b)
BY DEF Holders

\* Who holds the block of a process that has its lock, or could take it.
LEMMA HoldersOf ==
    ASSUME MemoryType, Users, NEW p \in Proc
    PROVE  /\ st[p] \in HasLock => Holders(blk[buf[p]]) = {p}
           /\ st[p] # "idle" /\ lock[buf[p]] = None => Holders(blk[buf[p]]) = {}
<1>1. ASSUME NEW q \in Holders(blk[buf[p]]), st[p] # "idle"
      PROVE  q \in Proc /\ st[q] \in HasLock /\ buf[q] = buf[p] /\ lock[buf[p]] = q
  <2>1. q \in Proc /\ st[q] \in HasLock /\ blk[buf[q]] = blk[buf[p]]
    BY DEF Holders
  <2>2. st[q] # "idle"
    BY <2>1 DEF HasLock
  <2>3. buf[q] = buf[p]
    BY <1>1, <2>1, <2>2, HolderAlone DEF Users
  <2> QED
    BY <2>1, <2>3 DEF Users
<1>2. ASSUME st[p] \in HasLock PROVE Holders(blk[buf[p]]) = {p}
  <2>1. p \in Holders(blk[buf[p]]) /\ st[p] # "idle" /\ lock[buf[p]] = p
    BY <1>2 DEF Holders, HasLock, Users
  <2> QED
    BY <1>1, <2>1
<1>3. ASSUME st[p] # "idle", lock[buf[p]] = None PROVE Holders(blk[buf[p]]) = {}
  <2>1. None \notin Proc
    BY VirtioAssumption
  <2> QED
    BY <1>1, <1>3, <2>1
<1> QED
  BY <1>2, <1>3

\* Steps that leave the buffers, the disk and the holders alone.
LEMMA StoreFrame ==
    ASSUME UNCHANGED <<disk, blk, data, buf, valid>>,
           \A q \in Proc : st'[q] \in HasLock <=> st[q] \in HasLock
    PROVE  UNCHANGED Store!vars
<1>1. \A b \in Block : Contents(b)' = Contents(b)
  BY DEF Contents
<1>2. \A b \in Block : Holders(b)' = Holders(b)
  BY HoldersSame
<1> QED
  BY <1>1, <1>2, StoreStutter

\* bget() recycles a buffer only if the disk has what it holds.
LEMMA BgetStore ==
    ASSUME IInv, IInv', NEW p \in Proc, NEW b \in Block, Bget(p, b)
    PROVE  UNCHANGED Store!vars
<1> USE DEF IInv, Types
<1>1. /\ st[p] = "idle" /\ st' = [st EXCEPT ![p] = "lock"]
      /\ UNCHANGED <<disk, data>>
  BY DEF Bget, MayGet
<1>2. \A q \in Proc : st'[q] \in HasLock <=> st[q] \in HasLock
  BY <1>1 DEF HasLock, MemoryType
<1>3. st[p] \notin HasLock
  BY <1>1 DEF HasLock
<1>4. CASE \E i \in Cached(b) : /\ buf' = [buf EXCEPT ![p] = i]
                                /\ UNCHANGED <<blk, valid>>
  <2>1. \A c \in Block : Contents(c)' = Contents(c)
    BY <1>1, <1>4 DEF Contents
  <2>2. \A q \in Proc : st[q] \in HasLock => buf'[q] = buf[q] /\ blk'[buf[q]] = blk[buf[q]]
    BY <1>3, <1>4 DEF MemoryType
  <2> QED
    BY <2>1, <2>2, <1>1, <1>2, HoldersSame, StoreStutter
<1>5. CASE /\ Cached(b) = {} /\ Unused # {}
           /\ blk' = [blk EXCEPT ![Victim] = b]
           /\ valid' = Invalid(Victim)
           /\ buf' = [buf EXCEPT ![p] = Victim]
  <2> DEFINE i == Victim
  <2>1. i \in Buf /\ refcnt[i] = 0
    BY <1>5, VictimUnused DEF Unused
  <2> HIDE DEF i
  <2>2. blk[i] \notin pinned /\ \A q \in Proc : buf[q] # i
    BY <2>1, NoReference
  <2>3. /\ blk' = [blk EXCEPT ![i] = b] /\ valid' = [valid EXCEPT ![i] = FALSE]
        /\ buf' = [buf EXCEPT ![p] = i]
    BY <1>5 DEF i, Invalid
  <2>4. /\ blk'[i] = b /\ ~valid'[i]
        /\ \A j \in Buf : j # i => blk'[j] = blk[j] /\ valid'[j] = valid[j]
    BY <2>1, <2>3 DEF MemoryType, FlagType
  <2>5. ASSUME NEW c \in Block PROVE Contents(c)' = Contents(c)
    <3>1. CASE \E j \in Buf : j # i /\ blk[j] = c /\ valid[j]
      <4>1. PICK j \in Buf : j # i /\ blk[j] = c /\ valid[j]
        BY <3>1
      <4>2. Contents(c) = data[j]
        BY <4>1, ContentsNow
      <4>3. Contents(c)' = data'[j]
        BY <4>1, <2>4, ContentsNext
      <4> QED
        BY <4>2, <4>3, <1>1
    <3>2. CASE ~\E j \in Buf : j # i /\ blk[j] = c /\ valid[j]
      <4>1. Contents(c)' = disk'[c]
        <5>1. \A j \in Buf : blk'[j] = c => ~valid'[j]
          BY <3>2, <2>4
        <5> QED
          BY <5>1, ContentsNext
      <4>2. CASE blk[i] = c /\ valid[i]
        <5>1. data[i] = disk[c]
          BY <4>2, <2>1, <2>2, VirtioAssumption DEF Clean
        <5>2. Contents(c) = data[i]
          BY <4>2, <2>1, ContentsNow
        <5> QED
          BY <5>1, <5>2, <4>1, <1>1
      <4>3. CASE ~(blk[i] = c /\ valid[i])
        <5>1. \A j \in Buf : blk[j] = c => ~valid[j]
          BY <3>2, <4>3
        <5>2. Contents(c) = disk[c]
          BY <5>1, ContentsNow
        <5> QED
          BY <5>2, <4>1, <1>1
      <4> QED
        BY <4>2, <4>3
    <3> QED
      BY <3>1, <3>2
  <2>6. ASSUME NEW q \in Proc, st[q] \in HasLock
        PROVE  buf'[q] = buf[q] /\ blk'[buf[q]] = blk[buf[q]]
    <3>1. q # p /\ buf[q] \in Buf /\ buf[q] # i
      BY <2>2, <2>6, <1>3, HolderAlone DEF HasLock
    <3> QED
      BY <3>1, <2>3, <2>4 DEF MemoryType
  <2> QED
    BY <2>5, <2>6, <1>1, <1>2, HoldersSame, StoreStutter
<1> QED
  BY <1>4, <1>5 DEF Bget

\* acquiresleep() takes the block over from nobody.
LEMMA AcquireStore ==
    ASSUME IInv, IInv', NEW p \in Proc, AcquireSleep(p)
    PROVE  Store!Next \/ UNCHANGED Store!vars
<1> USE DEF IInv, Types
<1>1. st[p] = "lock" /\ UNCHANGED <<disk, blk, data, buf, valid>>
  BY DEF AcquireSleep
<1>2. CASE st' = [st EXCEPT ![p] = "asleep"]
  <2>1. \A q \in Proc : st'[q] \in HasLock <=> st[q] \in HasLock
    BY <1>1, <1>2 DEF HasLock, MemoryType
  <2> QED
    BY <2>1, <1>1, StoreFrame
<1>3. CASE ~MustSleep(p) /\ st' = [st EXCEPT ![p] = IF valid[buf[p]] THEN "held" ELSE "rw"]
  <2>1. PICK b \in Block : b = blk[buf[p]]
    BY <1>1, HolderAlone
  <2>2. Holders(b) = {}
    BY <1>1, <1>3, <2>1, HoldersOf DEF MustSleep
  <2>3. Holders(b)' = {p}
    BY <1>1, <1>3, <2>1, <2>2 DEF Holders, HasLock, MemoryType
  <2>4. \A c \in Block : c # b => Holders(c)' = Holders(c)
    BY <1>1, <1>3, <2>1 DEF Holders, HasLock, MemoryType
  <2>5. \A c \in Block : Contents(c)' = Contents(c)
    BY <1>1 DEF Contents
  <2>6. /\ HolderOf(b) = None /\ HolderOf(b)' = p
        /\ \A c \in Block : c # b => HolderOf(c)' = HolderOf(c)
    BY <2>2, <2>3, <2>4, HolderIs
  <2>7. Store!Hold(p, b)
    BY <2>5, <2>6, <1>1 DEF Store!Hold
  <2> QED
    BY <2>7 DEF Store!Next
<1> QED
  BY <1>2, <1>3 DEF AcquireSleep

\* releasesleep() lets the block go.
LEMMA ReleaseStore ==
    ASSUME IInv, NEW p \in Proc, ReleaseSleep(p)
    PROVE  Store!Next
<1> USE DEF IInv, Types
<1>1. /\ st[p] \in {"held", "written"} /\ UNCHANGED <<disk, blk, data, buf, valid>>
      /\ st' = [WakeLock(buf[p]) EXCEPT ![p] = "unref"]
  BY DEF ReleaseSleep
<1>2. PICK b \in Block : b = blk[buf[p]]
  BY <1>1, HolderAlone
<1>3. Holders(b) = {p}
  BY <1>1, <1>2, HoldersOf DEF HasLock
<1>4. /\ st'[p] \notin HasLock
      /\ \A q \in Proc : q # p => (st'[q] \in HasLock <=> st[q] \in HasLock)
  BY <1>1 DEF WakeLock, HasLock, Asleep
<1>5. \A c \in Block : Holders(c)' = Holders(c) \ {p}
  BY <1>1, <1>4 DEF Holders
<1>6. Holders(b)' = {} /\ \A c \in Block : c # b => Holders(c)' = Holders(c)
  <2>1. \A c \in Block : c # b => p \notin Holders(c)
    BY <1>2 DEF Holders
  <2> QED
    BY <2>1, <1>3, <1>5
<1>7. \A c \in Block : Contents(c)' = Contents(c)
  BY <1>1 DEF Contents
<1>8. /\ HolderOf(b) = p /\ HolderOf(b)' = None
      /\ \A c \in Block : c # b => HolderOf(c)' = HolderOf(c)
  BY <1>3, <1>6, HolderIs
<1>9. Store!LetGo(p, b)
  BY <1>1, <1>7, <1>8 DEF Store!LetGo
<1> QED
  BY <1>9 DEF Store!Next

\* log_write() and bwrite() are called with the new contents in the buffer
\* of the block's holder.
LEMMA ChangeStore ==
    ASSUME IInv, IInv', NEW p \in Proc, NEW v \in Val, LogWrite(p, v) \/ Bwrite(p, v)
    PROVE  Store!Next
<1> USE DEF IInv, Types
<1> DEFINE i == buf[p]
<1>1. /\ st[p] = "held" /\ data' = [data EXCEPT ![i] = v]
      /\ UNCHANGED <<disk, blk, buf, valid>>
      /\ st' = st \/ st' = [st EXCEPT ![p] = "rw"]
  BY DEF LogWrite, Bwrite, bvars
<1>2. i \in Buf /\ valid[i]
  BY <1>1, HolderAlone DEF Clean
<1>3. PICK b \in Block : b = blk[i]
  BY <1>1, HolderAlone
<1>4. Holders(b) = {p}
  BY <1>1, <1>3, HoldersOf DEF HasLock
<1>5. \A c \in Block : Holders(c)' = Holders(c)
  <2>1. \A q \in Proc : st'[q] \in HasLock <=> st[q] \in HasLock
    BY <1>1 DEF HasLock, MemoryType
  <2> QED
    BY <2>1, <1>1, HoldersSame
<1>6. data'[i] = v /\ \A j \in Buf : j # i => data'[j] = data[j]
  BY <1>1, <1>2 DEF MemoryType
<1>7. Contents(b)' = v
  BY <1>1, <1>2, <1>3, <1>6, ContentsNext
<1>8. ASSUME NEW c \in Block, c # b PROVE Contents(c)' = Contents(c)
  <2>1. CASE \E j \in Buf : blk[j] = c /\ valid[j]
    <3>1. PICK j \in Buf : blk[j] = c /\ valid[j]
      BY <2>1
    <3>2. j # i
      BY <3>1, <1>3, <1>8
    <3>3. Contents(c) = data[j]
      BY <3>1, ContentsNow
    <3>4. Contents(c)' = data'[j]
      BY <3>1, <1>1, ContentsNext
    <3> QED
      BY <3>2, <3>3, <3>4, <1>6
  <2>2. CASE \A j \in Buf : blk[j] = c => ~valid[j]
    <3>1. Contents(c) = disk[c]
      BY <2>2, ContentsNow
    <3>2. Contents(c)' = disk'[c]
      BY <2>2, <1>1, ContentsNext
    <3> QED
      BY <3>1, <3>2, <1>1
  <2> QED
    BY <2>1, <2>2
<1>9. HolderOf(b) = p /\ \A c \in Block : HolderOf(c)' = HolderOf(c)
  BY <1>4, <1>5, HolderIs
<1>10. Store!Change(p, b, v)
  BY <1>1, <1>7, <1>8, <1>9 DEF Store!Change
<1> QED
  BY <1>10 DEF Store!Next

\* What virtio_disk_rw() has read becomes valid, and is what is on the disk.
LEMMA ReturnStore ==
    ASSUME IInv, IInv', NEW p \in Proc, RwReturn(p)
    PROVE  UNCHANGED Store!vars
<1> USE DEF IInv, Types
<1> DEFINE i == buf[p]
<1>1. /\ st[p] = "done" /\ ~owned[i] /\ UNCHANGED <<disk, blk, data, buf>>
      /\ st' = [WakeFree EXCEPT ![p] = IF write[p] THEN "written" ELSE "held"]
      /\ valid' = [valid EXCEPT ![i] = TRUE]
  BY DEF RwReturn, RwEnd, StillOwned
<1>2. i \in Buf /\ p \in Requesting
  BY <1>1, HolderAlone DEF Requesting
<1>3. data[i] = disk[blk[i]]
  BY <1>1, <1>2 DEF Tracked, Clean
<1>4. valid'[i] /\ \A j \in Buf : j # i => valid'[j] = valid[j]
  BY <1>1, <1>2 DEF FlagType
<1>5. \A q \in Proc : st'[q] \in HasLock <=> st[q] \in HasLock
  BY <1>1 DEF WakeFree, HasLock, Asleep
<1>6. ASSUME NEW c \in Block PROVE Contents(c)' = Contents(c)
  <2>1. CASE c = blk[i]
    <3>1. Contents(c)' = data'[i]
      BY <2>1, <1>1, <1>2, <1>4, ContentsNext
    <3>2. CASE valid[i]
      <4>1. Contents(c) = data[i]
        BY <2>1, <3>2, <1>2, ContentsNow
      <4> QED
        BY <4>1, <3>1, <1>1
    <3>3. CASE ~valid[i]
      <4>1. \A j \in Buf : blk[j] = c => ~valid[j]
        BY <2>1, <3>3, <1>2, VirtioAssumption DEF Users
      <4>2. Contents(c) = disk[c]
        BY <4>1, ContentsNow
      <4> QED
        BY <4>2, <3>1, <2>1, <1>1, <1>3
    <3> QED
      BY <3>2, <3>3
  <2>2. CASE c # blk[i]
    <3>1. \A j \in Buf : blk[j] = c => valid'[j] = valid[j] /\ blk'[j] = c /\ data'[j] = data[j]
      BY <2>2, <1>1, <1>4
    <3>2. CASE \E j \in Buf : blk[j] = c /\ valid[j]
      <4>1. PICK j \in Buf : blk[j] = c /\ valid[j]
        BY <3>2
      <4>2. Contents(c) = data[j]
        BY <4>1, ContentsNow
      <4>3. Contents(c)' = data'[j]
        BY <4>1, <3>1, ContentsNext
      <4> QED
        BY <4>2, <4>3, <1>1
    <3>3. CASE \A j \in Buf : blk[j] = c => ~valid[j]
      <4>1. Contents(c) = disk[c]
        BY <3>3, ContentsNow
      <4>2. \A j \in Buf : blk'[j] = c => ~valid'[j]
        BY <3>1, <3>3, <1>1
      <4>3. Contents(c)' = disk'[c]
        BY <4>2, ContentsNext
      <4> QED
        BY <4>1, <4>3, <1>1
    <3> QED
      BY <3>2, <3>3
  <2> QED
    BY <2>1, <2>2
<1>7. \A b \in Block : Holders(b)' = Holders(b)
  BY <1>1, <1>5, HoldersSame
<1> QED
  BY <1>1, <1>6, <1>7, StoreStutter

\* The device stores the holder's contents, or reads into a buffer that is
\* not valid yet.
LEMMA DoneStore ==
    ASSUME IInv, IInv', NEW h \in Desc, DevDone(h), UNCHANGED bvars
    PROVE  Store!Next \/ UNCHANGED Store!vars
<1> USE DEF IInv, Types
<1>1. h \in inflight /\ UNCHANGED <<blk, st, buf, write, valid>>
  BY DEF DevDone, bvars
<1>2. PICK p \in Requesting : h = head[p]
  BY <1>1 DEF Tracked
<1> DEFINE i == buf[p]
<1>3. p \in Proc /\ i \in Buf /\ st[p] \in HasLock /\ InRw(p)
  BY HolderAlone DEF Requesting, HasLock, InRw, DriverStatus
<1>4. PICK b \in Block : b = blk[i]
  BY <1>3, HolderAlone DEF HasLock
<1>5. ops[h].block = b /\ desc[desc[h].next].addr = i /\ ops[h].write = write[p]
  BY <1>2, <1>4 DEF Shared, Described, First, Second
<1>6. valid[i] <=> write[p]
  BY <1>3 DEF Clean
<1>7. \A c \in Block : Holders(c)' = Holders(c)
  BY <1>1, HoldersSame
<1>8. CASE write[p]
  <2>1. disk' = [disk EXCEPT ![b] = data[i]] /\ data' = data
    BY <1>5, <1>8 DEF DevDone
  <2>2. Contents(b) = data[i]
    BY <1>3, <1>4, <1>6, <1>8, ContentsNow
  <2>3. ASSUME NEW c \in Block PROVE Contents(c)' = Contents(c)
    <3>1. CASE \E j \in Buf : blk[j] = c /\ valid[j]
      BY <3>1, <2>1, <1>1, ContentsNow, ContentsNext
    <3>2. CASE \A j \in Buf : blk[j] = c => ~valid[j]
      <4>1. c # b
        BY <3>2, <1>3, <1>4, <1>6, <1>8
      <4>2. disk'[c] = disk[c]
        BY <4>1, <2>1 DEF MemoryType
      <4> QED
        BY <3>2, <4>2, <1>1, ContentsNow, ContentsNext
    <3> QED
      BY <3>1, <3>2
  <2>4. Holders(b) = {p}
    BY <1>3, <1>4, HoldersOf
  <2>5. HolderOf(b) = p /\ \A c \in Block : HolderOf(c)' = HolderOf(c)
    BY <2>4, <1>7, HolderIs
  <2>6. Store!Store(p, b)
    BY <2>1, <2>2, <2>3, <2>5 DEF Store!Store
  <2> QED
    BY <2>6, <1>3 DEF Store!Next
<1>9. CASE ~write[p]
  <2>1. data' = [data EXCEPT ![i] = disk[b]] /\ disk' = disk
    BY <1>5, <1>9 DEF DevDone
  <2>2. ASSUME NEW c \in Block PROVE Contents(c)' = Contents(c)
    <3>1. CASE \E j \in Buf : blk[j] = c /\ valid[j]
      <4>1. PICK j \in Buf : blk[j] = c /\ valid[j]
        BY <3>1
      <4>2. data'[j] = data[j]
        BY <4>1, <2>1, <1>6, <1>9 DEF MemoryType
      <4> QED
        BY <4>1, <4>2, <1>1, ContentsNow, ContentsNext
    <3>2. CASE \A j \in Buf : blk[j] = c => ~valid[j]
      BY <3>2, <2>1, <1>1, ContentsNow, ContentsNext
    <3> QED
      BY <3>1, <3>2
  <2> QED
    BY <2>1, <2>2, <1>7, StoreStutter
<1> QED
  BY <1>8, <1>9

\* Sleeping, waking and handing over requests is no business of the store.
LEMMA OtherStore ==
    ASSUME IInv, NEW p \in Proc,
           \/ Bunpin(p) \/ Unref(p) \/ Kill(p) \/ Lose(p)
           \/ (RwStart(p) \/ RwAgain(p)) /\ UNCHANGED bvars
    PROVE  UNCHANGED Store!vars
<1> USE DEF IInv, Types
<1>1. CASE Bunpin(p)
  BY <1>1, StoreFrame DEF Bunpin, dvars
<1>2. CASE Unref(p)
  <2>1. /\ st[p] = "unref" /\ st' = [st EXCEPT ![p] = "idle"]
        /\ buf' = [buf EXCEPT ![p] = None] /\ UNCHANGED <<disk, blk, data, valid>>
    BY <1>2 DEF Unref
  <2>2. /\ \A q \in Proc : st'[q] \in HasLock <=> st[q] \in HasLock
        /\ \A q \in Proc : st[q] \in HasLock => buf'[q] = buf[q] /\ blk'[buf[q]] = blk[buf[q]]
    BY <2>1 DEF MemoryType, HasLock
  <2>3. \A b \in Block : Contents(b)' = Contents(b)
    BY <2>1 DEF Contents
  <2> QED
    BY <2>1, <2>2, <2>3, HoldersSame, StoreStutter
<1>3. CASE Kill(p) \/ (RwAgain(p) /\ UNCHANGED bvars)
  <2>1. /\ UNCHANGED <<disk, blk, data, buf, valid>>
        /\ \/ st[p] = "asleep" /\ st' = [st EXCEPT ![p] = "lock"]
           \/ st[p] = "nofree" /\ st' = [st EXCEPT ![p] = "rw"]
           \/ st[p] = "wait" /\ st' = [st EXCEPT ![p] = "done"]
           \/ st[p] = "done" /\ st' = [st EXCEPT ![p] = "wait"]
    BY <1>3 DEF Kill, RwAgain, bvars, Asleep
  <2>2. \A q \in Proc : st'[q] \in HasLock <=> st[q] \in HasLock
    BY <2>1 DEF MemoryType, HasLock
  <2> QED
    BY <2>1, <2>2, StoreFrame
<1>4. CASE RwStart(p) /\ UNCHANGED bvars
  <2>1. st[p] = "rw" /\ UNCHANGED <<disk, blk, data, buf, valid>>
    BY <1>4 DEF RwStart, bvars
  <2>2. \/ st' = [(IF free = {} THEN st ELSE WakeFree) EXCEPT ![p] = "nofree"]
        \/ st' = [st EXCEPT ![p] = "wait"]
    BY <1>4 DEF RwStart, NoDescriptors, Submit
  <2>3. \A q \in Proc : st'[q] \in HasLock <=> st[q] \in HasLock
    BY <2>1, <2>2 DEF MemoryType, HasLock, WakeFree, Asleep
  <2> QED
    BY <2>1, <2>3, StoreFrame
<1>5. CASE Lose(p)
  BY <1>5, StoreFrame DEF Lose, bvars
<1> QED
  BY <1>1, <1>2, <1>3, <1>4, <1>5

\* Neither are interrupts, nor the requests the device takes.
LEMMA DriverStore ==
    ASSUME IInv, DevFetch \/ DevIntr \/ Handler, UNCHANGED bvars
    PROVE  UNCHANGED Store!vars
<1>1. UNCHANGED <<disk, blk, data, buf, valid>>
  BY DEF DevFetch, DevIntr, Handler, IntrBegin, IntrOne, IntrEnd, bvars
<1>2. st' = st \/ \E i : st' = WakeBuf(i)
  BY DEF DevFetch, DevIntr, Handler, IntrBegin, IntrOne, IntrEnd
<1>3. \A q \in Proc : st'[q] \in HasLock <=> st[q] \in HasLock
  BY <1>2 DEF WakeBuf, HasLock, Asleep
<1> QED
  BY <1>1, <1>3, StoreFrame

\* Before anything is cached the contents are those of the disk.
LEMMA InitStore == Init => Store!Init
<1> SUFFICES ASSUME Init PROVE Store!Init
  OBVIOUS
<1>1. /\ disk \in [Block -> Val] /\ valid = [i \in Buf |-> FALSE]
      /\ st = [p \in Proc |-> "idle"]
  BY DEF Init, DiskInit
<1>2. \A b \in Block : Contents(b) = disk[b] /\ Holders(b) = {}
  BY <1>1 DEF Contents, Holders, HasLock
<1>3. \A b \in Block : HolderOf(b) = None
  BY <1>2, HolderIs
<1> QED
  BY <1>1, <1>2, <1>3 DEF Store!Init

\* Implements: through evictions, re-reads, transfers that finish out of
\* order and processes killed in their sleep, bio.c over virtio_disk.c is a
\* block store: every holder sees the last contents anybody gave the block,
\* and the disk gets exactly what was written.
THEOREM CacheImplements == Spec => Implements
<1>1. Init => Store!Init
  BY InitStore
<1>2. IInv /\ IInv' /\ [Next]_vars => [Store!Next]_(Store!vars)
  <2> SUFFICES ASSUME IInv, IInv', [Next]_vars
               PROVE  Store!Next \/ UNCHANGED Store!vars
    OBVIOUS
  <2>1. ASSUME NEW p \in Proc, Run(p) \/ Kill(p) \/ Lose(p)
        PROVE  Store!Next \/ UNCHANGED Store!vars
    BY <2>1, AcquireStore, ReturnStore, ReleaseStore, OtherStore DEF Run
  <2>2. ASSUME NEW p \in Proc, NEW b \in Block, Bget(p, b)
        PROVE  UNCHANGED Store!vars
    BY <2>2, BgetStore
  <2>3. ASSUME NEW p \in Proc, NEW v \in Val, LogWrite(p, v) \/ Bwrite(p, v)
        PROVE  Store!Next
    BY <2>3, ChangeStore
  <2>4. ASSUME Device \/ Handler, UNCHANGED bvars
        PROVE  Store!Next \/ UNCHANGED Store!vars
    BY <2>4, DriverStore, DoneStore DEF Device
  <2>5. ASSUME UNCHANGED vars PROVE UNCHANGED Store!vars
    BY <2>5, StoreFrame DEF vars, dvars, bvars
  <2> QED
    BY <2>1, <2>2, <2>3, <2>4, <2>5 DEF Next
<1> QED
  BY <1>1, <1>2, Inductive, PTL DEF Spec, Implements, Store!Spec
=============================================================================
