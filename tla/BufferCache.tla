---------------------------- MODULE BufferCache ----------------------------
(***************************************************************************)
(* The buffer cache (kernel/bio.c) with its sleep locks                    *)
(* (kernel/sleeplock.c) on top of the disk driver, used as kernel/log.c    *)
(* and kernel/fs.c use it: a process locks one block at a time by bread(), *)
(* changes it and either logs the change, which pins the buffer, or writes *)
(* it out by bwrite(), and lets it go by brelse().  install_trans() writes *)
(* a pinned block and unpins it.                                           *)
(*                                                                         *)
(* All blocks are on one device.  The critical sections of bcache.lock and *)
(* of a sleep lock's spinlock are steps; between them anybody may run.     *)
(***************************************************************************)
EXTENDS VirtioDisk, Sequences, SequencesExt

VARIABLES
    valid, refcnt,   \* b->valid and b->refcnt
    lock,            \* who holds b->lock, None if nobody does
    lru,             \* bcache.head's list, most recently used first
    pinned           \* the blocks that log_write() has pinned

bvars == <<valid, refcnt, lock, lru, pinned>>
vars == <<dvars, bvars>>

\* The processes in the driver, as VirtioDisk has them, and: "idle"; "lock"
\* is about to test a sleep lock, "asleep" sleeps on it; "held" has the
\* buffer; "written" has just written it; "unref" is in brelse(), between
\* its two critical sections.
Status == {"idle", "lock", "asleep", "held", "written", "unref"} \cup DriverStatus

(***************************************************************************)
(* Type invariant.  A count of references never exceeds what the processes *)
(* and one pin account for, and the list keeps every buffer.               *)
(***************************************************************************)
TypeOK ==
    /\ disk \in [Block -> Val]
    /\ blk \in [Buf -> Block \cup {None}] /\ data \in [Buf -> Val]
    /\ owned \in [Buf -> BOOLEAN] /\ valid \in [Buf -> BOOLEAN]
    /\ refcnt \in [Buf -> 0 .. Cardinality(Proc) + 1]
    /\ lock \in [Buf -> Proc \cup {None}]
    /\ lru \in [1 .. Cardinality(Buf) -> Buf] /\ ToSet(lru) = Buf
    /\ pinned \subseteq Block
    /\ free \subseteq Desc /\ inflight \subseteq Desc
    /\ info \in [Desc -> Buf \cup {None}]
    /\ {avail_idx, fetched, used_idx, used_ring_idx} \subseteq 0 .. IDX - 1
    /\ st \in [Proc -> Status] /\ buf \in [Proc -> Buf \cup {None}]
    /\ head \in [Proc -> Desc]
    /\ lost \subseteq Proc

\* binit(): no buffer stands for a block.  The buffers are alike, so the
\* order of the list is left open.
Init ==
    /\ DiskInit
    /\ valid = [i \in Buf |-> FALSE]
    /\ refcnt = [i \in Buf |-> 0]
    /\ lock = [i \in Buf |-> None]
    /\ lru \in SetToSeqs(Buf)
    /\ pinned = {}

-----------------------------------------------------------------------------
\* Mutant of Cached: only buffers in use are looked at.
MutCached(b) == {i \in Buf : blk[i] = b /\ refcnt[i] > 0}

\* bget()'s first loop finds these buffers (one at most, see OneBuffer).
Cached(b) == {i \in Buf : blk[i] = b}

Unused == {i \in Buf : refcnt[i] = 0}

\* The least recently used one of them.
Victim == lru[Max({k \in 1 .. Len(lru) : lru[k] \in Unused})]

\* The blocks in use: somebody's, or pinned.
InUse == {blk[buf[p]] : p \in {q \in Proc : st[q] # "idle"}} \cup pinned

\* The file system keeps to as many blocks as there are buffers: NBUF covers
\* the pinned blocks of a transaction and those being worked on.
MayGet(p, b) ==
    /\ ~handler /\ st[p] = "idle"
    /\ Cardinality(InUse \cup {b}) <= Cardinality(Buf)

\* Mutant of Invalid: a recycled buffer keeps b->valid.
MutInvalid(i) == valid

Invalid(i) == [valid EXCEPT ![i] = FALSE]

\* bget() under bcache.lock.
Bget(p, b) ==
    /\ MayGet(p, b)
    /\ \/ \E i \in Cached(b) :
            /\ refcnt' = [refcnt EXCEPT ![i] = @ + 1]
            /\ buf' = [buf EXCEPT ![p] = i]
            /\ UNCHANGED <<blk, valid>>
       \/ /\ Cached(b) = {} /\ Unused # {}
          /\ LET i == Victim IN
              /\ blk' = [blk EXCEPT ![i] = b]
              /\ valid' = Invalid(i)
              /\ refcnt' = [refcnt EXCEPT ![i] = 1]
              /\ buf' = [buf EXCEPT ![p] = i]
    /\ st' = [st EXCEPT ![p] = "lock"]
    /\ UNCHANGED <<disk, data, owned, free, desc, ops, info, rings, write, head, lost,
                   lock, lru, pinned>>

\* The condition of acquiresleep()'s loop.
MustSleep(p) == lock[buf[p]] # None

\* One pass of acquiresleep()'s loop; with the lock, bread() goes on to read
\* the block if the buffer is not valid.
AcquireSleep(p) ==
    /\ ~handler /\ st[p] = "lock"
    /\ \/ /\ MustSleep(p)
          /\ st' = [st EXCEPT ![p] = "asleep"]
          /\ UNCHANGED <<lock, write>>
       \/ /\ ~MustSleep(p)
          /\ lock' = [lock EXCEPT ![buf[p]] = p]
          /\ write' = [write EXCEPT ![p] = FALSE]
          /\ st' = [st EXCEPT ![p] = IF valid[buf[p]] THEN "held" ELSE "rw"]
    /\ UNCHANGED <<disk, blk, data, owned, free, desc, ops, info, rings, buf, head, lost,
                   valid, refcnt, lru, pinned>>

\* virtio_disk_rw() returns to bread() or to bwrite().
RwReturn(p) ==
    /\ RwEnd(p, IF write[p] THEN "written" ELSE "held")
    /\ valid' = [valid EXCEPT ![buf[p]] = TRUE]
    /\ write' = [write EXCEPT ![p] = FALSE]
    /\ UNCHANGED <<refcnt, lock, lru, pinned>>

\* log_write() pins a block it had not logged yet.
Pins(b) == b \notin pinned

\* The holder changes the block and calls log_write().
LogWrite(p, v) ==
    /\ ~handler /\ st[p] = "held"
    /\ data' = [data EXCEPT ![buf[p]] = v]
    /\ refcnt' = [refcnt EXCEPT ![buf[p]] = IF Pins(blk[buf[p]]) THEN @ + 1 ELSE @]
    /\ pinned' = pinned \cup {blk[buf[p]]}
    /\ UNCHANGED <<disk, blk, owned, free, desc, ops, info, rings, st, buf, write, head,
                   lost, valid, lock, lru>>

\* bwrite(): of the log's own blocks after a change, of a pinned block to
\* install it.
Bwrite(p, v) ==
    /\ ~handler /\ st[p] = "held"
    /\ blk[buf[p]] \in pinned => v = data[buf[p]]
    /\ data' = [data EXCEPT ![buf[p]] = v]
    /\ write' = [write EXCEPT ![p] = TRUE]
    /\ st' = [st EXCEPT ![p] = "rw"]
    /\ UNCHANGED <<disk, blk, owned, free, desc, ops, info, rings, buf, head, lost, bvars>>

\* bunpin(), after the bwrite() of install_trans().
Bunpin(p) ==
    /\ ~handler /\ st[p] = "written" /\ blk[buf[p]] \in pinned
    /\ refcnt' = [refcnt EXCEPT ![buf[p]] = @ - 1]
    /\ pinned' = pinned \ {blk[buf[p]]}
    /\ UNCHANGED <<dvars, valid, lock, lru>>

\* wakeup(lk)
WakeLock(i) == [p \in Proc |-> IF Asleep(p, "asleep") /\ buf[p] = i THEN "lock" ELSE st[p]]

\* brelse(): releasesleep().
ReleaseSleep(p) ==
    /\ ~handler
    /\ \/ st[p] = "held"
       \/ st[p] = "written" /\ blk[buf[p]] \notin pinned
    /\ lock' = [lock EXCEPT ![buf[p]] = None]
    /\ st' = [WakeLock(buf[p]) EXCEPT ![p] = "unref"]
    /\ UNCHANGED <<disk, blk, data, owned, free, desc, ops, info, rings, buf, write, head,
                   lost, valid, refcnt, lru, pinned>>

\* The list with buffer i, wherever it is, moved to the front.
MoveToFront(i) ==
    LET at == CHOOSE k \in DOMAIN lru : lru[k] = i
    IN  [k \in DOMAIN lru |-> IF k = 1 THEN i
                              ELSE IF k <= at THEN lru[k - 1] ELSE lru[k]]

\* brelse() under bcache.lock.
Unref(p) ==
    /\ ~handler /\ st[p] = "unref"
    /\ LET i == buf[p] IN
        /\ refcnt' = [refcnt EXCEPT ![i] = @ - 1]
        /\ lru' = IF refcnt[i] = 1 THEN MoveToFront(i) ELSE lru
    /\ buf' = [buf EXCEPT ![p] = None]
    /\ st' = [st EXCEPT ![p] = "idle"]
    /\ UNCHANGED <<disk, blk, data, owned, free, desc, ops, info, rings, write, head,
                   lost, valid, lock, pinned>>

\* kill() makes a sleeper RUNNABLE, any number of times.
Kill(p) ==
    /\ ~handler
    /\ \/ Asleep(p, "asleep") /\ st' = [st EXCEPT ![p] = "lock"]
       \/ Asleep(p, "nofree") /\ st' = [st EXCEPT ![p] = "rw"]
       \/ Asleep(p, "wait") /\ st' = [st EXCEPT ![p] = "done"]
    /\ UNCHANGED <<disk, blk, data, owned, free, desc, ops, info, rings, buf, write, head,
                   lost, bvars>>

\* sleep()'s window strands p in one of its sleeps (LostOnlyInWindow in Sched):
\* it is made RUNNABLE and switched away from as RUNNING, or is still the
\* current process when the disk's interrupt would wake it.  (If kill() wakes
\* it after all, that is a process woken in time that runs late.)
Lose(p) ==
    /\ st[p] \in {"asleep", "nofree", "wait"} /\ p \notin lost
    /\ lost' = lost \cup {p}
    /\ UNCHANGED <<disk, blk, data, owned, free, desc, ops, info, rings, st, buf, write, head,
                   bvars>>

\* What p does once it runs.
Run(p) ==
    \/ AcquireSleep(p) \/ RwReturn(p) \/ Bunpin(p) \/ ReleaseSleep(p) \/ Unref(p)
    \/ (RwStart(p) \/ RwAgain(p)) /\ UNCHANGED bvars

Next ==
    \/ \E p \in Proc : Run(p) \/ Kill(p) \/ Lose(p)
    \/ \E p \in Proc, b \in Block : Bget(p, b)
    \/ \E p \in Proc, v \in Val : LogWrite(p, v) \/ Bwrite(p, v)
    \/ (Device \/ Handler) /\ UNCHANGED bvars

\* A ready process runs (QueuedRuns in Sched), whatever interrupts come
\* between: the strong fairness is about those alone, Run(p) asks for nothing
\* else that comes and goes, and a lost process is in none of its places.
\* Interrupts are taken, the device answers, and a process that holds a block
\* and runs lets it go.
Fairness ==
    /\ \A p \in Proc : SF_vars(Run(p))
    /\ WF_vars(DevFetch /\ UNCHANGED bvars)
    /\ \A h \in Desc : WF_vars(DevDone(h) /\ UNCHANGED bvars)
    /\ WF_vars(DevIntr /\ UNCHANGED bvars)
    /\ WF_vars(Handler /\ UNCHANGED bvars)

Spec == Init /\ [][Next]_vars
FairSpec == Spec /\ Fairness

-----------------------------------------------------------------------------
HasLock == {"rw", "nofree", "wait", "done", "held", "written"}
Holders(b) == {p \in Proc : st[p] \in HasLock /\ blk[buf[p]] = b}
HolderOf(b) == IF Holders(b) = {} THEN None ELSE CHOOSE p \in Holders(b) : TRUE

\* The contents of a block: of its buffer if that is valid, else on the disk.
Contents(b) ==
    IF \E i \in Buf : blk[i] = b /\ valid[i]
    THEN data[CHOOSE i \in Buf : blk[i] = b /\ valid[i]]
    ELSE disk[b]

Store == INSTANCE BlockStore
           WITH current <- [b \in Block |-> Contents(b)],
                stored <- disk,
                holder <- [b \in Block |-> HolderOf(b)]

(***************************************************************************)
(* The cache and the driver under it implement the block store: through    *)
(* evictions, re-reads, transfers that finish out of order and processes   *)
(* killed in their sleep, every holder sees the last contents anybody gave *)
(* the block, and the disk gets exactly what was written.                  *)
(***************************************************************************)
Implements == Store!Spec

\* A block has one buffer and the buffer one user: lookups of a block that is
\* being read, waited for or released never recycle a second buffer for it,
\* and no two of the processes that have passed acquiresleep() share one.
OneBuffer ==
    /\ \A i, j \in Buf : blk[i] = blk[j] /\ blk[i] # None => i = j
    /\ \A p, q \in Proc :
        st[p] \in HasLock /\ st[q] \in HasLock /\ buf[p] = buf[q] => p = q

\* Reference counts are exact: one for each process that uses or waits for
\* the buffer and one for a pin.
RefExact ==
    /\ \A i \in Buf : refcnt[i] = Cardinality({p \in Proc : buf[p] = i})
                                  + (IF blk[i] \in pinned THEN 1 ELSE 0)
    /\ \A p \in Proc, b \in Block : MayGet(p, b) => Cached(b) # {} \/ Unused # {}

\* Nobody sleeps on a buffer's lock that is free, but a lost process.
LockSleepers == \A p \in Proc : Asleep(p, "asleep") => lock[buf[p]] # None

(***************************************************************************)
(* The cache keeps its books through the two critical sections of brelse() *)
(* and bget(), the absorption of log_write() and sleepers woken together   *)
(* or killed: one buffer for a block and one user for a buffer, a count    *)
(* for every reference, so that bget() never panics with "no buffers"      *)
(* while the blocks in use are no more than the buffers, and no sleeper    *)
(* left at a free lock.                                                    *)
(***************************************************************************)
CacheConsistent == TypeOK /\ OneBuffer /\ RefExact /\ LockSleepers

(***************************************************************************)
(* Every transfer ends: a process that has handed its request to the       *)
(* device returns from virtio_disk_rw(), however often it is woken before, *)
(* and one that sleeps for descriptors is woken, unless sleep()'s window   *)
(* strands it, or strands another process in a transfer that never gives   *)
(* its descriptors back.                                                   *)
(***************************************************************************)
TransferEnds ==
    \A p \in Proc :
        /\ st[p] = "wait" ~> st[p] \in {"held", "written"} \/ p \in lost
        /\ st[p] = "nofree" ~>
              st[p] # "nofree" \/ p \in lost \/ \E q \in lost : st[q] = "wait"
=============================================================================
