----------------------------- MODULE VirtioDisk -----------------------------
(***************************************************************************)
(* The driver of the virtio disk (kernel/virtio_disk.c) and the device it  *)
(* talks to: descriptors, the avail and used rings, the interrupt.         *)
(*                                                                         *)
(* On the one CPU a stretch under vdisk_lock is one step of the driver,    *)
(* but the device runs beside it: it fetches requests, carries them out in *)
(* any order, and tells of several of them by one interrupt.  It may also  *)
(* add to the used ring while the interrupt handler empties it, so every   *)
(* pass of the handler's loop is a step.  kill() may end a sleep early,    *)
(* and sleep()'s window may make it last for ever: see Lose.               *)
(***************************************************************************)
EXTENDS Integers, FiniteSets, FiniteSetsExt

CONSTANTS
    Proc,      \* processes
    Buf,       \* struct buf's
    Block,     \* block numbers
    Val,       \* contents of a block
    NUM,       \* number of descriptors, and entries of each ring
    IDX,       \* what the rings' indices wrap at (2^16), a multiple of NUM
    None       \* no block, no buffer, no process

ASSUME VirtioAssumption ==
    /\ NUM \in Nat /\ NUM >= 3
    /\ IDX \in Nat \ {0} /\ IDX % NUM = 0
    /\ IsFiniteSet(Proc) /\ IsFiniteSet(Buf)
    /\ None \notin Block \cup Buf \cup Proc

VARIABLES
    disk,                \* what is on the disk
    blk, data,           \* b->blockno and b->data
    owned,               \* b->disk: "does disk own buf?"
    free,                \* the descriptors i with disk.free[i]
    desc,                \* disk.desc
    ops,                 \* disk.ops, with the status byte of disk.info
    info,                \* disk.info[].b
    avail, avail_idx,    \* disk.avail->ring and ->idx
    used, used_ring_idx, \* disk.used->ring and ->idx
    used_idx,            \* disk.used_idx
    fetched, inflight,   \* the device: how far it has read avail, what it works on
    owed, intr,          \* an interrupt the device has yet to raise; one raised
    handler,             \* whether virtio_disk_intr() is running
    st,                  \* where each process is
    buf, write, head,    \* its buffer, the direction of its transfer, idx[0]
    lost                 \* processes sleep()'s window has stranded, see Sched

dvars == <<disk, blk, data, owned, free, desc, ops, info, avail, avail_idx, used,
           used_ring_idx, used_idx, fetched, inflight, owed, intr, handler, st,
           buf, write, head, lost>>
rings == <<avail, avail_idx, used, used_ring_idx, used_idx, fetched, inflight, owed, intr, handler>>

Desc == 0 .. NUM - 1

\* What a descriptor says: the buffer (for the one in the middle), the next
\* descriptor and whether there is one (VRING_DESC_F_NEXT).
NoDesc == [addr |-> None, next |-> 0, more |-> FALSE]
NoOp == [write |-> FALSE, block |-> None, status |-> 0]

\* virtio_disk_rw(): "rw" is about to allocate, "nofree" sleeps for a
\* descriptor, "wait" for the transfer, "done" is about to test b->disk.
DriverStatus == {"rw", "nofree", "wait", "done"}

DiskInit ==
    /\ disk \in [Block -> Val]
    /\ blk = [i \in Buf |-> None]
    /\ \E v \in Val : data = [i \in Buf |-> v]
    /\ owned = [i \in Buf |-> FALSE]
    /\ free = Desc
    /\ desc = [d \in Desc |-> NoDesc]
    /\ ops = [d \in Desc |-> NoOp]
    /\ info = [d \in Desc |-> None]
    /\ avail = [d \in Desc |-> 0] /\ avail_idx = 0
    /\ used = [d \in Desc |-> 0] /\ used_ring_idx = 0
    /\ used_idx = 0
    /\ fetched = 0 /\ inflight = {}
    /\ owed = FALSE /\ intr = FALSE
    /\ handler = FALSE
    /\ st = [p \in Proc |-> "idle"]
    /\ buf = [p \in Proc |-> None]
    /\ write = [p \in Proc |-> FALSE]
    /\ head = [p \in Proc |-> 0]
    /\ lost = {}

-----------------------------------------------------------------------------
\* The sleepers that a wakeup() or kill() reaches.
Asleep(p, where) == st[p] = where /\ p \notin lost

\* wakeup(&disk.free[0])
WakeFree == [p \in Proc |-> IF Asleep(p, "nofree") THEN "rw" ELSE st[p]]

\* Mutant of WakeBuf: forgotten.
MutWakeBuf(i) == st

\* wakeup(b)
WakeBuf(i) == [p \in Proc |-> IF Asleep(p, "wait") /\ buf[p] = i THEN "done" ELSE st[p]]

\* alloc3_desc(): alloc_desc() takes the first free descriptor.
Alloc3 ==
    LET d0 == Min(free)
        d1 == Min(free \ {d0})
        d2 == Min(free \ {d0, d1})
    IN <<d0, d1, d2>>

\* alloc3_desc() fails and gives back what it took, and each free_desc()
\* wakes whoever waits for a descriptor; then sleep(&disk.free[0]).
NoDescriptors(p) ==
    /\ Cardinality(free) < 3
    /\ st' = [(IF free = {} THEN st ELSE WakeFree) EXCEPT ![p] = "nofree"]
    /\ UNCHANGED <<owned, free, desc, ops, info, rings, head>>

\* virtio_disk_rw() from the allocation to the first sleep(b): the three
\* descriptors are formatted and the head is put into the avail ring.  The
\* device looks at none of it before the index has moved.
Submit(p) ==
    /\ Cardinality(free) >= 3
    /\ LET idx == Alloc3 IN
        /\ free' = free \ {idx[1], idx[2], idx[3]}
        /\ desc' = [desc EXCEPT
             ![idx[1]] = [addr |-> None, next |-> idx[2], more |-> TRUE],
             ![idx[2]] = [addr |-> buf[p], next |-> idx[3], more |-> TRUE],
             ![idx[3]] = NoDesc]
        /\ ops' = [ops EXCEPT ![idx[1]] =
             [write |-> write[p], block |-> blk[buf[p]], status |-> 255]]
        /\ info' = [info EXCEPT ![idx[1]] = buf[p]]
        /\ avail' = [avail EXCEPT ![avail_idx % NUM] = idx[1]]
        /\ head' = [head EXCEPT ![p] = idx[1]]
    /\ owned' = [owned EXCEPT ![buf[p]] = TRUE]
    /\ avail_idx' = (avail_idx + 1) % IDX
    /\ st' = [st EXCEPT ![p] = "wait"]
    /\ UNCHANGED <<used, used_ring_idx, used_idx, fetched, inflight, owed, intr, handler>>

\* One pass of virtio_disk_rw()'s first loop.
RwStart(p) ==
    /\ ~handler /\ st[p] = "rw"
    /\ NoDescriptors(p) \/ Submit(p)
    /\ UNCHANGED <<disk, blk, data, buf, write, lost>>

\* The descriptors free_chain() goes through; a request has three.
Chain(d) ==
    LET e == desc[d].next
    IN {d} \cup (IF desc[d].more THEN {e} ELSE {})
           \cup (IF desc[d].more /\ desc[e].more THEN {desc[e].next} ELSE {})

\* The condition of virtio_disk_rw()'s second loop.
StillOwned(p) == owned[buf[p]]

\* sleep(b) again: woken by something else.
RwAgain(p) ==
    /\ ~handler /\ st[p] = "done" /\ StillOwned(p)
    /\ st' = [st EXCEPT ![p] = "wait"]
    /\ UNCHANGED <<disk, blk, data, owned, free, desc, ops, info, rings, buf, write, head, lost>>

\* The end of virtio_disk_rw(): free_chain(), which clears each descriptor
\* (disk.ops is left as it is; nobody reads it again, so it is forgotten),
\* and wakes the others.  p returns to `back'.
RwEnd(p, back) ==
    /\ ~handler /\ st[p] = "done" /\ ~StillOwned(p)
    /\ LET chain == Chain(head[p]) IN
        /\ free' = free \cup chain
        /\ desc' = [d \in Desc |-> IF d \in chain THEN NoDesc ELSE desc[d]]
    /\ ops' = [ops EXCEPT ![head[p]] = NoOp]
    /\ info' = [info EXCEPT ![head[p]] = None]
    /\ head' = [head EXCEPT ![p] = 0]
    /\ st' = [WakeFree EXCEPT ![p] = back]
    /\ UNCHANGED <<disk, blk, data, owned, rings, buf, lost>>

-----------------------------------------------------------------------------
\* The device takes the next entry of the avail ring.
DevFetch ==
    /\ fetched # avail_idx
    /\ inflight' = inflight \cup {avail[fetched % NUM]}
    /\ fetched' = (fetched + 1) % IDX
    /\ UNCHANGED <<disk, blk, data, owned, free, desc, ops, info, avail, avail_idx,
                   used, used_ring_idx, used_idx, owed, intr, handler, st, buf, write, head, lost>>

\* It carries out a request as its descriptors say, writes the status and
\* adds the request to the used ring.  An interrupt is owed.
DevDone(h) ==
    /\ h \in inflight
    /\ LET i == desc[desc[h].next].addr
           b == ops[h].block
       IN IF ops[h].write
          THEN disk' = [disk EXCEPT ![b] = data[i]] /\ UNCHANGED data
          ELSE data' = [data EXCEPT ![i] = disk[b]] /\ UNCHANGED disk
    /\ ops' = [ops EXCEPT ![h].status = 0]
    /\ used' = [used EXCEPT ![used_ring_idx % NUM] = h]
    /\ used_ring_idx' = (used_ring_idx + 1) % IDX
    /\ inflight' = inflight \ {h}
    /\ owed' = TRUE
    /\ UNCHANGED <<blk, owned, free, desc, info, avail, avail_idx, used_idx, fetched,
                   intr, handler, st, buf, write, head, lost>>

\* It raises its interrupt, one for all it owes.
DevIntr ==
    /\ owed
    /\ owed' = FALSE /\ intr' = TRUE
    /\ UNCHANGED <<disk, blk, data, owned, free, desc, ops, info, avail, avail_idx, used,
                   used_ring_idx, used_idx, fetched, inflight, handler, st, buf, write, head, lost>>

-----------------------------------------------------------------------------
\* virtio_disk_intr() begins: the interrupt is acknowledged first.
IntrBegin ==
    /\ ~handler /\ intr
    /\ handler' = TRUE /\ intr' = FALSE
    /\ UNCHANGED <<disk, blk, data, owned, free, desc, ops, info, avail, avail_idx, used,
                   used_ring_idx, used_idx, fetched, inflight, owed, st, buf, write, head, lost>>

\* The condition of the handler's loop.
MoreUsed == used_idx # used_ring_idx

\* Mutant of IntrOne: the loop is an if, one completion per interrupt.
MutIntrOne ==
    /\ handler /\ MoreUsed
    /\ LET id == used[used_idx % NUM] IN
        /\ owned' = [owned EXCEPT ![info[id]] = FALSE]
        /\ st' = WakeBuf(info[id])
    /\ used_idx' = (used_idx + 1) % IDX
    /\ handler' = FALSE
    /\ UNCHANGED <<disk, blk, data, free, desc, ops, info, avail, avail_idx, used,
                   used_ring_idx, fetched, inflight, owed, intr, buf, write, head, lost>>

\* One pass of it.  It panics if the status is not 0 (see RequestsTracked).
IntrOne ==
    /\ handler /\ MoreUsed
    /\ LET id == used[used_idx % NUM] IN
        /\ owned' = [owned EXCEPT ![info[id]] = FALSE]
        /\ st' = WakeBuf(info[id])
    /\ used_idx' = (used_idx + 1) % IDX
    /\ UNCHANGED <<disk, blk, data, free, desc, ops, info, avail, avail_idx, used,
                   used_ring_idx, fetched, inflight, owed, intr, handler, buf, write, head, lost>>

\* The handler returns.
IntrEnd ==
    /\ handler /\ ~MoreUsed
    /\ handler' = FALSE
    /\ UNCHANGED <<disk, blk, data, owned, free, desc, ops, info, avail, avail_idx, used,
                   used_ring_idx, used_idx, fetched, inflight, owed, intr, st, buf, write, head, lost>>

Device == DevFetch \/ (\E h \in Desc : DevDone(h)) \/ DevIntr
Handler == IntrBegin \/ IntrOne \/ IntrEnd

-----------------------------------------------------------------------------
\* The requests the driver has made and the device has not answered, and the
\* answers virtio_disk_intr() has not seen.
Between(from, to, ring) ==
    {ring[k % NUM] : k \in {j \in 0 .. IDX - 1 : (j - from) % IDX < (to - from) % IDX}}
Unanswered == Between(fetched, avail_idx, avail) \cup inflight
Unseen == Between(used_idx, used_ring_idx, used)

Requesting == {p \in Proc : st[p] \in {"wait", "done"}}

\* The descriptors of the requests under way are three each and not free,
\* and every other one is free: none is lost and none is handed out twice.
DescriptorsExact ==
    /\ \A p \in Requesting : Cardinality(Chain(head[p])) = 3
    /\ \A p, q \in Requesting : p # q => Chain(head[p]) \cap Chain(head[q]) = {}
    /\ free = Desc \ UNION {Chain(head[p]) : p \in Requesting}

\* A buffer the disk owns belongs to exactly one request that the rings
\* carry: it is on its way to the device, in it, or on its way back.  The
\* ring indices wrap, and no entry is overwritten before it was read.
RequestsTracked ==
    /\ Unanswered \cap Unseen = {}
    /\ Unanswered \cup Unseen = {head[p] : p \in {q \in Requesting : owned[buf[q]]}}
    /\ \A h \in Unseen : info[h] # None /\ ops[h].status = 0

\* While the used ring holds an entry that virtio_disk_intr() has not seen,
\* it is running or will be called.
NoLostCompletion == MoreUsed => handler \/ intr \/ owed

(***************************************************************************)
(* The driver and the device agree on every request, however transfers,    *)
(* completions, interrupts and kills interleave: descriptors are shared    *)
(* out exactly, each request is in exactly one place of the rings, and no  *)
(* completion is missed.                                                   *)
(***************************************************************************)
DriverExact == DescriptorsExact /\ RequestsTracked /\ NoLostCompletion
=============================================================================
