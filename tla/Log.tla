-------------------------------- MODULE Log --------------------------------
(***************************************************************************)
(* The file system's redo log (kernel/log.c): transactions of several      *)
(* concurrent system calls, group commit, crashes at any point and         *)
(* recovery.                                                               *)
(*                                                                         *)
(* disk, logblk and head are on the disk and survive a crash; everything   *)
(* else is memory.  cache[b] is what bread(b) returns: a block that has    *)
(* been changed is pinned by log_write() until it has been installed, and  *)
(* any other block reads as it is on the disk.  Each bwrite() is a step of *)
(* its own and is atomic, the assumption the log is built on.  The         *)
(* critical sections under log.lock are steps, as in Semaphore.            *)
(***************************************************************************)
EXTENDS Integers, Sequences, FiniteSets

CONSTANTS
    Proc,          \* processes that make file system calls
    Block,         \* data blocks
    Val,           \* contents of a block
    MAXOPBLOCKS,   \* "max # of blocks any FS op writes"
    LOGSIZE,       \* "max data blocks in on-disk log"
    nlog,          \* log.size, the superblock's nlog as mkfs wrote it
    OpBlocks,      \* the most blocks an operation really writes
    MaxCrash       \* bound: number of crashes

ASSUME LogAssumption ==
    /\ IsFiniteSet(Proc)
    /\ MAXOPBLOCKS \in Nat \ {0}
    /\ LOGSIZE \in Nat \ {0}
    /\ nlog \in Nat \ {0}
    /\ OpBlocks \in 1 .. MAXOPBLOCKS
    /\ MaxCrash \in Nat

\* The log has room for what begin_op() admits.  log_write() panics one block
\* before the log is full, so an operation must stay below its reservation
\* (with mkfs's nlog = LOGSIZE = 3 * MAXOPBLOCKS: at most MAXOPBLOCKS - 1
\* blocks): an operation alone fits, and so do two or more that were admitted
\* against their reservations.
ASSUME RoomAssumption ==
    /\ OpBlocks < MAXOPBLOCKS /\ OpBlocks < LOGSIZE /\ OpBlocks < nlog - 1
    /\ LOGSIZE - 2 * (MAXOPBLOCKS - OpBlocks) < nlog - 1

VARIABLES
    disk,          \* the data blocks on the disk
    logblk,        \* the log's data blocks on the disk
    head,          \* the log's header block on the disk
    cache,         \* the data blocks as the buffer cache gives them
    lh,            \* log.lh, the block numbers logged so far
    outstanding, committing,
    st,            \* where each process is
    wrote,         \* the blocks the process's operation has written
    phase,         \* where commit() or recover_from_log() is
    tail,          \* the loop index of write_log() and install_trans()
    crashes,       \* number of crashes so far
    lost           \* processes sleep()'s window has stranded, see Sched

durable == <<disk, logblk, head>>
vars == <<disk, logblk, head, cache, lh, outstanding, committing, st, wrote,
          phase, tail, crashes, lost>>

\* "idle": outside any operation; "sleeping" and "woken": in begin_op();
\* "op": between begin_op() and end_op(); "commit": in end_op(), committing.
Status == {"idle", "sleeping", "woken", "op", "commit"}

\* commit(): "log" copies to the log, "install" installs and erases the header,
\* "done" is its end.  recover_from_log(): "read" and "reinstall".
Phase == {"none", "log", "install", "done", "read", "reinstall"}
Recovering == phase \in {"read", "reinstall"}

TypeOK ==
    /\ disk \in [Block -> Val]
    /\ logblk \in [1 .. LOGSIZE -> Val]
    /\ head \in Seq(Block) /\ Len(head) <= LOGSIZE
    /\ cache \in [Block -> Val]
    /\ lh \in Seq(Block) /\ Len(lh) <= LOGSIZE
    /\ outstanding \in Nat
    /\ committing \in BOOLEAN
    /\ st \in [Proc -> Status]
    /\ wrote \in [Proc -> SUBSET Block]
    /\ phase \in Phase
    /\ tail \in 1 .. LOGSIZE + 1
    /\ crashes \in 0 .. MaxCrash
    /\ lost \subseteq Proc

\* The disk as mkfs leaves it, before initlog().
Init ==
    /\ disk \in [Block -> Val]
    /\ \E v \in Val : logblk = [i \in 1 .. LOGSIZE |-> v]
    /\ head = << >>
    /\ cache = disk
    /\ lh = << >>
    /\ outstanding = 0 /\ committing = FALSE
    /\ st = [p \in Proc |-> "idle"]
    /\ wrote = [p \in Proc |-> {}]
    /\ phase = "read" /\ tail = 1
    /\ crashes = 0
    /\ lost = {}

-----------------------------------------------------------------------------
\* Mutant of Wakeup: forgotten.
MutWakeup == st

\* wakeup(&log); a lost process is not SLEEPING any more.
Wakeup == [p \in Proc |-> IF st[p] = "sleeping" /\ p \notin lost THEN "woken" ELSE st[p]]

\* Mutant of MustWait: an operation in progress reserves nothing.
MutMustWait == committing \/ Len(lh) + MAXOPBLOCKS > LOGSIZE

\* The conditions under which begin_op() sleeps.
MustWait == committing \/ Len(lh) + (outstanding + 1) * MAXOPBLOCKS > LOGSIZE

\* One pass of begin_op()'s loop.  A process gets here after initlog(), which
\* recovers before any system call.
BeginOp(p) ==
    /\ ~Recovering
    /\ st[p] \in {"idle", "woken"} /\ p \notin lost
    /\ \/ /\ MustWait
          /\ st' = [st EXCEPT ![p] = "sleeping"]
          /\ UNCHANGED <<outstanding, wrote>>
       \/ /\ ~MustWait
          /\ outstanding' = outstanding + 1
          /\ st' = [st EXCEPT ![p] = "op"]
          /\ wrote' = [wrote EXCEPT ![p] = {}]
    /\ UNCHANGED <<durable, cache, lh, committing, phase, tail, crashes, lost>>

\* The test that makes log_write() panic with "too big a transaction".
TooBig == Len(lh) >= LOGSIZE \/ Len(lh) >= nlog - 1

\* p's operation may change block b: one it has changed before, or one more
\* within what an operation writes.
MayWrite(p, b) ==
    /\ st[p] = "op"
    /\ b \in wrote[p] \/ Cardinality(wrote[p]) < OpBlocks

\* log_write()'s log absorption: a block is logged once per transaction.
Logged(b) == IF \E i \in 1 .. Len(lh) : lh[i] = b THEN lh ELSE Append(lh, b)

\* Changing b->data under the buffer's lock, and log_write(b).
LogWrite(p, b, v) ==
    /\ MayWrite(p, b) /\ p \notin lost
    /\ ~TooBig
    /\ cache' = [cache EXCEPT ![b] = v]
    /\ lh' = Logged(b)
    /\ wrote' = [wrote EXCEPT ![p] = @ \cup {b}]
    /\ UNCHANGED <<durable, outstanding, committing, st, phase, tail, crashes, lost>>

\* Mutant of LastOp: the count is tested before it is decremented.
MutLastOp == outstanding = 0

\* end_op() finds that no other operation is under way.
LastOp == outstanding = 1

\* end_op() up to the call of commit(); with an empty log commit() is empty.
EndOp(p) ==
    /\ st[p] = "op" /\ p \notin lost
    /\ outstanding' = outstanding - 1
    /\ \/ /\ LastOp
          /\ committing' = TRUE
          /\ st' = [st EXCEPT ![p] = "commit"]
          /\ phase' = IF lh = << >> THEN "done" ELSE "log"
          /\ tail' = 1
       \/ /\ ~LastOp
          /\ st' = [Wakeup EXCEPT ![p] = "idle"]
          /\ UNCHANGED <<committing, phase, tail>>
    /\ UNCHANGED <<durable, cache, lh, wrote, crashes, lost>>

\* One iteration of write_log().
WriteLog ==
    /\ phase = "log" /\ tail <= Len(lh)
    /\ logblk' = [logblk EXCEPT ![tail] = cache[lh[tail]]]
    /\ tail' = tail + 1
    /\ UNCHANGED <<disk, head, cache, lh, outstanding, committing, st, wrote, phase, crashes, lost>>

\* Mutant of LogWritten: the header is written before the last block.
MutLogWritten == phase = "log" /\ tail >= Len(lh)

\* write_log() has copied every block.
LogWritten == phase = "log" /\ tail > Len(lh)

\* write_head(): "the true point at which the current transaction commits".
WriteHead ==
    /\ LogWritten
    /\ head' = lh
    /\ phase' = "install" /\ tail' = 1
    /\ UNCHANGED <<disk, logblk, cache, lh, outstanding, committing, st, wrote, crashes, lost>>

\* One iteration of install_trans(0): the log block replaces the data in the
\* cache and on the disk, and the buffer is unpinned.
InstallTrans ==
    /\ phase = "install" /\ tail <= Len(lh)
    /\ cache' = [cache EXCEPT ![lh[tail]] = logblk[tail]]
    /\ disk' = [disk EXCEPT ![lh[tail]] = logblk[tail]]
    /\ tail' = tail + 1
    /\ UNCHANGED <<logblk, head, lh, outstanding, committing, st, wrote, phase, crashes, lost>>

\* The end of commit(): log.lh.n = 0 and the second write_head().
EraseHead ==
    /\ phase = "install" /\ tail > Len(lh)
    /\ lh' = << >> /\ head' = << >>
    /\ phase' = "done"
    /\ UNCHANGED <<disk, logblk, cache, outstanding, committing, st, wrote, tail, crashes, lost>>

\* end_op() after commit().
CommitDone(p) ==
    /\ st[p] = "commit" /\ phase = "done" /\ p \notin lost
    /\ committing' = FALSE
    /\ st' = [Wakeup EXCEPT ![p] = "idle"]
    /\ phase' = "none"
    /\ UNCHANGED <<durable, cache, lh, outstanding, wrote, tail, crashes, lost>>

\* The machine stops, anywhere, and starts again: memory is lost.
Crash ==
    /\ crashes < MaxCrash
    /\ crashes' = crashes + 1
    /\ cache' = disk
    /\ lh' = << >>
    /\ outstanding' = 0 /\ committing' = FALSE
    /\ st' = [p \in Proc |-> "idle"]
    /\ wrote' = [p \in Proc |-> {}]
    /\ phase' = "read" /\ tail' = 1
    /\ lost' = {}
    /\ UNCHANGED durable

\* sleep()'s window strands p (LostOnlyInWindow in Sched): in begin_op(), in a
\* disk access of its operation, or in one of commit().
Lose(p) ==
    /\ p \notin lost
    /\ st[p] \in {"sleeping", "op"} \/ (st[p] = "commit" /\ phase # "done")
    /\ lost' = lost \cup {p}
    /\ UNCHANGED <<durable, cache, lh, outstanding, committing, st, wrote, phase, tail, crashes>>

\* recover_from_log(): read_head().
ReadHead ==
    /\ phase = "read"
    /\ lh' = head
    /\ phase' = "reinstall" /\ tail' = 1
    /\ UNCHANGED <<durable, cache, outstanding, committing, st, wrote, crashes, lost>>

\* One iteration of install_trans(1).
Reinstall ==
    /\ phase = "reinstall" /\ tail <= Len(lh)
    /\ cache' = [cache EXCEPT ![lh[tail]] = logblk[tail]]
    /\ disk' = [disk EXCEPT ![lh[tail]] = logblk[tail]]
    /\ tail' = tail + 1
    /\ UNCHANGED <<logblk, head, lh, outstanding, committing, st, wrote, phase, crashes, lost>>

\* install_trans(1) has copied every block.
Reinstalled == phase = "reinstall" /\ tail > Len(lh)

\* recover_from_log(): log.lh.n = 0 and write_head().
ResetLog ==
    /\ Reinstalled
    /\ lh' = << >> /\ head' = << >>
    /\ phase' = "none"
    /\ UNCHANGED <<disk, logblk, cache, outstanding, committing, st, wrote, tail, crashes, lost>>

\* commit() runs in the process that called end_op() last.
CommitStep ==
    /\ \A p \in lost : st[p] # "commit"
    /\ WriteLog \/ WriteHead \/ InstallTrans \/ EraseHead

RecoverStep == ReadHead \/ Reinstall \/ ResetLog

Next ==
    \/ \E p \in Proc : BeginOp(p) \/ EndOp(p) \/ CommitDone(p) \/ Lose(p)
    \/ \E p \in Proc, b \in Block, v \in Val : LogWrite(p, b, v)
    \/ CommitStep \/ RecoverStep \/ Crash

Spec == Init /\ [][Next]_vars

\* The disk answers, and a process that is ready runs (QueuedRuns in Sched):
\* an operation whose process is not lost writes what it has to and calls
\* end_op().  Nothing keeps a process from being lost.
Fairness ==
    /\ WF_vars(CommitStep)
    /\ \A p \in Proc : WF_vars(EndOp(p)) /\ WF_vars(CommitDone(p))

FairSpec == Spec /\ Fairness

-----------------------------------------------------------------------------
\* What recovery makes of the disk as it is now.
Recovered ==
    [b \in Block |->
        IF \E i \in 1 .. Len(head) : head[i] = b
        THEN logblk[CHOOSE i \in 1 .. Len(head) : head[i] = b]
        ELSE disk[b]]

Abstract == INSTANCE LogSpec
                WITH live <- IF Recovering THEN Recovered ELSE cache,
                     stable <- Recovered,
                     active <- {p \in Proc : st[p] = "op"}

(***************************************************************************)
(* The log implements atomic transactions: seen through recovery, the disk *)
(* changes in one step, write_head(), and only when no system call is in   *)
(* the middle of its updates, wherever the system crashes: in a commit, in *)
(* an installation, in the middle of a recovery or several times in a row. *)
(***************************************************************************)
Implements == Abstract!Spec

(***************************************************************************)
(* Every operation that was allowed to begin fits: whenever an operation   *)
(* may call log_write(), the test that panics with "too big a transaction" *)
(* is false, and a process that ends an operation finds no commit under    *)
(* way ("log.committing").                                                 *)
(***************************************************************************)
NoPanic ==
    \A p \in Proc : st[p] = "op" => ~committing /\ outstanding > 0 /\
        \A b \in Block : MayWrite(p, b) => ~TooBig

(***************************************************************************)
(* When no operation is outstanding and no commit is running, everything   *)
(* that was written is on the disk in its home location and the log is     *)
(* empty: end_op()'s last caller leaves nothing behind.                    *)
(***************************************************************************)
QuiescentDurable ==
    outstanding = 0 /\ ~committing /\ ~Recovering =>
        disk = cache /\ lh = << >> /\ head = << >>

(***************************************************************************)
(* Nobody sleeps in begin_op() for a wakeup that does not come: an         *)
(* operation or a commit is under way whose end wakes the sleeper, unless  *)
(* sleep()'s window strands the sleeper itself or a process in the middle  *)
(* of an operation or a commit, or a crash ends it all.                    *)
(***************************************************************************)
BeginWakes ==
    \A p \in Proc :
        st[p] = "sleeping" ~>
            \/ st[p] # "sleeping" \/ p \in lost
            \/ \E q \in lost : st[q] \in {"op", "commit"}
=============================================================================
