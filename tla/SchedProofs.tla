---------------------------- MODULE SchedProofs ----------------------------
(***************************************************************************)
(* The safety of Sched for any number of processes and priorities.         *)
(*                                                                         *)
(* The properties hold together and not alone.  The ready queue is exact   *)
(* only if yield() never queues a process that is queued already, so the   *)
(* current process must not be RUNNABLE (CurrentSane); fork() queues np,   *)
(* so np must still be the USED slot it allocated (ForkChild); wait()      *)
(* frees a child, which is safe for the child's children only if they have *)
(* another parent (ParentAlive); and no zombie is overlooked only if       *)
(* nobody but the current process changes its own state to SLEEPING.       *)
(***************************************************************************)
EXTENDS Sched, ReadyQueueProofs

\* Nothing but schedule() touches the idle process.
IdleFixed == state[idle] = "RUNNABLE" /\ at[idle] = "idle"

\* Outside schedule() the current process has not been made RUNNABLE, and
\* outside the windows of sleep() and exit() it is RUNNING.
CurrentSane ==
    mode # "schedule" /\ cur # idle =>
        /\ state[cur] \in {"RUNNING", "SLEEPING", "ZOMBIE"}
        /\ at[cur] \notin Windows => state[cur] = "RUNNING"

\* fork()'s np is a slot of its own that nobody else uses.
ForkChild ==
    \A p \in Slot : at[p] \in {"fork1", "fork2"} =>
        /\ newp[p] \in Slot /\ state[newp[p]] = "USED"
        /\ \A r \in Slot \ {p} :
             at[r] \in {"fork1", "fork2"} => newp[r] # newp[p]

\* A ZOMBIE has reached the end of exit(), or is on its way there.
ZombiePlace ==
    \A p \in Slot : state[p] = "ZOMBIE" =>
        at[p] = "gone" \/ (p = cur /\ mode # "schedule" /\ at[p] = "zwindow")

\* init does not exit.
InitAlive == at[init] \notin {"none", "zwindow", "gone"}

\* The inductive invariant.
IInv ==
    /\ TypeOK /\ RunqExact /\ IdleFixed /\ CurrentSane /\ ForkChild
    /\ ZombiePlace /\ InitAlive /\ ParentAlive /\ NoZombieUnseen

-----------------------------------------------------------------------------
\* Slots of the table, as numbers.
LEMMA Slots ==
    /\ init \in Slot /\ idle \in Slot /\ init # idle /\ NoSlot \notin Slot
    /\ Slot \in SUBSET Nat /\ Prio \in SUBSET Nat
BY QueueAssumption, SchedAssumption DEF Slot, Prio, init, idle, NoSlot

\* The counts start at zero.
LEMMA Zeros == 0 \in 0 .. AGING_TICKS /\ 0 \in 0 .. MaxNap
BY QueueAssumption, SchedAssumption

\* First(S) is the first slot of S.
LEMMA FirstIn ==
    ASSUME NEW S \in SUBSET Slot, S # {}
    PROVE  First(S) \in S
<1>1. \E x \in S : \A y \in S : x <= y
  BY Slots, LeastExists
<1> QED
  BY <1>1 DEF First

\* A process that runs kernel or user code outside the windows is RUNNING.
LEMMA Actor ==
    ASSUME IInv, NEW p \in Slot, p = cur, mode # "schedule",
           at[p] \notin {"idle", "window", "zwindow"}
    PROVE  p # idle /\ state[p] = "RUNNING"
BY DEF IInv, IdleFixed, CurrentSane, Windows

-----------------------------------------------------------------------------
(* The ready queue stays exact. *)

\* The first half of RunqExact, for any values.
Exact(q, st, pr) ==
    \A k \in Prio :
        /\ Once(q[k])
        /\ Members(q[k]) \ {idle} = {p \in Slot \ {idle} : st[p] = "RUNNABLE" /\ pr[p] = k}
        /\ idle \in Members(q[k]) => pr[idle] = k

InQueue(q) == UNION {Members(q[k]) : k \in Prio}

\* RunqExact in the two parts the steps below argue about.
LEMMA RunqParts ==
    /\ RunqExact <=> /\ Exact(queue, state, prio)
                     /\ idle \in InQueue(queue) => cur # idle \/ mode = "schedule"
    /\ Queued = InQueue(queue)
BY DEF RunqExact, Exact, InQueue, Queued

\* Changes that leave the RUNNABLE processes and their priorities alone.
LEMMA RunqKept ==
    ASSUME IInv, queue' = queue, cur' = cur, mode = "schedule" => mode' = "schedule",
           prio'[idle] = prio[idle],
           \A p \in Slot \ {idle} :
               /\ state'[p] = "RUNNABLE" <=> state[p] = "RUNNABLE"
               /\ state[p] = "RUNNABLE" => prio'[p] = prio[p]
    PROVE  RunqExact'
<1>1. Exact(queue, state, prio) /\ (idle \in InQueue(queue) => cur # idle \/ mode = "schedule")
  BY RunqParts DEF IInv
<1>2. Exact(queue', state', prio')
  BY <1>1 DEF Exact
<1>3. idle \in InQueue(queue') => cur' # idle \/ mode' = "schedule"
  BY <1>1
<1> QED
  BY <1>2, <1>3 DEF RunqExact, Exact, InQueue, Queued

\* prio_enqueue() of processes that were not RUNNABLE, or of the idle process
\* on its way into schedule().
LEMMA RunqPushed ==
    ASSUME IInv, NEW S \in SUBSET Slot, queue' = PushTail(queue, prio', S),
           cur' = cur, mode = "schedule" => mode' = "schedule",
           prio'[idle] = prio[idle],
           idle \in S => mode' = "schedule" /\ idle \notin Queued,
           \A p \in Slot \ {idle} :
               /\ state'[p] = "RUNNABLE" <=> p \in S \/ state[p] = "RUNNABLE"
               /\ p \in S => state[p] # "RUNNABLE"
               /\ state[p] = "RUNNABLE" => prio'[p] = prio[p]
    PROVE  RunqExact'
<1>1. Exact(queue, state, prio) /\ (idle \in InQueue(queue) => cur # idle \/ mode = "schedule")
  BY RunqParts DEF IInv
<1>2. queue \in Queue
  BY DEF IInv, TypeOK, Queue
<1>3. \A k \in Prio :
        /\ Members(queue'[k]) = Members(queue[k]) \cup {p \in S : prio'[p] = k}
        /\ Once(queue[k]) /\ Members(queue[k]) \cap {p \in S : prio'[p] = k} = {}
             => Once(queue'[k])
  BY <1>2, PushTailMembers
<1>4. ASSUME NEW k \in Prio
      PROVE  Members(queue[k]) \cap S = {}
  <2>1. \A p \in Members(queue[k]) : p # idle => p \in Slot /\ state[p] = "RUNNABLE"
    BY <1>1 DEF Exact
  <2>2. idle \in S => idle \notin Members(queue[k])
    BY RunqParts DEF InQueue
  <2> QED
    BY <2>1, <2>2
<1>5. \A k \in Prio : Once(queue'[k])
  <2>1. \A k \in Prio : Once(queue[k])
    BY <1>1 DEF Exact
  <2>2. \A k \in Prio : Members(queue[k]) \cap {p \in S : prio'[p] = k} = {}
    BY <1>4
  <2> QED
    BY <1>3, <2>1, <2>2
<1>6. ASSUME NEW k \in Prio
      PROVE  /\ Members(queue'[k]) \ {idle} =
                  {p \in Slot \ {idle} : state'[p] = "RUNNABLE" /\ prio'[p] = k}
             /\ idle \in Members(queue'[k]) => prio'[idle] = k
  <2>1. Members(queue'[k]) = Members(queue[k]) \cup {p \in S : prio'[p] = k}
    BY <1>3
  <2>2. /\ Members(queue[k]) \ {idle} =
             {p \in Slot \ {idle} : state[p] = "RUNNABLE" /\ prio[p] = k}
        /\ idle \in Members(queue[k]) => prio[idle] = k
    BY <1>1 DEF Exact
  <2> QED
    BY <2>1, <2>2
<1>7. idle \in InQueue(queue') => idle \in InQueue(queue) \/ idle \in S
  BY <1>3 DEF InQueue
<1>8. idle \in InQueue(queue') => cur' # idle \/ mode' = "schedule"
  BY <1>1, <1>7
<1> QED
  BY <1>5, <1>6, <1>8 DEF RunqExact, InQueue, Queued

-----------------------------------------------------------------------------
(* One lemma per kind of step. *)

\* usertrap() on the way into and out of a system call.
LEMMA SyscallStep ==
    ASSUME IInv, NEW p \in Slot, Syscall(p) \/ SyscallReturn(p)
    PROVE  IInv'
<1>1. /\ p = cur /\ mode = "run" /\ at[p] \in {"user", "kernel"}
      /\ \E here \in {"user", "kernel"} : at' = [at EXCEPT ![p] = here]
      /\ UNCHANGED <<state, chan, killed, parent, prio, wait_ticks, queue, cur,
                     preempt_pending, mode, newp, disk, due, hit>>
  BY DEF Syscall, SyscallReturn, At, Goto, procvars, qvars
<1>2. p # idle /\ state[p] = "RUNNING"
  BY <1>1, Actor
<1>3. RunqExact'
  BY <1>1, RunqKept
<1>4. TypeOK'
  BY <1>1 DEF IInv, TypeOK, Place
<1>5. IdleFixed' /\ CurrentSane' /\ ForkChild' /\ ZombiePlace' /\ InitAlive'
  BY <1>1, <1>2, Slots DEF IInv, TypeOK, IdleFixed, CurrentSane, ForkChild, ZombiePlace,
     InitAlive, Windows
<1>6. ParentAlive' /\ NoZombieUnseen'
  BY <1>1, <1>2 DEF IInv, TypeOK, ParentAlive, NoZombieUnseen, Reapable, Children
<1> QED
  BY <1>3, <1>4, <1>5, <1>6 DEF IInv

\* allocproc() in fork() takes a slot that nobody uses.
LEMMA ForkAllocStep ==
    ASSUME IInv, NEW p \in Slot, ForkAlloc(p)
    PROVE  IInv'
<1> DEFINE np == First(Free)
<1>1. /\ p = cur /\ mode = "run" /\ at[p] = "kernel"
      /\ state' = [state EXCEPT ![np] = "USED"]
      /\ prio' = [prio EXCEPT ![np] = PRIO_DEFAULT]
      /\ wait_ticks' = [wait_ticks EXCEPT ![np] = 0]
      /\ newp' = [newp EXCEPT ![p] = np]
      /\ at' = [at EXCEPT ![p] = "fork1", ![np] = "user"]
      /\ UNCHANGED <<chan, killed, parent, queue, cur, preempt_pending, mode, disk, due, hit>>
  BY DEF ForkAlloc, InCall, At
<1>2. np \in Slot /\ state[np] = "UNUSED"
  BY FirstIn DEF ForkAlloc, Free
<1>3. p # idle /\ state[p] = "RUNNING"
  BY <1>1, Actor
<1> HIDE DEF np
<1>4. np # idle /\ np # p
  BY <1>2, <1>3 DEF IInv, IdleFixed
<1>5. TypeOK'
  <2>1. PRIO_DEFAULT \in Prio
    BY SchedAssumption
  <2> QED
    BY <1>1, <1>2, <2>1, Zeros DEF IInv, TypeOK, Place, State
<1>6. RunqExact'
  <2>1. \A r \in Slot \ {idle} :
          /\ state'[r] = "RUNNABLE" <=> state[r] = "RUNNABLE"
          /\ state[r] = "RUNNABLE" => prio'[r] = prio[r]
    BY <1>1, <1>2 DEF IInv, TypeOK
  <2> QED
    BY <1>1, <1>4, <2>1, Slots, RunqKept DEF IInv, TypeOK
<1>7. IdleFixed' /\ CurrentSane' /\ ZombiePlace' /\ InitAlive'
  BY <1>1, <1>2, <1>3, <1>4, Slots DEF IInv, TypeOK, IdleFixed, CurrentSane, ZombiePlace,
     InitAlive, Windows
<1>8. ForkChild'
  BY <1>1, <1>2, <1>3, <1>4 DEF IInv, TypeOK, ForkChild
<1>9. ParentAlive' /\ NoZombieUnseen'
  BY <1>1, <1>2, <1>3, <1>4 DEF IInv, TypeOK, ParentAlive, NoZombieUnseen, Reapable, Children
<1> QED
  BY <1>5, <1>6, <1>7, <1>8, <1>9 DEF IInv

\* fork() gives the child a parent that is alive.
LEMMA ForkParentStep ==
    ASSUME IInv, NEW p \in Slot, ForkParent(p)
    PROVE  IInv'
<1> DEFINE np == newp[p]
<1>1. /\ p = cur /\ mode = "run" /\ at[p] = "fork1"
      /\ parent' = [parent EXCEPT ![np] = p]
      /\ at' = [at EXCEPT ![p] = "fork2"]
      /\ UNCHANGED <<state, chan, killed, prio, wait_ticks, queue, cur, preempt_pending,
                     mode, newp, disk, due, hit>>
  BY DEF ForkParent, At, Goto, qvars
<1>2. p # idle /\ state[p] = "RUNNING"
  BY <1>1, Actor
<1>3. np \in Slot /\ state[np] = "USED"
  BY <1>1 DEF IInv, ForkChild
<1> HIDE DEF np
<1>4. RunqExact'
  BY <1>1, RunqKept
<1>5. TypeOK'
  BY <1>1 DEF IInv, TypeOK, Place
<1>6. IdleFixed' /\ CurrentSane' /\ ForkChild' /\ ZombiePlace' /\ InitAlive'
  BY <1>1, <1>2, Slots DEF IInv, TypeOK, IdleFixed, CurrentSane, ForkChild, ZombiePlace,
     InitAlive, Windows
<1>7. ParentAlive' /\ NoZombieUnseen'
  BY <1>1, <1>2, <1>3 DEF IInv, TypeOK, ParentAlive, NoZombieUnseen, Reapable, Children
<1> QED
  BY <1>4, <1>5, <1>6, <1>7 DEF IInv

\* fork() queues a child that is in no queue yet.
LEMMA ForkRunStep ==
    ASSUME IInv, NEW p \in Slot, ForkRun(p)
    PROVE  IInv'
<1> DEFINE np == newp[p]
<1>1. /\ p = cur /\ mode = "run" /\ at[p] = "fork2"
      /\ state' = [r \in Slot |-> IF r \in {np} THEN "RUNNABLE" ELSE state[r]]
      /\ prio' = [prio EXCEPT ![np] = prio[p]]
      /\ queue' = PushTail(queue, prio', {np})
      /\ wait_ticks' = [wait_ticks EXCEPT ![np] = 0]
      /\ newp' = [newp EXCEPT ![p] = NoSlot]
      /\ at' = [at EXCEPT ![p] = "kernel"]
      /\ UNCHANGED <<chan, killed, parent, cur, preempt_pending, mode, disk, due, hit>>
  BY DEF ForkRun, At, Goto, Awake
<1>2. p # idle /\ state[p] = "RUNNING"
  BY <1>1, Actor
<1>3. /\ np \in Slot /\ state[np] = "USED"
      /\ \A r \in Slot \ {p} : at[r] \in {"fork1", "fork2"} => newp[r] # np
  BY <1>1 DEF IInv, ForkChild
<1> HIDE DEF np
<1>4. np # idle /\ np # p
  BY <1>2, <1>3 DEF IInv, IdleFixed
<1>5. RunqExact'
  <2>1. \A r \in Slot \ {idle} :
          /\ state'[r] = "RUNNABLE" <=> r \in {np} \/ state[r] = "RUNNABLE"
          /\ r \in {np} => state[r] # "RUNNABLE"
          /\ state[r] = "RUNNABLE" => prio'[r] = prio[r]
    BY <1>1, <1>3 DEF IInv, TypeOK
  <2>2. prio'[idle] = prio[idle]
    BY <1>1, <1>4, Slots DEF IInv, TypeOK
  <2>3. {np} \in SUBSET Slot /\ idle \notin {np}
    BY <1>3, <1>4
  <2> QED
    BY <1>1, <2>1, <2>2, <2>3, RunqPushed
<1>6. TypeOK'
  <2>1. PushTail(queue, prio', {np}) \in Queue
    BY <1>3, PushTailMembers DEF IInv, TypeOK, Queue
  <2> QED
    BY <1>1, <1>3, <2>1, Zeros DEF IInv, TypeOK, Place, State, Queue
<1>7. IdleFixed' /\ CurrentSane' /\ ZombiePlace' /\ InitAlive'
  BY <1>1, <1>2, <1>3, <1>4, Slots DEF IInv, TypeOK, IdleFixed, CurrentSane, ZombiePlace,
     InitAlive, Windows
<1>8. ForkChild'
  BY <1>1, <1>2, <1>3, <1>4 DEF IInv, TypeOK, ForkChild
<1>9. ParentAlive' /\ NoZombieUnseen'
  BY <1>1, <1>2, <1>3, <1>4 DEF IInv, TypeOK, ParentAlive, NoZombieUnseen, Reapable, Children
<1> QED
  BY <1>5, <1>6, <1>7, <1>8, <1>9 DEF IInv

\* wakeup() and kill(): processes asleep, but not the current one, are queued.
LEMMA WakeStep ==
    ASSUME IInv, NEW S \in SUBSET Slot,
           \A r \in S : state[r] = "SLEEPING" /\ r # cur,
           mode = "run", mode' \in {"run", "tick"},
           state' = Awake(S), PrioEnqueue(S),
           UNCHANGED <<chan, parent, cur, at, newp>>,
           killed' \in [Slot -> BOOLEAN], disk' \in [Slot -> BOOLEAN],
           due' \in [Slot -> 0 .. MaxNap], hit' \subseteq Slot
    PROVE  IInv'
<1>1. /\ state' = [r \in Slot |-> IF r \in S THEN "RUNNABLE" ELSE state[r]]
      /\ queue' = PushTail(queue, prio, S)
      /\ wait_ticks' = [r \in Slot |-> IF r \in S THEN 0 ELSE wait_ticks[r]]
      /\ preempt_pending' \in BOOLEAN /\ prio' = prio
  BY DEF Awake, PrioEnqueue, IInv, TypeOK
<1>2. idle \notin S
  BY DEF IInv, IdleFixed
<1>3. TypeOK'
  <2>1. PushTail(queue, prio, S) \in Queue
    BY PushTailMembers DEF IInv, TypeOK, Queue
  <2>2. wait_ticks' \in [Slot -> 0 .. AGING_TICKS]
    BY <1>1, Zeros DEF IInv, TypeOK
  <2> QED
    BY <1>1, <2>1, <2>2 DEF IInv, TypeOK, State, Queue
<1>4. RunqExact'
  <2>1. \A r \in Slot \ {idle} :
          /\ state'[r] = "RUNNABLE" <=> r \in S \/ state[r] = "RUNNABLE"
          /\ r \in S => state[r] # "RUNNABLE"
          /\ state[r] = "RUNNABLE" => prio'[r] = prio[r]
    BY <1>1
  <2> QED
    BY <1>1, <1>2, <2>1, RunqPushed
<1>5. IdleFixed' /\ CurrentSane' /\ ForkChild' /\ ZombiePlace' /\ InitAlive'
  BY <1>1, <1>2, Slots DEF IInv, TypeOK, IdleFixed, CurrentSane, ForkChild, ZombiePlace,
     InitAlive, Windows
<1>6. ParentAlive' /\ NoZombieUnseen'
  BY <1>1 DEF IInv, TypeOK, ParentAlive, NoZombieUnseen, Reapable, Children
<1> QED
  BY <1>3, <1>4, <1>5, <1>6 DEF IInv

\* kill() queues only a process that was asleep.
LEMMA KillStep ==
    ASSUME IInv, NEW p \in Slot, NEW t \in Slot, Kill(p, t)
    PROVE  IInv'
<1> DEFINE S == IF state[t] = "SLEEPING" THEN {t} ELSE {}
<1>1. p = cur /\ mode = "run" /\ at[p] = "kernel" /\ mode' = mode
  BY DEF Kill, InCall, At
<1>2. state[p] = "RUNNING"
  BY <1>1, Actor
<1>3. S \in SUBSET Slot /\ \A r \in S : state[r] = "SLEEPING" /\ r # cur
  BY <1>1, <1>2
<1>4. /\ state' = Awake(S) /\ PrioEnqueue(S)
      /\ killed' = [killed EXCEPT ![t] = TRUE]
      /\ UNCHANGED <<chan, parent, cur, at, newp, disk, due, hit>>
  BY DEF Kill, ctlvars
<1> HIDE DEF S
<1>5. /\ killed' \in [Slot -> BOOLEAN] /\ disk' \in [Slot -> BOOLEAN]
      /\ due' \in [Slot -> 0 .. MaxNap] /\ hit' \subseteq Slot
  BY <1>4 DEF IInv, TypeOK
<1> QED
  BY <1>1, <1>3, <1>4, <1>5, WakeStep

\* virtio_disk_intr() queues at most the process it wakes.
LEMMA DiskIntrStep ==
    ASSUME IInv, NEW p \in Slot, DiskIntr(p)
    PROVE  IInv'
<1> DEFINE S == Sleepers("disk") \cap {p}
<1>1. S \in SUBSET Slot /\ \A r \in S : state[r] = "SLEEPING" /\ r # cur
  BY DEF Sleepers
<1>2. /\ mode = "run" /\ mode' = mode
      /\ state' = Awake(S) /\ PrioEnqueue(S)
      /\ disk' = [disk EXCEPT ![p] = FALSE]
      /\ hit' = hit \cup {q \in {p} \cap {cur} : state[q] = "SLEEPING" /\ chan[q] = "disk"}
      /\ UNCHANGED <<chan, killed, parent, cur, at, newp, due>>
  BY DEF DiskIntr, Interruptible, ctlvars
<1> HIDE DEF S
<1>3. /\ killed' \in [Slot -> BOOLEAN] /\ disk' \in [Slot -> BOOLEAN]
      /\ due' \in [Slot -> 0 .. MaxNap] /\ hit' \subseteq Slot
  BY <1>2 DEF IInv, TypeOK
<1> QED
  BY <1>1, <1>2, <1>3, WakeStep

\* clockintr() queues the sleepers of sys_sleep().
LEMMA ClockIntrStep ==
    ASSUME IInv, ClockIntr
    PROVE  IInv'
<1> DEFINE S == Sleepers("ticks")
<1>1. S \in SUBSET Slot /\ \A r \in S : state[r] = "SLEEPING" /\ r # cur
  BY DEF Sleepers
<1>2. /\ mode = "run" /\ mode' = "tick"
      /\ state' = Awake(S) /\ PrioEnqueue(S)
      /\ due' = [r \in Slot |-> IF due[r] > 0 THEN due[r] - 1 ELSE 0]
      /\ UNCHANGED <<chan, killed, parent, cur, at, newp, disk, hit>>
  BY DEF ClockIntr, Interruptible, ctlvars
<1> HIDE DEF S
<1>3. due' \in [Slot -> 0 .. MaxNap]
  BY <1>2, SchedAssumption DEF IInv, TypeOK
<1>4. killed' \in [Slot -> BOOLEAN] /\ disk' \in [Slot -> BOOLEAN] /\ hit' \subseteq Slot
  BY <1>2 DEF IInv, TypeOK
<1> QED
  BY <1>1, <1>2, <1>3, <1>4, WakeStep

-----------------------------------------------------------------------------
(* The loops that sleep. *)

\* sleep() by the current process; in wait() it has seen no ZOMBIE.
LEMMA SleepStep ==
    ASSUME IInv, NEW p \in Slot, NEW c \in Chan, p = cur, mode = "run",
           at[p] \in {"kernel", "slept"}, Sleep(p, c), c = "wait" => Reapable(p) = {},
           UNCHANGED <<killed, parent, qvars, cur, preempt_pending, mode, newp>>,
           disk' \in [Slot -> BOOLEAN], due' \in [Slot -> 0 .. MaxNap]
    PROVE  IInv'
<1>1. /\ state' = [state EXCEPT ![p] = "SLEEPING"]
      /\ chan' = [chan EXCEPT ![p] = c]
      /\ at' = [at EXCEPT ![p] = "window"]
      /\ hit' = hit \ {p}
      /\ UNCHANGED <<killed, parent, prio, wait_ticks, queue, cur, preempt_pending, mode, newp>>
  BY DEF Sleep, Goto, qvars
<1>2. p # idle /\ state[p] = "RUNNING"
  BY Actor
<1>3. RunqExact'
  <2>1. \A r \in Slot \ {idle} :
          /\ state'[r] = "RUNNABLE" <=> state[r] = "RUNNABLE"
          /\ state[r] = "RUNNABLE" => prio'[r] = prio[r]
    BY <1>1, <1>2 DEF IInv, TypeOK
  <2> QED
    BY <1>1, <2>1, RunqKept
<1>4. TypeOK'
  BY <1>1 DEF IInv, TypeOK, Place, State
<1>5. IdleFixed' /\ CurrentSane' /\ ForkChild' /\ ZombiePlace' /\ InitAlive'
  BY <1>1, <1>2, Slots DEF IInv, TypeOK, IdleFixed, CurrentSane, ForkChild, ZombiePlace,
     InitAlive, Windows
<1>6. ParentAlive' /\ NoZombieUnseen'
  BY <1>1, <1>2 DEF IInv, TypeOK, ParentAlive, NoZombieUnseen, Reapable, Children
<1> QED
  BY <1>3, <1>4, <1>5, <1>6 DEF IInv

\* The end of a sleeping call.
LEMMA ReturnStep ==
    ASSUME IInv, NEW p \in Slot, p = cur, mode = "run",
           at[p] \in {"kernel", "slept"}, Return(p),
           UNCHANGED <<killed, parent, qvars, cur, preempt_pending, mode, newp>>,
           disk' \in [Slot -> BOOLEAN], due' \in [Slot -> 0 .. MaxNap]
    PROVE  IInv'
<1>1. /\ chan' = [chan EXCEPT ![p] = "none"]
      /\ at' = [at EXCEPT ![p] = "kernel"]
      /\ hit' = hit \ {p}
      /\ UNCHANGED <<state, killed, parent, prio, wait_ticks, queue, cur, preempt_pending,
                     mode, newp>>
  BY DEF Return, Goto, qvars
<1>2. p # idle /\ state[p] = "RUNNING"
  BY Actor
<1>3. RunqExact'
  BY <1>1, RunqKept
<1>4. TypeOK'
  BY <1>1 DEF IInv, TypeOK, Place, Chan
<1>5. IdleFixed' /\ CurrentSane' /\ ForkChild' /\ ZombiePlace' /\ InitAlive'
  BY <1>1, <1>2, Slots DEF IInv, TypeOK, IdleFixed, CurrentSane, ForkChild, ZombiePlace,
     InitAlive, Windows
<1>6. ParentAlive' /\ NoZombieUnseen'
  BY <1>1, <1>2 DEF IInv, TypeOK, ParentAlive, NoZombieUnseen, Reapable, Children
<1> QED
  BY <1>3, <1>4, <1>5, <1>6 DEF IInv

\* wait() frees the slot of a child.
LEMMA ReapStep ==
    ASSUME IInv, NEW p \in Slot, p = cur, mode = "run",
           at[p] \in {"kernel", "slept"}, Reapable(p) # {}, Reap(p, First(Reapable(p))),
           UNCHANGED <<qvars, cur, preempt_pending, mode, newp, disk, due>>
    PROVE  IInv'
<1> DEFINE q == First(Reapable(p))
<1>1. /\ state' = [state EXCEPT ![q] = "UNUSED"]
      /\ chan' = [chan EXCEPT ![p] = "none", ![q] = "none"]
      /\ killed' = [killed EXCEPT ![q] = FALSE]
      /\ parent' = [parent EXCEPT ![q] = NoSlot]
      /\ at' = [at EXCEPT ![p] = "kernel", ![q] = "none"]
      /\ hit' = hit \ {p}
      /\ UNCHANGED <<prio, wait_ticks, queue, cur, preempt_pending, mode, newp, disk, due>>
  BY DEF Reap, qvars
<1>2. q \in Slot /\ state[q] = "ZOMBIE"
  <2>1. Reapable(p) \in SUBSET Slot
    BY DEF Reapable, Children
  <2>2. q \in Reapable(p)
    BY <2>1, FirstIn
  <2> QED
    BY <2>2 DEF Reapable, Children
<1>3. p # idle /\ state[p] = "RUNNING"
  BY Actor
<1> HIDE DEF q
<1>4. q # idle /\ q # p /\ at[q] = "gone" /\ q # init
  BY <1>2, <1>3 DEF IInv, IdleFixed, ZombiePlace, InitAlive
<1>5. RunqExact'
  <2>1. \A r \in Slot \ {idle} :
          /\ state'[r] = "RUNNABLE" <=> state[r] = "RUNNABLE"
          /\ state[r] = "RUNNABLE" => prio'[r] = prio[r]
    BY <1>1, <1>2 DEF IInv, TypeOK
  <2> QED
    BY <1>1, <2>1, RunqKept
<1>6. TypeOK'
  BY <1>1 DEF IInv, TypeOK, Place, State, Chan
<1>7. IdleFixed' /\ CurrentSane' /\ ForkChild' /\ ZombiePlace' /\ InitAlive'
  BY <1>1, <1>2, <1>3, <1>4, Slots DEF IInv, TypeOK, IdleFixed, CurrentSane, ForkChild,
     ZombiePlace, InitAlive, Windows
<1>8. ParentAlive'
  BY <1>1, <1>2, <1>3, <1>4, Slots DEF IInv, TypeOK, ParentAlive
<1>9. NoZombieUnseen'
  BY <1>1, <1>2, <1>3, <1>4, Slots DEF IInv, TypeOK, NoZombieUnseen, Reapable, Children
<1> QED
  BY <1>5, <1>6, <1>7, <1>8, <1>9 DEF IInv

\* Each way through the loop of wait().
LEMMA WaitStep ==
    ASSUME IInv, NEW p \in Slot, Wait(p)
    PROVE  IInv'
<1>1. /\ p = cur /\ mode = "run" /\ at[p] \in {"kernel", "slept"}
      /\ UNCHANGED <<qvars, cur, preempt_pending, mode, newp, disk, due>>
  BY DEF Wait, InCall, InLoop, At
<1>2. disk' \in [Slot -> BOOLEAN] /\ due' \in [Slot -> 0 .. MaxNap]
  BY <1>1 DEF IInv, TypeOK
<1>3. CASE Reapable(p) # {} /\ Reap(p, First(Reapable(p)))
  BY <1>1, <1>3, ReapStep
<1>4. CASE Return(p) /\ UNCHANGED <<killed, parent>>
  BY <1>1, <1>2, <1>4, ReturnStep
<1>5. CASE Reapable(p) = {} /\ Sleep(p, "wait") /\ UNCHANGED <<killed, parent>>
  <2>1. "wait" \in Chan
    BY DEF Chan
  <2> QED
    BY <1>1, <1>2, <1>5, <2>1, SleepStep
<1> QED
  BY <1>3, <1>4, <1>5 DEF Wait

\* Each way through the loop of sys_sleep().
LEMMA NapStep ==
    ASSUME IInv, NEW p \in Slot,
           (\E n \in 0 .. MaxNap : Nap(p, n)) \/ NapAgain(p)
    PROVE  IInv'
<1>1. PICK n \in 0 .. MaxNap : NapPass(p, n)
  BY DEF Nap, NapAgain, IInv, TypeOK
<1>2. p = cur /\ mode = "run" /\ at[p] \in {"kernel", "slept"}
  BY DEF Nap, NapAgain, InCall, InLoop, At
<1>3. /\ due' = [due EXCEPT ![p] = n]
      /\ Return(p) \/ Sleep(p, "ticks")
      /\ UNCHANGED <<killed, parent, qvars, cur, preempt_pending, mode, newp, disk>>
  BY <1>1 DEF NapPass
<1>4. disk' \in [Slot -> BOOLEAN] /\ due' \in [Slot -> 0 .. MaxNap]
  BY <1>3 DEF IInv, TypeOK
<1>5. "ticks" \in Chan /\ "ticks" # "wait"
  BY DEF Chan
<1> QED
  BY <1>2, <1>3, <1>4, <1>5, ReturnStep, SleepStep

\* virtio_disk_rw() before and after each sleep().
LEMMA DiskStep ==
    ASSUME IInv, NEW p \in Slot, DiskRW(p) \/ DiskAgain(p)
    PROVE  IInv'
<1>1. p = cur /\ mode = "run" /\ at[p] \in {"kernel", "slept"}
  BY DEF DiskRW, DiskAgain, InCall, InLoop, At
<1>2. /\ Return(p) \/ Sleep(p, "disk")
      /\ UNCHANGED <<killed, parent, qvars, cur, preempt_pending, mode, newp, due>>
      /\ disk' = disk \/ disk' = [disk EXCEPT ![p] = TRUE]
  BY DEF DiskRW, DiskAgain
<1>3. disk' \in [Slot -> BOOLEAN] /\ due' \in [Slot -> 0 .. MaxNap]
  BY <1>2 DEF IInv, TypeOK
<1>4. "disk" \in Chan /\ "disk" # "wait"
  BY DEF Chan
<1> QED
  BY <1>1, <1>2, <1>3, <1>4, ReturnStep, SleepStep

-----------------------------------------------------------------------------
(* exit() *)

\* exit() hands the children to init and wakes whoever may wait for a ZOMBIE.
LEMMA ExitStep ==
    ASSUME IInv, NEW p \in Slot, SysExit(p) \/ TrapExit(p)
    PROVE  IInv'
<1> DEFINE S == ExitWakes(p)
<1>1. /\ p = cur /\ mode # "schedule" /\ at[p] \in {"kernel", "user"} /\ p # init
      /\ \/ at' = [at EXCEPT ![p] = "zwindow"] /\ mode' = mode
         \/ at' = [at EXCEPT ![p] = "gone"] /\ mode' = "schedule"
      /\ killed' = killed \/ killed' = [killed EXCEPT ![p] = TRUE]
      /\ parent' = [q \in Slot |-> IF parent[q] = p THEN init ELSE parent[q]]
      /\ state' = [Awake(S) EXCEPT ![p] = "ZOMBIE"]
      /\ PrioEnqueue(S)
      /\ UNCHANGED <<chan, cur, newp, disk, due, hit>>
  BY DEF SysExit, TrapExit, Exit, InCall, At, Goto, Reparent
<1>2. p # idle /\ state[p] = "RUNNING"
  BY <1>1, Actor
<1>3. /\ S \in SUBSET Slot
      /\ \A r \in S : state[r] = "SLEEPING" /\ r # p /\ r # idle
      /\ \A r \in Slot : /\ r # p /\ state[r] = "SLEEPING" /\ chan[r] = "wait"
                         /\ r \notin S
                         => r # parent[p] /\ (r = init => Children(p) = {})
  BY <1>1 DEF ExitWakes, Sleepers, IInv, IdleFixed
<1> HIDE DEF S
<1>4. /\ \A r \in Slot : state'[r] = IF r = p THEN "ZOMBIE"
                                     ELSE IF r \in S THEN "RUNNABLE" ELSE state[r]
      /\ queue' = PushTail(queue, prio, S)
      /\ wait_ticks' = [r \in Slot |-> IF r \in S THEN 0 ELSE wait_ticks[r]]
      /\ prio' = prio
      /\ preempt_pending' \in BOOLEAN
      /\ state' \in [Slot -> State]
  BY <1>1 DEF Awake, PrioEnqueue, IInv, TypeOK, State
<1>5. TypeOK'
  <2>1. PushTail(queue, prio, S) \in Queue
    BY <1>3, PushTailMembers DEF IInv, TypeOK, Queue
  <2>2. wait_ticks' \in [Slot -> 0 .. AGING_TICKS]
    BY <1>4, Zeros DEF IInv, TypeOK
  <2>3. parent' \in [Slot -> Slot \cup {NoSlot}]
    BY <1>1, Slots DEF IInv, TypeOK
  <2>4. at' \in [Slot -> Place] /\ killed' \in [Slot -> BOOLEAN]
    BY <1>1 DEF IInv, TypeOK, Place
  <2> QED
    BY <1>1, <1>4, <2>1, <2>2, <2>3, <2>4 DEF IInv, TypeOK, Queue
<1>6. RunqExact'
  <2>1. \A r \in Slot \ {idle} :
          /\ state'[r] = "RUNNABLE" <=> r \in S \/ state[r] = "RUNNABLE"
          /\ r \in S => state[r] # "RUNNABLE"
          /\ state[r] = "RUNNABLE" => prio'[r] = prio[r]
    BY <1>2, <1>3, <1>4
  <2> QED
    BY <1>1, <1>3, <1>4, <2>1, RunqPushed
<1>7. \A r \in Slot : at'[r] = at[r] \/ (r = p /\ at'[r] \in {"zwindow", "gone"})
  BY <1>1 DEF IInv, TypeOK
<1>8. IdleFixed' /\ CurrentSane' /\ InitAlive'
  BY <1>1, <1>2, <1>3, <1>4, <1>7, Slots DEF IInv, TypeOK, IdleFixed, CurrentSane,
     InitAlive, Windows
<1>9. ZombiePlace'
  BY <1>1, <1>2, <1>3, <1>4, <1>7 DEF IInv, TypeOK, ZombiePlace
<1>10. ForkChild'
  BY <1>1, <1>2, <1>3, <1>4, <1>7 DEF IInv, TypeOK, ForkChild
<1>11. ParentAlive'
  BY <1>1, <1>7, Slots DEF IInv, TypeOK, ParentAlive, InitAlive
<1>12. NoZombieUnseen'
  <2> SUFFICES ASSUME NEW r \in Slot, state'[r] = "SLEEPING", chan[r] = "wait",
                      NEW q \in Slot, parent'[q] = r, state'[q] = "ZOMBIE"
               PROVE  FALSE
    BY <1>1 DEF NoZombieUnseen, Reapable, Children
  <2>1. /\ r # p /\ r \notin S /\ state[r] = "SLEEPING"
        /\ r # parent[p] /\ (r = init => Children(p) = {})
    BY <1>3, <1>4
  <2>2. parent[q] # p
    <3>1. CASE parent[q] = p
      BY <1>1, <2>1, <3>1 DEF Children
    <3> QED
      BY <3>1
  <2>3. parent[q] = r
    BY <1>1, <2>2
  <2>4. q # p /\ state[q] = "ZOMBIE"
    BY <1>4, <2>1, <2>3
  <2> QED
    BY <2>1, <2>3, <2>4 DEF IInv, NoZombieUnseen, Reapable, Children
<1> QED
  BY <1>5, <1>6, <1>8, <1>9, <1>10, <1>11, <1>12 DEF IInv

-----------------------------------------------------------------------------
(* The timer interrupt after clockintr(). *)

\* prio_on_tick() moves a process up in its queue and in its priority alike.
LEMMA AgingStep ==
    ASSUME IInv, PrioOnTick
    PROVE  RunqExact' /\ queue' \in Queue /\ prio' \in [Slot -> Prio]
<1> DEFINE A == Aged
<1>1. /\ queue' = MoveUp(queue, A)
      /\ prio' = [p \in Slot |-> IF p \in A THEN prio[p] - 1 ELSE prio[p]]
      /\ UNCHANGED <<state, cur>> /\ mode # "schedule"
  BY DEF PrioOnTick, procvars
<1>2. /\ A \in SUBSET Queued
      /\ \A p \in A : prio[p] > 0
  BY DEF Aged, PRIO_MIN
<1> HIDE DEF A
<1>3. queue \in Queue /\ prio \in [Slot -> Prio]
  BY DEF IInv, TypeOK, Queue
<1>4. /\ queue' \in Queue
      /\ \A k \in Prio :
           /\ Members(queue'[k]) = (Members(queue[k]) \cap (Slot \ A))
                \cup (IF k < PRIO_MAX THEN Members(queue[k + 1]) \cap A ELSE {})
           /\ (\A j \in Prio : Once(queue[j])) => Once(queue'[k])
  BY <1>1, <1>3, MoveUpMembers
<1>5. Exact(queue, state, prio) /\ (idle \in InQueue(queue) => cur # idle)
  BY <1>1, RunqParts DEF IInv
<1>6. prio' \in [Slot -> Prio]
  BY <1>1, <1>2, <1>3, QueueAssumption DEF Prio
<1>7. \A k \in Prio : Once(queue'[k])
  BY <1>4, <1>5 DEF Exact
<1>8. \A k \in Prio : \A p \in Members(queue[k]) : p \in Slot /\ prio[p] = k
  BY <1>5, Slots DEF Exact
<1>9. ASSUME NEW k \in Prio, NEW p \in Slot
      PROVE  p \in Members(queue'[k]) <=> p \in InQueue(queue) /\ prio'[p] = k
  <2>1. p \in InQueue(queue) <=> p \in Members(queue[prio[p]])
    BY <1>3, <1>8 DEF InQueue
  <2>2. CASE p \notin A
    <3>1. p \in Members(queue'[k]) <=> p \in Members(queue[k])
      BY <1>4, <2>2
    <3>2. prio'[p] = prio[p]
      BY <1>1, <2>2
    <3> QED
      BY <1>8, <2>1, <3>1, <3>2
  <2>3. CASE p \in A
    <3>1. p \in Members(queue'[k]) <=> k < PRIO_MAX /\ p \in Members(queue[k + 1])
      BY <1>4, <2>3
    <3>2. prio'[p] = prio[p] - 1 /\ prio[p] \in Prio
      BY <1>1, <1>3, <2>3
    <3>3. k < PRIO_MAX <=> k + 1 \in Prio
      BY QueueAssumption DEF Prio, PRIO_MAX
    <3>4. k = prio[p] - 1 <=> k + 1 = prio[p]
      BY <3>2, QueueAssumption DEF Prio
    <3> QED
      BY <1>8, <2>1, <3>1, <3>2, <3>3, <3>4
  <2> QED
    BY <2>2, <2>3
<1>10. \A p \in Slot \ {idle} : p \in InQueue(queue) <=> state[p] = "RUNNABLE"
  BY <1>3, <1>5 DEF Exact, InQueue
<1>11. \A k \in Prio : Members(queue'[k]) \subseteq Slot
  <2>1. \A k \in Prio : Members(queue'[k]) \subseteq Members(queue[k]) \cup InQueue(queue)
    <3> TAKE k \in Prio
    <3>1. k < PRIO_MAX => k + 1 \in Prio
      BY QueueAssumption DEF Prio, PRIO_MAX
    <3> QED
      BY <1>4, <3>1 DEF InQueue
  <2> QED
    BY <1>8, <2>1 DEF InQueue
<1>12. ASSUME NEW k \in Prio
       PROVE  /\ Members(queue'[k]) \ {idle} =
                   {p \in Slot \ {idle} : state'[p] = "RUNNABLE" /\ prio'[p] = k}
              /\ idle \in Members(queue'[k]) => prio'[idle] = k
  <2>1. \A p \in Slot : p \in Members(queue'[k]) <=> p \in InQueue(queue) /\ prio'[p] = k
    BY <1>9
  <2>2. \A p \in Slot \ {idle} :
          p \in Members(queue'[k]) <=> state'[p] = "RUNNABLE" /\ prio'[p] = k
    BY <1>1, <1>10, <2>1
  <2> QED
    BY <1>11, <2>1, <2>2, Slots
<1>13. idle \in InQueue(queue') => cur' # idle \/ mode' = "schedule"
  BY <1>1, <1>5, <1>9, Slots DEF InQueue
<1> QED
  BY <1>4, <1>6, <1>7, <1>12, <1>13 DEF RunqExact, InQueue, Queued

\* prio_on_tick() and the decision of the trap handler.
LEMMA PrioOnTickStep ==
    ASSUME IInv, PrioOnTick
    PROVE  IInv'
<1>1. /\ UNCHANGED <<state, chan, killed, parent, cur, at, newp, disk, due, hit>>
      /\ mode = "tick" /\ mode' \in {"yield", "run"}
      /\ preempt_pending' \in BOOLEAN
  BY DEF PrioOnTick, procvars, ctlvars, IInv, TypeOK
<1>2. wait_ticks' \in [Slot -> 0 .. AGING_TICKS]
  <2>1. wait_ticks \in [Slot -> 0 .. AGING_TICKS]
    BY DEF IInv, TypeOK
  <2>2. ASSUME NEW p \in Slot
        PROVE  (CASE p \in Aged -> 0
                  [] p \in Queued \ Aged ->
                        IF wait_ticks[p] < AGING_TICKS THEN wait_ticks[p] + 1 ELSE AGING_TICKS
                  [] OTHER -> wait_ticks[p]) \in 0 .. AGING_TICKS
    BY <2>1, QueueAssumption
  <2>3. wait_ticks' = [p \in Slot |->
          CASE p \in Aged -> 0
            [] p \in Queued \ Aged ->
                  IF wait_ticks[p] < AGING_TICKS THEN wait_ticks[p] + 1 ELSE AGING_TICKS
            [] OTHER -> wait_ticks[p]]
    BY DEF PrioOnTick
  <2> QED
    BY <2>2, <2>3
<1>3. RunqExact' /\ queue' \in Queue /\ prio' \in [Slot -> Prio]
  BY AgingStep
<1>4. TypeOK'
  BY <1>1, <1>2, <1>3 DEF IInv, TypeOK, Queue
<1>5. IdleFixed' /\ CurrentSane' /\ ForkChild' /\ ZombiePlace' /\ InitAlive'
  BY <1>1 DEF IInv, IdleFixed, CurrentSane, ForkChild, ZombiePlace, InitAlive
<1>6. ParentAlive' /\ NoZombieUnseen'
  BY <1>1 DEF IInv, ParentAlive, NoZombieUnseen, Reapable, Children
<1> QED
  BY <1>3, <1>4, <1>5, <1>6 DEF IInv

\* yield() queues the current process, which is in no queue.
LEMMA YieldStep ==
    ASSUME IInv, Yield
    PROVE  IInv'
<1>1. /\ mode = "yield" /\ mode' = "schedule"
      /\ state' = [r \in Slot |-> IF r \in {cur} THEN "RUNNABLE" ELSE state[r]]
      /\ queue' = PushTail(queue, prio, {cur})
      /\ wait_ticks' = [wait_ticks EXCEPT ![cur] = 0]
      /\ hit' = hit \cup {q \in {cur} : at[q] \in Windows}
      /\ UNCHANGED <<chan, killed, parent, prio, cur, preempt_pending, at, newp, disk, due>>
  BY DEF Yield, Awake, ctlvars
<1>2. cur \in Slot
  BY DEF IInv, TypeOK
<1>3. /\ cur = idle => idle \notin Queued
      /\ cur # idle => state[cur] \in {"RUNNING", "SLEEPING", "ZOMBIE"}
  BY <1>1 DEF IInv, RunqExact, CurrentSane
<1>4. TypeOK'
  <2>1. PushTail(queue, prio, {cur}) \in Queue
    BY <1>2, PushTailMembers DEF IInv, TypeOK, Queue
  <2>2. wait_ticks' \in [Slot -> 0 .. AGING_TICKS]
    BY <1>1, Zeros DEF IInv, TypeOK
  <2> QED
    BY <1>1, <2>1, <2>2 DEF IInv, TypeOK, State, Queue
<1>5. RunqExact'
  <2>1. \A r \in Slot \ {idle} :
          /\ state'[r] = "RUNNABLE" <=> r \in {cur} \/ state[r] = "RUNNABLE"
          /\ r \in {cur} => state[r] # "RUNNABLE"
          /\ state[r] = "RUNNABLE" => prio'[r] = prio[r]
    BY <1>1, <1>3
  <2>2. idle \in {cur} => mode' = "schedule" /\ idle \notin Queued
    BY <1>1, <1>3
  <2>3. {cur} \in SUBSET Slot
    BY <1>2
  <2> QED
    BY <1>1, <2>1, <2>2, <2>3, RunqPushed
<1>6. IdleFixed' /\ CurrentSane' /\ ForkChild' /\ ZombiePlace' /\ InitAlive'
  BY <1>1, <1>2, <1>3, Slots DEF IInv, TypeOK, IdleFixed, CurrentSane, ForkChild,
     ZombiePlace, InitAlive
<1>7. ParentAlive' /\ NoZombieUnseen'
  BY <1>1 DEF IInv, ParentAlive, NoZombieUnseen, Reapable, Children
<1> QED
  BY <1>4, <1>5, <1>6, <1>7 DEF IInv

-----------------------------------------------------------------------------
(* schedule() *)

\* The ways into schedule().
LEMMA EnterStep ==
    ASSUME IInv, EndWindow \/ IdleLoop
    PROVE  IInv'
<1>1. /\ mode = "run" /\ mode' = "schedule"
      /\ \/ at' = at /\ cur = idle
         \/ /\ at[cur] = "window" /\ at' = [at EXCEPT ![cur] = "slept"]
         \/ /\ at[cur] = "zwindow" /\ at' = [at EXCEPT ![cur] = "gone"]
      /\ UNCHANGED <<state, chan, killed, parent, prio, wait_ticks, queue, cur,
                     preempt_pending, newp, disk, due, hit>>
  BY DEF EndWindow, IdleLoop, Goto, procvars, qvars, ctlvars, Windows, At
<1>2. cur \in Slot
  BY DEF IInv, TypeOK
<1>3. RunqExact'
  BY <1>1, RunqKept
<1>4. TypeOK'
  BY <1>1 DEF IInv, TypeOK, Place
<1>5. IdleFixed' /\ CurrentSane' /\ ForkChild' /\ ZombiePlace' /\ InitAlive'
  BY <1>1, <1>2, Slots DEF IInv, TypeOK, IdleFixed, CurrentSane, ForkChild, ZombiePlace,
     InitAlive
<1>6. ParentAlive' /\ NoZombieUnseen'
  BY <1>1, <1>2 DEF IInv, TypeOK, ParentAlive, NoZombieUnseen, Reapable, Children
<1> QED
  BY <1>3, <1>4, <1>5, <1>6 DEF IInv

\* schedule() with nobody ready.
LEMMA ScheduleIdleStep ==
    ASSUME IInv, ScheduleIdle
    PROVE  IInv'
<1>1. /\ mode = "schedule" /\ mode' = "run" /\ cur' = idle
      /\ HighestNonEmpty(queue) < 0
      /\ UNCHANGED <<state, chan, killed, parent, prio, wait_ticks, queue,
                     preempt_pending, at, newp, disk, due, hit>>
  BY DEF ScheduleIdle, procvars, qvars, ctlvars
<1>2. idle \notin Queued
  <2>1. \A k \in Prio : queue[k] = << >>
    BY <1>1, HighestLevel DEF IInv, TypeOK, Queue
  <2>2. Members(<< >>) = {}
    BY DEF Members
  <2> QED
    BY <2>1, <2>2 DEF Queued
<1>3. RunqExact'
  BY <1>1, <1>2 DEF IInv, RunqExact, Queued
<1>4. TypeOK'
  BY <1>1, Slots DEF IInv, TypeOK
<1>5. IdleFixed' /\ CurrentSane' /\ ForkChild' /\ ZombiePlace' /\ InitAlive'
  BY <1>1 DEF IInv, IdleFixed, CurrentSane, ForkChild, ZombiePlace, InitAlive
<1>6. ParentAlive' /\ NoZombieUnseen'
  BY <1>1 DEF IInv, ParentAlive, NoZombieUnseen, Reapable, Children
<1> QED
  BY <1>3, <1>4, <1>5, <1>6 DEF IInv

\* schedule() takes a process out of the queue and runs it.
LEMMA SchedulePickStep ==
    ASSUME IInv, SchedulePick
    PROVE  IInv'
<1> DEFINE next == PickNext(queue)
           h == HighestNonEmpty(queue)
<1>1. /\ mode = "schedule" /\ mode' = "run" /\ h >= 0
      /\ queue' = AfterPick(queue) /\ cur' = next
      /\ state' = IF next = idle THEN state ELSE [state EXCEPT ![next] = "RUNNING"]
      /\ wait_ticks' = IF next = idle THEN wait_ticks ELSE [wait_ticks EXCEPT ![next] = 0]
      /\ UNCHANGED <<chan, killed, parent, prio, preempt_pending, at, newp, disk, due, hit>>
  BY DEF SchedulePick, ctlvars
<1>2. queue \in Queue
  BY DEF IInv, TypeOK, Queue
<1>3. Exact(queue, state, prio)
  BY RunqParts DEF IInv
<1>4. \A k \in Prio : Once(queue[k])
  BY <1>3 DEF Exact
<1>5. h \in Prio
  BY <1>1, <1>2, HighestLevel
<1>6. /\ AfterPick(queue) \in Queue /\ next \in Members(queue[h]) /\ next \in Slot
      /\ \A k \in Prio :
           /\ Once(AfterPick(queue)[k])
           /\ Members(AfterPick(queue)[k]) =
                IF k = h THEN Members(queue[k]) \ {next} ELSE Members(queue[k])
  BY <1>1, <1>2, <1>4, AfterPickMembers
<1> HIDE DEF next, h
<1>7. /\ next # idle => state[next] = "RUNNABLE"
      /\ prio[next] = h
  BY <1>3, <1>5, <1>6 DEF Exact
<1>8. RunqExact'
  <2>1. \A r \in Slot : state'[r] = IF r = next /\ next # idle THEN "RUNNING" ELSE state[r]
    BY <1>1 DEF IInv, TypeOK
  <2>2. ASSUME NEW k \in Prio
        PROVE  /\ Members(queue'[k]) \ {idle} =
                    {p \in Slot \ {idle} : state'[p] = "RUNNABLE" /\ prio'[p] = k}
               /\ idle \in Members(queue'[k]) => prio'[idle] = k
    <3>1. /\ Members(queue[k]) \ {idle} =
               {p \in Slot \ {idle} : state[p] = "RUNNABLE" /\ prio[p] = k}
          /\ idle \in Members(queue[k]) => prio[idle] = k
      BY <1>3 DEF Exact
    <3>2. Members(queue'[k]) =
            IF k = h THEN Members(queue[k]) \ {next} ELSE Members(queue[k])
      BY <1>1, <1>6
    <3> QED
      BY <1>1, <1>7, <2>1, <3>1, <3>2
  <2>3. cur' = idle => idle \notin InQueue(queue')
    <3> SUFFICES ASSUME next = idle, NEW k \in Prio, idle \in Members(queue'[k])
                 PROVE  FALSE
      BY <1>1 DEF InQueue
    <3>1. idle \in Members(queue[k]) /\ k # h
      BY <1>1, <1>6
    <3> QED
      BY <1>3, <1>7, <3>1 DEF Exact
  <2> QED
    BY <1>1, <1>6, <2>2, <2>3 DEF RunqExact, InQueue, Queued
<1>9. TypeOK'
  <2>1. wait_ticks' \in [Slot -> 0 .. AGING_TICKS]
    BY <1>1, Zeros DEF IInv, TypeOK
  <2> QED
    BY <1>1, <1>6, <2>1 DEF IInv, TypeOK, State, Queue
<1>10. IdleFixed' /\ CurrentSane' /\ ForkChild' /\ ZombiePlace' /\ InitAlive'
  BY <1>1, <1>6, <1>7, Slots DEF IInv, TypeOK, IdleFixed, CurrentSane, ForkChild,
     ZombiePlace, InitAlive
<1>11. ParentAlive' /\ NoZombieUnseen'
  BY <1>1, <1>6, <1>7 DEF IInv, TypeOK, ParentAlive, NoZombieUnseen, Reapable, Children
<1> QED
  BY <1>8, <1>9, <1>10, <1>11 DEF IInv

-----------------------------------------------------------------------------
(* The theorems. *)

\* The state after userinit() and scheduler() satisfies the invariant.
LEMMA InitEstablishes == Init => IInv
<1> SUFFICES ASSUME Init PROVE IInv
  OBVIOUS
<1> DEFINE q0 == EmptyQueue
<1>1. /\ state = [p \in Slot |-> IF p \in {init, idle} THEN "RUNNABLE" ELSE "UNUSED"]
      /\ chan = [p \in Slot |-> "none"]
      /\ killed = [p \in Slot |-> FALSE]
      /\ parent = [p \in Slot |-> NoSlot]
      /\ prio = [p \in Slot |-> IF p = idle THEN PRIO_MAX ELSE PRIO_DEFAULT]
      /\ wait_ticks = [p \in Slot |-> 0]
      /\ queue = PushTail(q0, prio, {init})
      /\ cur = idle /\ preempt_pending = FALSE /\ mode = "run"
      /\ at = [p \in Slot |-> IF p = idle THEN "idle" ELSE IF p = init THEN "user" ELSE "none"]
      /\ newp = [p \in Slot |-> NoSlot]
      /\ disk = [p \in Slot |-> FALSE]
      /\ due = [p \in Slot |-> 0]
      /\ hit = {}
  BY DEF Init
<1>2. q0 \in Queue /\ \A k \in Prio : Members(q0[k]) = {} /\ Once(q0[k])
  <2>1. << >> \in Seq(Slot) /\ DOMAIN << >> = {}
    BY EmptySeq, LenProperties
  <2>2. Members(<< >>) = {} /\ Once(<< >>)
    BY <2>1 DEF Members, Once
  <2> QED
    BY <2>1, <2>2 DEF EmptyQueue, Queue
<1> HIDE DEF q0
<1>3. /\ queue \in Queue
      /\ \A k \in Prio :
           /\ Members(queue[k]) = Members(q0[k]) \cup {p \in {init} : prio[p] = k}
           /\ Once(q0[k]) /\ Members(q0[k]) \cap {p \in {init} : prio[p] = k} = {}
                => Once(queue[k])
  <2>1. queue = PushTail(q0, prio, {init})
    BY <1>1
  <2>2. {init} \in SUBSET Slot
    BY Slots
  <2> QED
    BY <1>2, <2>1, <2>2, PushTailMembers
<1>4. \A k \in Prio : Once(queue[k]) /\ Members(queue[k]) = {p \in {init} : prio[p] = k}
  BY <1>2, <1>3
<1>5. TypeOK
  <2>1. prio \in [Slot -> Prio]
    BY <1>1, SchedAssumption, QueueAssumption DEF Prio, PRIO_MAX
  <2>2. wait_ticks \in [Slot -> 0 .. AGING_TICKS] /\ due \in [Slot -> 0 .. MaxNap]
    BY <1>1, Zeros
  <2> QED
    BY <1>1, <1>3, <2>1, <2>2, Slots DEF TypeOK, State, Chan, Place, Queue
<1>6. RunqExact
  <2>1. \A k \in Prio : Members(queue[k]) \ {idle} =
                          {p \in Slot \ {idle} : state[p] = "RUNNABLE" /\ prio[p] = k}
    BY <1>1, <1>4, Slots
  <2>2. idle \notin Queued
    BY <1>4, Slots DEF Queued
  <2>3. \A k \in Prio : idle \notin Members(queue[k])
    BY <1>4, Slots
  <2> QED
    BY <1>4, <2>1, <2>2, <2>3 DEF RunqExact
<1>7. IdleFixed /\ CurrentSane /\ ForkChild /\ ZombiePlace /\ InitAlive
  BY <1>1, Slots DEF IdleFixed, CurrentSane, ForkChild, ZombiePlace, InitAlive
<1>8. ParentAlive /\ NoZombieUnseen
  BY <1>1, Slots DEF ParentAlive, NoZombieUnseen
<1> QED
  BY <1>5, <1>6, <1>7, <1>8 DEF IInv

\* Every step preserves the invariant.
LEMMA NextPreserves == IInv /\ [Next]_vars => IInv'
<1> SUFFICES ASSUME IInv, [Next]_vars PROVE IInv'
  OBVIOUS
<1>1. CASE UNCHANGED vars
  <2>1. UNCHANGED <<state, chan, killed, parent, prio, wait_ticks, queue, cur,
                    preempt_pending, mode, at, newp, disk, due, hit>>
    BY <1>1 DEF vars
  <2>2. TypeOK' /\ RunqExact'
    BY <2>1 DEF IInv, TypeOK, RunqExact, Queued
  <2>3. IdleFixed' /\ CurrentSane' /\ ForkChild' /\ ZombiePlace' /\ InitAlive'
    BY <2>1 DEF IInv, IdleFixed, CurrentSane, ForkChild, ZombiePlace, InitAlive
  <2>4. ParentAlive' /\ NoZombieUnseen'
    BY <2>1 DEF IInv, ParentAlive, NoZombieUnseen, Reapable, Children
  <2> QED
    BY <2>2, <2>3, <2>4 DEF IInv
<1>2. ASSUME NEW p \in Slot, Syscall(p) \/ SyscallReturn(p) PROVE IInv'
  BY <1>2, SyscallStep
<1>3. ASSUME NEW p \in Slot, ForkAlloc(p) \/ ForkParent(p) \/ ForkRun(p) PROVE IInv'
  BY <1>3, ForkAllocStep, ForkParentStep, ForkRunStep
<1>4. ASSUME NEW p \in Slot, SysExit(p) \/ TrapExit(p) PROVE IInv'
  BY <1>4, ExitStep
<1>5. ASSUME NEW p \in Slot, Wait(p) PROVE IInv'
  BY <1>5, WaitStep
<1>6. ASSUME NEW p \in Slot, (\E n \in 0 .. MaxNap : Nap(p, n)) \/ NapAgain(p) PROVE IInv'
  BY <1>6, NapStep
<1>7. ASSUME NEW p \in Slot, DiskRW(p) \/ DiskAgain(p) PROVE IInv'
  BY <1>7, DiskStep
<1>8. ASSUME NEW p \in Slot, NEW t \in Slot, Kill(p, t) PROVE IInv'
  BY <1>8, KillStep
<1>9. ASSUME NEW p \in Slot, DiskIntr(p) PROVE IInv'
  BY <1>9, DiskIntrStep
<1>10. CASE ClockIntr \/ PrioOnTick \/ Yield
  BY <1>10, ClockIntrStep, PrioOnTickStep, YieldStep
<1>11. CASE EndWindow \/ IdleLoop \/ Schedule
  BY <1>11, EnterStep, ScheduleIdleStep, SchedulePickStep DEF Schedule
<1> QED
  BY <1>1, <1>2, <1>3, <1>4, <1>5, <1>6, <1>7, <1>8, <1>9, <1>10, <1>11 DEF Next

(***************************************************************************)
(* The inductive invariant holds in every behaviour of the kernel.         *)
(***************************************************************************)
THEOREM Inductive == Spec => []IInv
BY InitEstablishes, NextPreserves, PTL DEF Spec

(***************************************************************************)
(* Type correctness of Sched: no step of proc.c or trap.c takes a priority *)
(* out of the table of queues or makes anything but a slot current.        *)
(***************************************************************************)
THEOREM TypeCorrect == Spec => []TypeOK
<1>1. IInv => TypeOK
  BY DEF IInv
<1> QED
  BY <1>1, Inductive, PTL

(***************************************************************************)
(* The ready queue holds exactly the RUNNABLE processes, each once and at  *)
(* its priority, whatever fork(), exit(), wakeup(), kill(), yield() and    *)
(* the timer do in whatever order.                                         *)
(***************************************************************************)
THEOREM ReadyQueueExact == Spec => []RunqExact
<1>1. IInv => RunqExact
  BY DEF IInv
<1> QED
  BY <1>1, Inductive, PTL

(***************************************************************************)
(* wait() frees the stack of a child only when the child has left it.      *)
(***************************************************************************)
THEOREM ZombiesOffCpu == Spec => []ZombieOffCpu
<1>1. IInv => ZombieOffCpu
  BY DEF IInv, ZombiePlace, ZombieOffCpu
<1> QED
  BY <1>1, Inductive, PTL

(***************************************************************************)
(* Every child has a parent that can still wait() for it.                  *)
(***************************************************************************)
THEOREM NoOrphans == Spec => []ParentAlive
<1>1. IInv => ParentAlive
  BY DEF IInv
<1> QED
  BY <1>1, Inductive, PTL

(***************************************************************************)
(* No wakeup is lost between exit() and wait(), although interrupts can    *)
(* hit a process between the release of p->lock in sleep() and schedule(). *)
(***************************************************************************)
THEOREM NoZombieMissed == Spec => []NoZombieUnseen
<1>1. IInv => NoZombieUnseen
  BY DEF IInv
<1> QED
  BY <1>1, Inductive, PTL

(***************************************************************************)
(* schedule() always takes a ready process that no ready process beats.    *)
(***************************************************************************)
THEOREM BestScheduled == Spec => SchedulesBest
<1>1. ASSUME IInv, Next, mode = "schedule", mode' = "run",
             NEW p \in Slot \ {idle}, state[p] = "RUNNABLE"
      PROVE  (cur' # idle \/ idle \in Queued) /\ prio[cur'] <= prio[p]
  <2>1. queue \in Queue /\ prio \in [Slot -> Prio]
    BY <1>1 DEF IInv, TypeOK, Queue
  <2>2. Exact(queue, state, prio)
    BY <1>1, RunqParts DEF IInv
  <2>3. prio[p] \in Prio /\ p \in Members(queue[prio[p]])
    BY <1>1, <2>1, <2>2 DEF Exact
  <2>4. queue[prio[p]] # << >>
    <3>1. Members(<< >>) = {}
      BY DEF Members
    <3> QED
      BY <2>3, <3>1
  <2>5. Schedule
    <3>1. \A r \in Slot : ~At(r, "user") /\ ~At(r, "kernel") /\ ~At(r, "slept")
                          /\ ~At(r, "fork1") /\ ~At(r, "fork2") /\ ~At(r, "idle")
      BY <1>1 DEF At
    <3>2. ~Interruptible
      BY <1>1 DEF Interruptible
    <3>3. ~ClockIntr /\ ~PrioOnTick /\ ~Yield /\ ~EndWindow /\ ~IdleLoop
      BY <1>1, <3>1, <3>2, Slots DEF ClockIntr, PrioOnTick, Yield, EndWindow, IdleLoop
    <3>4. ASSUME NEW r \in Slot
          PROVE  /\ ~Syscall(r) /\ ~SyscallReturn(r) /\ ~ForkAlloc(r) /\ ~ForkParent(r)
                 /\ ~ForkRun(r) /\ ~SysExit(r) /\ ~TrapExit(r) /\ ~Wait(r) /\ ~NapAgain(r)
                 /\ ~DiskRW(r) /\ ~DiskAgain(r) /\ ~DiskIntr(r)
                 /\ (\A n \in 0 .. MaxNap : ~Nap(r, n)) /\ (\A t \in Slot : ~Kill(r, t))
      BY <1>1, <3>1, <3>2 DEF Syscall, SyscallReturn, ForkAlloc, ForkParent, ForkRun, SysExit,
         TrapExit, Wait, Nap, NapAgain, DiskRW, DiskAgain, DiskIntr, Kill, InCall, InLoop
    <3> QED
      BY <1>1, <3>3, <3>4 DEF Next
  <2>6. HighestNonEmpty(queue) >= 0 => HighestNonEmpty(queue) <= prio[p]
    BY <2>1, <2>3, <2>4, HighestLevel
  <2>7. CASE ScheduleIdle
    BY <2>1, <2>3, <2>4, <2>7, HighestLevel DEF ScheduleIdle
  <2>8. CASE SchedulePick
    <3>1. HighestNonEmpty(queue) >= 0 /\ cur' = PickNext(queue)
      BY <2>8 DEF SchedulePick
    <3>2. \A k \in Prio : Once(queue[k])
      BY <2>2 DEF Exact
    <3>3. HighestNonEmpty(queue) \in Prio /\ cur' \in Members(queue[HighestNonEmpty(queue)])
      BY <2>1, <3>1, <3>2, HighestLevel, AfterPickMembers
    <3>4. prio[cur'] = HighestNonEmpty(queue)
      BY <2>2, <3>3 DEF Exact
    <3>5. cur' \in Queued
      BY <3>3 DEF Queued
    <3> QED
      BY <2>6, <3>1, <3>4, <3>5
  <2> QED
    BY <2>5, <2>7, <2>8 DEF Schedule
<1>2. IInv /\ [Next]_vars =>
        [ mode = "schedule" /\ mode' = "run" =>
            \A p \in Slot \ {idle} : state[p] = "RUNNABLE" =>
                (cur' # idle \/ idle \in Queued) /\ prio[cur'] <= prio[p] ]_vars
  BY <1>1
<1> QED
  BY <1>2, Inductive, PTL DEF Spec, SchedulesBest

-----------------------------------------------------------------------------
(* What an interrupt in the windows of sleep() and exit() does, and to whom. *)

\* Only the current process is in a window, in the state that goes with it,
\* unless an interrupt has hit it there.
WindowSane ==
    \A p \in Slot \ hit : at[p] \in Windows =>
        /\ p = cur /\ mode # "schedule"
        /\ state[p] = IF at[p] = "window" THEN "SLEEPING" ELSE "ZOMBIE"

\* Nobody else gives up the CPU as RUNNING.
SwitchSane == mode = "schedule" /\ cur \notin hit => state[cur] # "RUNNING"

\* LostOnlyInWindow is inductive together with these two.
LossInv == WindowSane /\ SwitchSane /\ LostOnlyInWindow

\* Nothing is lost at the start.
LEMMA LossInit == Init => LossInv
BY Slots DEF Init, LossInv, WindowSane, SwitchSane, LostOnlyInWindow, Windows

\* What a wakeup of S leaves true.
LEMMA LossWake ==
    ASSUME IInv, LossInv, NEW S \in SUBSET Slot, mode = "run", mode' \in {"run", "tick"},
           \A r \in S : state[r] = "SLEEPING" /\ r # cur,
           state' = Awake(S), UNCHANGED <<chan, cur, at>>, hit \subseteq hit',
           \A p \in Slot \ hit' : state'[p] = "SLEEPING" /\ chan[p] = "disk" => disk'[p]
    PROVE  LossInv'
BY DEF IInv, TypeOK, IdleFixed, ZombiePlace, LossInv, WindowSane, SwitchSane, LostOnlyInWindow,
   Awake, Windows

\* Every step preserves it.
LEMMA LossNext ==
    ASSUME IInv, LossInv, [Next]_vars
    PROVE  LossInv'
<1> USE DEF LossInv, WindowSane, SwitchSane, LostOnlyInWindow, Windows
<1>1. CASE UNCHANGED vars
  BY <1>1 DEF vars
<1>2. ASSUME NEW p \in Slot, Syscall(p) \/ SyscallReturn(p) PROVE LossInv'
  BY <1>2 DEF Syscall, SyscallReturn, At, Goto, procvars, qvars, IInv, TypeOK
<1>3. ASSUME NEW p \in Slot, ForkAlloc(p) PROVE LossInv'
  <2>1. First(Free) \in Slot /\ state[First(Free)] = "UNUSED"
    BY <1>3, FirstIn DEF ForkAlloc, Free
  <2> QED
    BY <1>3, <2>1 DEF ForkAlloc, InCall, At, IInv, TypeOK
<1>4. ASSUME NEW p \in Slot, ForkParent(p) PROVE LossInv'
  BY <1>4 DEF ForkParent, At, Goto, qvars, IInv, TypeOK
<1>5. ASSUME NEW p \in Slot, ForkRun(p) PROVE LossInv'
  <2>1. newp[p] \in Slot /\ state[newp[p]] = "USED"
    BY <1>5 DEF ForkRun, At, IInv, ForkChild
  <2> QED
    BY <1>5, <2>1 DEF ForkRun, At, Goto, Awake, IInv, TypeOK
<1>6. ASSUME NEW p \in Slot, SysExit(p) \/ TrapExit(p) PROVE LossInv'
  <2>1. /\ p = cur /\ mode # "schedule" /\ at[p] \in {"kernel", "user"}
        /\ \/ at' = [at EXCEPT ![p] = "zwindow"] /\ mode' = mode /\ mode = "run"
           \/ at' = [at EXCEPT ![p] = "gone"] /\ mode' = "schedule"
        /\ state' = [Awake(ExitWakes(p)) EXCEPT ![p] = "ZOMBIE"]
        /\ UNCHANGED <<chan, cur, disk, hit>>
    BY <1>6 DEF SysExit, TrapExit, Exit, InCall, At, Goto
  <2>2. p # idle /\ state[p] = "RUNNING"
    BY <2>1, Actor
  <2>3. \A r \in ExitWakes(p) : state[r] = "SLEEPING" /\ r # p
    BY <2>1 DEF ExitWakes, Sleepers
  <2>4. \A r \in Slot : state'[r] = IF r = p THEN "ZOMBIE"
                          ELSE IF r \in ExitWakes(p) THEN "RUNNABLE" ELSE state[r]
    BY <2>1 DEF Awake
  <2> QED
    BY <2>1, <2>2, <2>3, <2>4 DEF IInv, TypeOK
<1>7. ASSUME NEW p \in Slot, NEW c \in Chan, p = cur, mode = "run", at[p] \in {"kernel", "slept"},
             Sleep(p, c), c = "disk" => disk'[p],
             \A r \in Slot \ {p} : disk'[r] = disk[r], UNCHANGED <<cur, mode>>
      PROVE  LossInv'
  <2>1. state[p] = "RUNNING"
    BY <1>7, Actor
  <2> QED
    BY <1>7, <2>1 DEF Sleep, Goto, IInv, TypeOK
<1>8. ASSUME NEW p \in Slot, p = cur, mode = "run", at[p] \in {"kernel", "slept"},
             Return(p), UNCHANGED <<cur, mode, disk>>
      PROVE  LossInv'
  <2>1. state[p] = "RUNNING"
    BY <1>8, Actor
  <2> QED
    BY <1>8, <2>1 DEF Return, Goto, IInv, TypeOK
<1>9. ASSUME NEW p \in Slot, Wait(p) PROVE LossInv'
  <2>1. /\ p = cur /\ mode = "run" /\ at[p] \in {"kernel", "slept"}
        /\ UNCHANGED <<cur, mode, disk>>
    BY <1>9 DEF Wait, InCall, InLoop, At
  <2>2. CASE Reapable(p) # {} /\ Reap(p, First(Reapable(p)))
    <3>1. First(Reapable(p)) \in Reapable(p)
      BY <2>2, FirstIn DEF Reapable, Children
    <3>2. First(Reapable(p)) \in Slot /\ state[First(Reapable(p))] = "ZOMBIE"
      BY <3>1 DEF Reapable, Children
    <3> QED
      BY <2>1, <2>2, <3>2 DEF Reap, IInv, TypeOK
  <2>3. CASE Return(p)
    BY <1>8, <2>1, <2>3
  <2>4. CASE Sleep(p, "wait")
    BY <1>7, <2>1, <2>4 DEF Chan
  <2> QED
    BY <1>9, <2>2, <2>3, <2>4 DEF Wait
<1>10. ASSUME NEW p \in Slot, (\E n \in 0 .. MaxNap : Nap(p, n)) \/ NapAgain(p) PROVE LossInv'
  <2>1. /\ p = cur /\ mode = "run" /\ at[p] \in {"kernel", "slept"}
        /\ UNCHANGED <<cur, mode, disk>>
        /\ Return(p) \/ Sleep(p, "ticks")
    BY <1>10 DEF Nap, NapAgain, NapPass, InCall, InLoop, At
  <2> QED
    BY <1>7, <1>8, <2>1 DEF Chan
<1>11. ASSUME NEW p \in Slot, DiskRW(p) \/ DiskAgain(p) PROVE LossInv'
  <2>1. p = cur /\ mode = "run" /\ at[p] \in {"kernel", "slept"} /\ UNCHANGED <<cur, mode>>
    BY <1>11 DEF DiskRW, DiskAgain, InCall, InLoop, At
  <2>2. \/ Return(p) /\ UNCHANGED disk
        \/ Sleep(p, "disk") /\ disk'[p] /\ \A r \in Slot \ {p} : disk'[r] = disk[r]
    BY <1>11 DEF DiskRW, DiskAgain, DiskDone, IInv, TypeOK
  <2> QED
    BY <1>7, <1>8, <2>1, <2>2 DEF Chan
<1>12. ASSUME NEW p \in Slot, NEW t \in Slot, Kill(p, t) PROVE LossInv'
  <2> DEFINE S == IF state[t] = "SLEEPING" THEN {t} ELSE {}
  <2>1. /\ p = cur /\ mode = "run" /\ at[p] = "kernel" /\ state' = Awake(S)
        /\ UNCHANGED <<chan, cur, mode, at, disk, hit>>
    BY <1>12 DEF Kill, InCall, At, ctlvars
  <2>2. state[p] = "RUNNING"
    BY <2>1, Actor
  <2>3. S \in SUBSET Slot /\ \A r \in S : state[r] = "SLEEPING" /\ r # cur
    BY <2>1, <2>2
  <2> HIDE DEF S
  <2>4. \A r \in Slot : state'[r] = "SLEEPING" => state[r] = "SLEEPING"
    BY <2>1, <2>3 DEF Awake
  <2> QED
    BY <2>1, <2>2, <2>3, <2>4, LossWake
<1>13. Interruptible => mode = "run"
  BY DEF Interruptible
<1>14. ASSUME NEW p \in Slot, DiskIntr(p) PROVE LossInv'
  <2> DEFINE S == Sleepers("disk") \cap {p}
  <2>1. /\ Interruptible /\ mode' = mode /\ state' = Awake(S)
        /\ disk' = [disk EXCEPT ![p] = FALSE] /\ UNCHANGED <<chan, cur, at>>
        /\ hit \subseteq hit'
    BY <1>14 DEF DiskIntr, ctlvars
  <2>2. S \in SUBSET Slot /\ \A r \in S : state[r] = "SLEEPING" /\ r # cur
    BY DEF Sleepers
  <2>3. state[p] = "SLEEPING" /\ chan[p] = "disk" => p \in S \/ p \in hit'
    BY <1>14 DEF Sleepers, DiskIntr
  <2> HIDE DEF S
  <2>4. \A r \in Slot : state'[r] = IF r \in S THEN "RUNNABLE" ELSE state[r]
    BY <2>1, <2>2 DEF Awake
  <2>5. \A r \in Slot \ hit' : state'[r] = "SLEEPING" /\ chan[r] = "disk" => disk'[r]
    BY <2>1, <2>3, <2>4 DEF IInv, TypeOK
  <2> QED
    BY <1>13, <2>1, <2>2, <2>4, <2>5, LossWake
<1>15. CASE ClockIntr
  <2> DEFINE S == Sleepers("ticks")
  <2>1. /\ Interruptible /\ mode' = "tick" /\ state' = Awake(S)
        /\ UNCHANGED <<chan, cur, at, disk, hit>>
    BY <1>15 DEF ClockIntr, ctlvars
  <2>2. S \in SUBSET Slot /\ \A r \in S : state[r] = "SLEEPING" /\ r # cur
    BY DEF Sleepers
  <2> HIDE DEF S
  <2>3. \A r \in Slot : state'[r] = "SLEEPING" => state[r] = "SLEEPING"
    BY <2>1, <2>2 DEF Awake
  <2> QED
    BY <1>13, <2>1, <2>2, <2>3, LossWake
<1>16. CASE PrioOnTick
  <2>1. UNCHANGED <<state, chan, cur, at, disk, hit>> /\ mode = "tick" /\ mode' \in {"yield", "run"}
    BY <1>16 DEF PrioOnTick, procvars, ctlvars
  <2> QED
    BY <2>1 DEF IInv, TypeOK
<1>17. CASE Yield
  <2>1. /\ mode = "yield" /\ mode' = "schedule" /\ cur \in Slot
        /\ state' = [r \in Slot |-> IF r \in {cur} THEN "RUNNABLE" ELSE state[r]]
        /\ hit' = hit \cup {q \in {cur} : at[q] \in Windows}
        /\ UNCHANGED <<chan, cur, at, disk>>
    BY <1>17 DEF Yield, Awake, ctlvars, IInv, TypeOK
  <2>2. cur \in hit \/ at[cur] # "gone"
    BY <2>1 DEF IInv, CurrentSane, IdleFixed
  <2> QED
    BY <2>1, <2>2
<1>18. CASE EndWindow
  BY <1>18 DEF EndWindow, Goto, procvars, qvars, IInv, TypeOK
<1>19. CASE IdleLoop
  BY <1>19 DEF IdleLoop, At, procvars, qvars, ctlvars, IInv, TypeOK, IdleFixed
<1>20. CASE ScheduleIdle
  BY <1>20 DEF ScheduleIdle, procvars, qvars, ctlvars, IInv, TypeOK
<1>21. CASE SchedulePick
  <2>1. PickNext(queue) \in Slot /\ (PickNext(queue) # idle => state[PickNext(queue)] = "RUNNABLE")
    <3>1. queue \in Queue /\ Exact(queue, state, prio) /\ HighestNonEmpty(queue) >= 0
      BY <1>21, RunqParts DEF SchedulePick, IInv, TypeOK, Queue
    <3>2. \A k \in Prio : Once(queue[k])
      BY <3>1 DEF Exact
    <3>3. /\ HighestNonEmpty(queue) \in Prio /\ PickNext(queue) \in Slot
          /\ PickNext(queue) \in Members(queue[HighestNonEmpty(queue)])
      BY <3>1, <3>2, HighestLevel, AfterPickMembers
    <3> QED
      BY <3>1, <3>3 DEF Exact
  <2>2. /\ mode = "schedule" /\ mode' = "run" /\ cur' = PickNext(queue)
        /\ state' = IF cur' = idle THEN state ELSE [state EXCEPT ![cur'] = "RUNNING"]
        /\ UNCHANGED <<chan, at, disk, hit>>
    BY <1>21 DEF SchedulePick, ctlvars
  <2> QED
    BY <2>1, <2>2 DEF IInv, TypeOK
<1> QED
  BY <1>1, <1>2, <1>3, <1>4, <1>5, <1>6, <1>9, <1>10, <1>11, <1>12, <1>14, <1>15, <1>16, <1>17,
     <1>18, <1>19, <1>20, <1>21 DEF Next, Schedule

(***************************************************************************)
(* For any number of processes: nobody is stranded as RUNNING, asleep for  *)
(* a finished disk request, or out of the ZOMBIE state after exit(), but   *)
(* those an interrupt hit between release(&p->lock) and schedule().        *)
(***************************************************************************)
THEOREM LossesInWindow == Spec => []LostOnlyInWindow
<1>1. Init => LossInv
  BY LossInit
<1>2. IInv /\ LossInv /\ [Next]_vars => LossInv'
  BY LossNext
<1>3. LossInv => LostOnlyInWindow
  BY DEF LossInv
<1> QED
  BY <1>1, <1>2, <1>3, Inductive, PTL DEF Spec
============================================================================
