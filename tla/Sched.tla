------------------------------- MODULE Sched -------------------------------
(***************************************************************************)
(* Processes and the CPU: kernel/proc.c with the trap handlers of trap.c   *)
(* and the sleeping calls of sysproc.c and virtio_disk.c, on the single    *)
(* CPU the repository runs on.                                             *)
(*                                                                         *)
(* There is no scheduler thread: a process that gives up the CPU calls     *)
(* schedule(), which takes the next process from the ready queue, or the   *)
(* idle process, and switches to it directly.                              *)
(*                                                                         *)
(* A step is a stretch of kernel code that runs with interrupts off: a     *)
(* critical section of a spinlock, an interrupt handler, the body of       *)
(* schedule().  `mode' is "run" when the current process runs with         *)
(* interrupts on, at the place at[cur]; the other modes are the stages of  *)
(* the timer interrupt and of the switch, between which nothing else can   *)
(* happen.                                                                 *)
(*                                                                         *)
(* sleep() and exit() release p->lock before they call schedule(), which   *)
(* is where interrupts go off again.  In between, at the places "window"   *)
(* and "zwindow", the process is already SLEEPING or ZOMBIE and still the  *)
(* current one, and an interrupt can be taken there.  `hit' records which  *)
(* processes such an interrupt has harmed.                                 *)
(***************************************************************************)
EXTENDS ReadyQueue

CONSTANTS
    PRIO_DEFAULT,   \* priority of a new process
    MaxNap,         \* bound: longest sys_sleep(), in ticks
    Calls           \* workload: the system calls the processes make

ASSUME SchedAssumption ==
    /\ NPROC >= 2
    /\ PRIO_DEFAULT \in Prio
    /\ MaxNap \in Nat
    /\ Calls \subseteq {"fork", "exit", "wait", "sleep", "disk", "kill"}

\* userinit() takes the first slot of the table and alloc_idleproc() the next.
init == 1
idle == 2
User == Slot \ {init, idle}
NoSlot == 0

VARIABLES
    state, chan, killed, parent,   \* struct proc, chan by kind of channel
    prio, wait_ticks, queue,       \* the ready queue, see ReadyQueue
    cur, preempt_pending,          \* struct cpu
    mode,                          \* the CPU's stage, see above
    at,                            \* where each kernel thread is
    newp,                          \* fork()'s np
    disk,                          \* the device works on p's request (b->disk)
    due,                           \* ticks p's sys_sleep() still has to wait
    hit                            \* history: whom an interrupt in the window hit

procvars == <<state, chan, killed, parent>>
qvars == <<prio, wait_ticks, queue>>
ctlvars == <<at, newp>>
vars == <<state, chan, killed, parent, prio, wait_ticks, queue, cur,
          preempt_pending, mode, at, newp, disk, due, hit>>

State == {"UNUSED", "USED", "SLEEPING", "RUNNABLE", "RUNNING", "ZOMBIE"}

\* "wait": the process's own address, in wait(); "ticks": &ticks, in
\* sys_sleep(); "disk": its buffer, in virtio_disk_rw().
Chan == {"none", "wait", "ticks", "disk"}

\* "kernel": in a system call, between two critical sections; "fork1" and
\* "fork2": in fork(), before np->parent is set and before np is RUNNABLE;
\* "slept": inside sleep()'s schedule(); "gone": inside exit()'s; "none": the
\* slot is free.
Place == {"none", "user", "kernel", "fork1", "fork2", "window", "slept",
          "zwindow", "gone", "idle"}
Windows == {"window", "zwindow"}

TypeOK ==
    /\ state \in [Slot -> State]
    /\ chan \in [Slot -> Chan]
    /\ killed \in [Slot -> BOOLEAN]
    /\ parent \in [Slot -> Slot \cup {NoSlot}]
    /\ prio \in [Slot -> Prio]
    /\ wait_ticks \in [Slot -> 0 .. AGING_TICKS]
    /\ queue \in [Prio -> Seq(Slot)]
    /\ cur \in Slot
    /\ preempt_pending \in BOOLEAN
    /\ mode \in {"run", "tick", "yield", "schedule"}
    /\ at \in [Slot -> Place]
    /\ newp \in [Slot -> Slot \cup {NoSlot}]
    /\ disk \in [Slot -> BOOLEAN]
    /\ due \in [Slot -> 0 .. MaxNap]
    /\ hit \subseteq Slot

\* After userinit() and scheduler(): init is ready and idle has the CPU.  The
\* idle process is RUNNABLE for ever, whether it runs or not.
Init ==
    /\ state = [p \in Slot |-> IF p \in {init, idle} THEN "RUNNABLE" ELSE "UNUSED"]
    /\ chan = [p \in Slot |-> "none"]
    /\ killed = [p \in Slot |-> FALSE]
    /\ parent = [p \in Slot |-> NoSlot]
    /\ prio = [p \in Slot |-> IF p = idle THEN PRIO_MAX ELSE PRIO_DEFAULT]
    /\ wait_ticks = [p \in Slot |-> 0]
    /\ queue = PushTail(EmptyQueue, prio, {init})
    /\ cur = idle
    /\ preempt_pending = FALSE
    /\ mode = "run"
    /\ at = [p \in Slot |-> IF p = idle THEN "idle" ELSE IF p = init THEN "user" ELSE "none"]
    /\ newp = [p \in Slot |-> NoSlot]
    /\ disk = [p \in Slot |-> FALSE]
    /\ due = [p \in Slot |-> 0]
    /\ hit = {}

-----------------------------------------------------------------------------
(* Putting processes into the ready queue. *)

\* prio_enqueue() for the processes of S, in table order: the queue, the
\* counts and the CPU's preempt_pending.
PrioEnqueue(S) ==
    /\ queue' = PushTail(queue, prio, S)
    /\ wait_ticks' = [p \in Slot |-> IF p \in S THEN 0 ELSE wait_ticks[p]]
    /\ preempt_pending' =
         (preempt_pending \/ (state[cur] = "RUNNING" /\ \E p \in S : prio[p] < prio[cur]))
    /\ UNCHANGED prio

\* Mutant of Sleepers: the current process is not skipped.
MutSleepers(c) == {p \in Slot : state[p] = "SLEEPING" /\ chan[p] = c}

\* The processes wakeup() finds asleep on a channel of kind c; it skips the
\* current process.
Sleepers(c) == {p \in Slot \ {cur} : state[p] = "SLEEPING" /\ chan[p] = c}

\* The states after the processes of S have been made RUNNABLE.
Awake(S) == [p \in Slot |-> IF p \in S THEN "RUNNABLE" ELSE state[p]]

\* p runs with interrupts on at place `here'.
At(p, here) == p = cur /\ mode = "run" /\ at[p] = here

Goto(p, here) == at' = [at EXCEPT ![p] = here]

\* sleep(chan, lk) up to the release of p->lock.
Sleep(p, c) ==
    /\ state' = [state EXCEPT ![p] = "SLEEPING"]
    /\ chan' = [chan EXCEPT ![p] = c]
    /\ Goto(p, "window")
    /\ hit' = hit \ {p}

\* sleep() returns to its caller.
Return(p) ==
    /\ chan' = [chan EXCEPT ![p] = "none"]
    /\ Goto(p, "kernel")
    /\ hit' = hit \ {p}
    /\ UNCHANGED state

\* p is at the head of a loop that sleeps on channel c: on entry to the call
\* or when sleep() has returned.
InLoop(p, c) == At(p, "slept") /\ chan[p] = c

-----------------------------------------------------------------------------
(* Traps and system calls of the current process. *)

\* usertrap() for a system call, not killed.
Syscall(p) ==
    /\ At(p, "user") /\ ~killed[p]
    /\ Goto(p, "kernel")
    /\ UNCHANGED <<procvars, qvars, cur, preempt_pending, mode, newp, disk, due, hit>>

\* The end of usertrap() after a system call, not killed.
SyscallReturn(p) ==
    /\ At(p, "kernel") /\ ~killed[p]
    /\ Goto(p, "user")
    /\ UNCHANGED <<procvars, qvars, cur, preempt_pending, mode, newp, disk, due, hit>>

\* p is in the system call c.
InCall(p, c) == At(p, "kernel") /\ c \in Calls

\* The first free slot, as allocproc() finds it.
Free == {p \in Slot : state[p] = "UNUSED"}
First(S) == CHOOSE p \in S : \A q \in S : p <= q

\* fork() up to release(&np->lock).  When no slot is free or memory runs out
\* it returns -1 and leaves everything as it was: a stuttering step.
ForkAlloc(p) ==
    /\ InCall(p, "fork")
    /\ Free # {}
    /\ LET np == First(Free) IN
         /\ state' = [state EXCEPT ![np] = "USED"]
         /\ prio' = [prio EXCEPT ![np] = PRIO_DEFAULT]
         /\ wait_ticks' = [wait_ticks EXCEPT ![np] = 0]
         /\ newp' = [newp EXCEPT ![p] = np]
         /\ at' = [at EXCEPT ![p] = "fork1", ![np] = "user"]
    /\ UNCHANGED <<chan, killed, parent, queue, cur, preempt_pending, mode, disk, due, hit>>

\* fork(): np->parent = p under wait_lock.
ForkParent(p) ==
    /\ At(p, "fork1")
    /\ parent' = [parent EXCEPT ![newp[p]] = p]
    /\ Goto(p, "fork2")
    /\ UNCHANGED <<state, chan, killed, qvars, cur, preempt_pending, mode, newp, disk, due, hit>>

\* fork(): np inherits the priority and becomes RUNNABLE.
ForkRun(p) ==
    LET np == newp[p] IN
    /\ At(p, "fork2")
    /\ state' = Awake({np})
    /\ prio' = [prio EXCEPT ![np] = prio[p]]
    /\ queue' = PushTail(queue, prio', {np})
    /\ wait_ticks' = [wait_ticks EXCEPT ![np] = 0]
    /\ newp' = [newp EXCEPT ![p] = NoSlot]
    /\ Goto(p, "kernel")
    /\ UNCHANGED <<chan, killed, parent, cur, preempt_pending, mode, disk, due, hit>>

Children(p) == {q \in Slot : parent[q] = p}

\* Mutant of Reparent: the children stay with the dying process.
MutReparent(p) == parent

\* reparent(p)
Reparent(p) == [q \in Slot |-> IF parent[q] = p THEN init ELSE parent[q]]

\* Mutant of ExitWakes: exit() wakes only init.
MutExitWakesInit(p) == Sleepers("wait") \cap IF Children(p) # {} THEN {init} ELSE {}

\* Whom exit() wakes: init if it inherits children, and the parent.
ExitWakes(p) ==
    Sleepers("wait") \cap ({parent[p]} \cup IF Children(p) # {} THEN {init} ELSE {})

\* exit() from acquire(&wait_lock) to release(&p->lock).  Closing the files
\* comes before and is a matter of disk accesses.
Exit(p) ==
    /\ p # init
    /\ parent' = Reparent(p)
    /\ state' = [Awake(ExitWakes(p)) EXCEPT ![p] = "ZOMBIE"]
    /\ PrioEnqueue(ExitWakes(p))
    /\ UNCHANGED <<chan, cur, newp, disk, due, hit>>

\* sys_exit(), or exit(-1) at the end of the system call of a killed process:
\* interrupts are on.
SysExit(p) ==
    /\ InCall(p, "exit") \/ (At(p, "kernel") /\ killed[p])
    /\ Exit(p)
    /\ Goto(p, "zwindow")
    /\ UNCHANGED <<killed, mode>>

\* exit(-1) in usertrap() with interrupts off: the process was killed, or has
\* caused an exception (setkilled()).  schedule() follows at once.
TrapExit(p) ==
    /\ p = cur /\ at[p] = "user"
    /\ (mode = "run" /\ (killed[p] \/ "exit" \in Calls)) \/ (mode = "tick" /\ killed[p])
    /\ Exit(p)
    /\ killed' = [killed EXCEPT ![p] = TRUE]
    /\ Goto(p, "gone")
    /\ mode' = "schedule"

\* The children wait() may free.
Reapable(p) == {q \in Children(p) : state[q] = "ZOMBIE"}

\* freeproc(q) by wait() in p, which returns.
Reap(p, q) ==
    /\ state' = [state EXCEPT ![q] = "UNUSED"]
    /\ chan' = [chan EXCEPT ![p] = "none", ![q] = "none"]
    /\ killed' = [killed EXCEPT ![q] = FALSE]
    /\ parent' = [parent EXCEPT ![q] = NoSlot]
    /\ at' = [at EXCEPT ![p] = "kernel", ![q] = "none"]
    /\ hit' = hit \ {p}

\* One pass of wait()'s loop, all of it under wait_lock.  A bad address makes
\* wait() return -1 and leave the zombie; init passes none.
Wait(p) ==
    /\ InCall(p, "wait") \/ InLoop(p, "wait")
    /\ \/ /\ Reapable(p) # {}
          /\ Reap(p, First(Reapable(p)))
       \/ /\ Reapable(p) # {} /\ p # init
          /\ Return(p)
          /\ UNCHANGED <<killed, parent>>
       \/ /\ Reapable(p) = {}
          /\ Children(p) = {} \/ killed[p]
          /\ Return(p)
          /\ UNCHANGED <<killed, parent>>
       \/ /\ Reapable(p) = {}
          /\ Children(p) # {} /\ ~killed[p]
          /\ Sleep(p, "wait")
          /\ UNCHANGED <<killed, parent>>
    /\ UNCHANGED <<qvars, cur, preempt_pending, mode, newp, disk, due>>

\* One pass of sys_sleep()'s loop with n ticks to go.
NapPass(p, n) ==
    /\ due' = [due EXCEPT ![p] = n]
    /\ \/ (n = 0 \/ killed[p]) /\ Return(p)
       \/ (n > 0 /\ ~killed[p]) /\ Sleep(p, "ticks")
    /\ UNCHANGED <<killed, parent, qvars, cur, preempt_pending, mode, newp, disk>>

Nap(p, n) == p # init /\ InCall(p, "sleep") /\ NapPass(p, n)
NapAgain(p) == InLoop(p, "ticks") /\ NapPass(p, due[p])

\* virtio_disk_rw() up to its first sleep(): the request is handed to the
\* device and the process sleeps in the same critical section.
DiskRW(p) ==
    /\ p # init
    /\ InCall(p, "disk")
    /\ disk' = [disk EXCEPT ![p] = TRUE]
    /\ Sleep(p, "disk")
    /\ UNCHANGED <<killed, parent, qvars, cur, preempt_pending, mode, newp, due>>

\* Mutant of DiskDone: the request is taken for unfinished after a wakeup.
MutDiskDone(p) == FALSE

\* virtio_disk_rw() tests b->disk == 1 again after every sleep().
DiskDone(p) == ~disk[p]

\* One pass of virtio_disk_rw()'s loop after sleep(): kill() wakes the process
\* early, and it goes back to sleep.
DiskAgain(p) ==
    /\ InLoop(p, "disk")
    /\ IF DiskDone(p) THEN Return(p) ELSE Sleep(p, "disk")
    /\ UNCHANGED <<killed, parent, qvars, cur, preempt_pending, mode, newp, disk, due>>

\* kill(pid) by p, on any process but init, whose exit() is a panic; kill(0)
\* sets the flag of the idle process, which nothing reads.
Kill(p, t) ==
    /\ p # init /\ t \in User
    /\ InCall(p, "kill")
    /\ state[t] # "UNUSED"
    /\ killed' = [killed EXCEPT ![t] = TRUE]
    /\ LET S == IF state[t] = "SLEEPING" THEN {t} ELSE {} IN
         state' = Awake(S) /\ PrioEnqueue(S)
    /\ UNCHANGED <<chan, parent, cur, mode, ctlvars, disk, due, hit>>

-----------------------------------------------------------------------------
(* Interrupts. *)

\* Interrupts are on, in the windows of sleep() and exit() too.
Interruptible == mode = "run"

\* virtio_disk_intr() for p's request.  Its wakeup() skips the current process,
\* also when that is p in the window, asleep for this request.
DiskIntr(p) ==
    /\ Interruptible
    /\ disk[p]
    /\ disk' = [disk EXCEPT ![p] = FALSE]
    /\ LET S == Sleepers("disk") \cap {p} IN state' = Awake(S) /\ PrioEnqueue(S)
    /\ hit' = hit \cup {q \in {p} \cap {cur} : state[q] = "SLEEPING" /\ chan[q] = "disk"}
    /\ UNCHANGED <<chan, killed, parent, cur, mode, ctlvars, due>>

\* clockintr(): ticks++ and wakeup(&ticks).
ClockIntr ==
    /\ Interruptible
    /\ due' = [p \in Slot |-> IF due[p] > 0 THEN due[p] - 1 ELSE 0]
    /\ state' = Awake(Sleepers("ticks"))
    /\ PrioEnqueue(Sleepers("ticks"))
    /\ mode' = "tick"
    /\ UNCHANGED <<chan, killed, parent, cur, ctlvars, disk, hit>>

Queued == UNION {Members(queue[k]) : k \in Prio}

\* The queued processes prio_on_tick() moves up.
Aged == {p \in Queued : wait_ticks[p] + 1 >= AGING_TICKS /\ prio[p] > PRIO_MIN}

\* Mutant of NeedPreempt: a process of the same priority waits.
MutNeedPreempt(q) ==
    \/ at[cur] = "user" /\ preempt_pending
    \/ HighestNonEmpty(q) >= 0 /\ HighestNonEmpty(q) < prio[cur]

\* Whether the trap handler yields with q in the queue: usertrap() looks at
\* preempt_pending first, kerneltrap() does not.
NeedPreempt(q) ==
    \/ at[cur] = "user" /\ preempt_pending
    \/ ShouldPreempt(q, prio[cur])

\* prio_on_tick() and the decision of usertrap() or kerneltrap() to yield; a
\* killed process does not get here from user mode, see TrapExit.
PrioOnTick ==
    /\ mode = "tick"
    /\ ~(at[cur] = "user" /\ killed[cur])
    /\ queue' = MoveUp(queue, Aged)
    /\ prio' = [p \in Slot |-> IF p \in Aged THEN prio[p] - 1 ELSE prio[p]]
    /\ wait_ticks' = [p \in Slot |->
          CASE p \in Aged -> 0
            [] p \in Queued \ Aged ->
                  IF wait_ticks[p] < AGING_TICKS THEN wait_ticks[p] + 1 ELSE AGING_TICKS
            [] OTHER -> wait_ticks[p]]
    /\ mode' = IF NeedPreempt(queue') THEN "yield" ELSE "run"
    /\ preempt_pending' = (preempt_pending /\ at[cur] # "user")
    /\ UNCHANGED <<procvars, cur, ctlvars, disk, due, hit>>

\* yield(), whatever the state of the process was.
Yield ==
    /\ mode = "yield"
    /\ state' = Awake({cur})
    /\ queue' = PushTail(queue, prio, {cur})
    /\ wait_ticks' = [wait_ticks EXCEPT ![cur] = 0]
    /\ hit' = hit \cup {q \in {cur} : at[q] \in Windows}
    /\ mode' = "schedule"
    /\ UNCHANGED <<chan, killed, parent, prio, cur, preempt_pending, ctlvars, disk, due>>

-----------------------------------------------------------------------------
(* schedule(). *)

\* sleep() or exit() reaches schedule() and its intr_off().
EndWindow ==
    /\ mode = "run" /\ at[cur] \in Windows
    /\ Goto(cur, IF at[cur] = "window" THEN "slept" ELSE "gone")
    /\ mode' = "schedule"
    /\ UNCHANGED <<procvars, qvars, cur, preempt_pending, newp, disk, due, hit>>

\* idle_main() calls schedule().
IdleLoop ==
    /\ At(idle, "idle")
    /\ mode' = "schedule"
    /\ UNCHANGED <<procvars, qvars, cur, preempt_pending, ctlvars, disk, due, hit>>

\* schedule() finds the queue empty and takes the idle process.
ScheduleIdle ==
    /\ mode = "schedule"
    /\ HighestNonEmpty(queue) < 0
    /\ cur' = idle
    /\ mode' = "run"
    /\ UNCHANGED <<procvars, qvars, preempt_pending, ctlvars, disk, due, hit>>

\* schedule() takes the process prio_pick_next() gives it.  Its retry when
\* that process is not RUNNABLE never happens: RunqExact.
SchedulePick ==
    /\ mode = "schedule"
    /\ HighestNonEmpty(queue) >= 0
    /\ LET next == PickNext(queue) IN
         /\ queue' = AfterPick(queue)
         /\ cur' = next
         /\ state' = IF next = idle THEN state ELSE [state EXCEPT ![next] = "RUNNING"]
         /\ wait_ticks' = IF next = idle THEN wait_ticks ELSE [wait_ticks EXCEPT ![next] = 0]
    /\ mode' = "run"
    /\ UNCHANGED <<chan, killed, parent, prio, preempt_pending, ctlvars, disk, due, hit>>

Schedule == ScheduleIdle \/ SchedulePick

Next ==
    \/ \E p \in Slot :
         \/ Syscall(p) \/ SyscallReturn(p)
         \/ ForkAlloc(p) \/ ForkParent(p) \/ ForkRun(p)
         \/ SysExit(p) \/ TrapExit(p) \/ Wait(p)
         \/ \E n \in 0 .. MaxNap : Nap(p, n)
         \/ NapAgain(p) \/ DiskRW(p) \/ DiskAgain(p)
         \/ \E t \in Slot : Kill(p, t)
         \/ DiskIntr(p)
    \/ ClockIntr \/ PrioOnTick \/ Yield
    \/ EndWindow \/ IdleLoop \/ Schedule

Spec == Init /\ [][Next]_vars

-----------------------------------------------------------------------------
(***************************************************************************)
(* Fairness.  The CPU goes on with an interrupt, a switch, or the call of  *)
(* schedule() that ends sleep(), exit() or an idle round (WF; at any time  *)
(* at most one of these steps is possible).  A pending timer interrupt is  *)
(* taken when interrupts are on again, and they are on again and again     *)
(* (SF).  Nothing is assumed of the disk, nor of user programs but of      *)
(* init, which makes one system call after the other (user/init.c) and     *)
(* goes on with the wait() or fork() it is in (SF).                        *)
(***************************************************************************)
KernelStep ==
    \/ PrioOnTick \/ Yield \/ Schedule \/ EndWindow \/ IdleLoop
    \/ mode = "tick" /\ TrapExit(cur)

KernelFairness == WF_vars(KernelStep) /\ SF_vars(ClockIntr)

InitFairness ==
    /\ SF_vars(Syscall(init))
    /\ SF_vars(Wait(init) \/ ForkParent(init) \/ ForkRun(init))

InitSpec == Spec /\ KernelFairness /\ InitFairness

-----------------------------------------------------------------------------
(***************************************************************************)
(* The ready queue is exact: the queue of each level holds, once each,     *)
(* just the RUNNABLE processes of that priority.  A process made RUNNABLE  *)
(* by fork(), wakeup(), kill() or yield() is never forgotten, one that     *)
(* runs, sleeps or has been freed is never queued, and aging never leaves  *)
(* one behind in its old list.  The idle process is RUNNABLE all the time  *)
(* and queued at most while it is not the current one.                     *)
(***************************************************************************)
RunqExact ==
    /\ \A k \in Prio :
         /\ Once(queue[k])
         /\ Members(queue[k]) \ {idle} =
              {p \in Slot \ {idle} : state[p] = "RUNNABLE" /\ prio[p] = k}
         /\ idle \in Members(queue[k]) => prio[idle] = k
    /\ idle \in Queued => cur # idle \/ mode = "schedule"

(***************************************************************************)
(* wait() never frees a process that still runs on its kernel stack ("make *)
(* sure the child isn't still in exit() or swtch()"): a ZOMBIE that is not *)
(* the current process, or that gives up the CPU, is at the end of exit(), *)
(* also when an interrupt hits it between release(&p->lock) and            *)
(* schedule() and yield() takes the CPU from it.                           *)
(***************************************************************************)
ZombieOffCpu ==
    \A p \in Slot : state[p] = "ZOMBIE" /\ (p # cur \/ mode = "schedule") => at[p] = "gone"

(***************************************************************************)
(* No process is left to a dead parent: no path through fork(), exit() and *)
(* wait() leaves a child with a parent that has exited or whose slot is    *)
(* free.  (Whether the parent gets to call wait() is another matter, see   *)
(* LostOnlyInWindow.)                                                      *)
(***************************************************************************)
ParentAlive ==
    \A p \in Slot : parent[p] # NoSlot =>
        at[parent[p]] \notin {"none", "zwindow", "gone"}

(***************************************************************************)
(* No lost wakeup between exit() and wait(): a parent is never asleep in   *)
(* wait() while one of its children, its own or inherited, is a ZOMBIE.    *)
(***************************************************************************)
NoZombieUnseen ==
    \A p \in Slot : state[p] = "SLEEPING" /\ chan[p] = "wait" => Reapable(p) = {}

(***************************************************************************)
(* Whenever schedule() switches, it takes a ready process that no ready    *)
(* process beats, and the idle process only when nobody is ready or it was *)
(* queued itself.                                                          *)
(***************************************************************************)
SchedulesBest ==
    [][ mode = "schedule" /\ mode' = "run" =>
          \A p \in Slot \ {idle} : state[p] = "RUNNABLE" =>
              (cur' # idle \/ idle \in Queued) /\ prio[cur'] <= prio[p] ]_vars

(***************************************************************************)
(* Starvation freedom: a process in the ready queue gets the CPU, however  *)
(* many others of better priority run, sleep and wake, because aging lifts *)
(* it to the best level and each level is served in order.                 *)
(***************************************************************************)
QueuedRuns ==
    \A p \in Slot \ {idle} : p \in Queued ~> (cur = p /\ mode = "run")

(***************************************************************************)
(* What the window costs, and that nothing else does.  Only a process that *)
(* an interrupt hit between release(&p->lock) and schedule()'s intr_off()  *)
(* is ever RUNNING without the CPU, asleep for a disk request the          *)
(* interrupt handler has finished ("Wake up all processes sleeping on      *)
(* chan"), or past the end of exit() and no ZOMBIE ("An exited process     *)
(* remains in the zombie state until its parent calls wait()").            *)
(***************************************************************************)
LostOnlyInWindow ==
    \A p \in Slot \ hit :
        /\ state[p] = "RUNNING" => p = cur
        /\ state[p] = "SLEEPING" /\ chan[p] = "disk" => disk[p]
        /\ at[p] = "gone" => state[p] = "ZOMBIE"

(***************************************************************************)
(* Zombies never fill the process table for good: a full table in which    *)
(* init has an exited child, its own or inherited, gets a free slot by     *)
(* wait() in init, unless an interrupt in the window has hit init in       *)
(* wait(), or all those children in exit().  (Not every such child is      *)
(* freed: wait() takes the first ZOMBIE of the table, and a later one can  *)
(* be passed over as long as earlier slots are filled again.)              *)
(***************************************************************************)
ZombiesFreed ==
    Reapable(init) # {} ~> (Free # {} \/ Reapable(init) = {} \/ init \in hit)

(***************************************************************************)
(* "The process running on this cpu" (struct cpu): whoever is RUNNING is   *)
(* the current process.                                                    *)
(***************************************************************************)
RunningIsCurrent == \A p \in Slot : state[p] = "RUNNING" => p = cur
=============================================================================
