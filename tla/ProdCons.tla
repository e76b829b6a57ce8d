------------------------------ MODULE ProdCons ------------------------------
(***************************************************************************)
(* The producer-consumer program user/prodcons.c on top of the kernel's    *)
(* semaphores: the composition of Semaphore with the loops of producer()   *)
(* and consumer(), from the moment main() has initialised the three        *)
(* semaphores and forked its children.                                     *)
(*                                                                         *)
(* Forked processes share no memory: buffer[], in and out are private to   *)
(* each child, so what crosses between the processes is only the three     *)
(* counts.  put() and get() are therefore the critical step of a turn,     *)
(* `turn' counts how often each child has taken it, and `puts' and `gets'  *)
(* are the history: the calls of put() and get() made by all of them.      *)
(* Children may be killed from outside, and a timer interrupt may hit the  *)
(* hand-off of a sleep() inside sem_wait(), as in Semaphore.               *)
(***************************************************************************)
EXTENDS Semaphore

CONSTANTS
    Producer, Consumer,   \* the children
    EMPTY, FULL, MUTEX,   \* SEM_EMPTY, SEM_FULL, SEM_MUTEX
    NBUF,                 \* the buffer's size
    Turns                 \* bound: iterations of each child's loop (10)

ASSUME ProdConsAssumption ==
    /\ Proc = Producer \cup Consumer
    /\ Producer \cap Consumer = {}
    /\ Sem = {EMPTY, FULL, MUTEX}
    /\ EMPTY # FULL /\ FULL # MUTEX /\ EMPTY # MUTEX
    /\ NBUF \in Nat \ {0}
    /\ Turns \in Nat \ {0}

VARIABLES
    at,      \* the next statement of each child's loop
    turn,    \* how many times each child has called put() or get()
    puts, gets   \* how many times put() and get() were called

counts == <<turn, puts, gets>>
pvars == <<value, st, on, killed, at, turn, puts, gets>>

\* Mutant of Takes: the consumer waits for a free slot, too.
MutTakes(p) == EMPTY

\* The semaphore a child takes first and the one it signals last.
Takes(p) == IF p \in Producer THEN EMPTY ELSE FULL
Gives(p) == IF p \in Producer THEN FULL ELSE EMPTY

\* main(): sem_init() three times, then the forks.
PCInit ==
    /\ value = [s \in Sem |-> IF s = EMPTY THEN NBUF
                              ELSE IF s = FULL THEN 0 ELSE 1]
    /\ st = [p \in Proc |-> "user"]
    /\ on = [p \in Proc |-> MUTEX]
    /\ killed = [p \in Proc |-> FALSE]
    /\ at = [p \in Proc |-> "take"]
    /\ turn = [p \in Proc |-> 0]
    /\ puts = 0 /\ gets = 0

\* p is in user mode at statement `here'.
At(p, here) == at[p] = here /\ st[p] = "user"

Goto(p, here) == at' = [at EXCEPT ![p] = here]

\* Mutant of Waits: the mutex is taken before the slot or the item.
MutWaits(p) == <<MUTEX, Takes(p)>>

\* The semaphores of the two waits, in program order.
Waits(p) == <<Takes(p), MUTEX>>

Take(p) == At(p, "take") /\ SemWait(p, Waits(p)[1]) /\ Goto(p, "lock") /\ UNCHANGED counts
Lock(p) == At(p, "lock") /\ SemWait(p, Waits(p)[2]) /\ Goto(p, "crit") /\ UNCHANGED counts

\* put() or get().
Crit(p) ==
    /\ At(p, "crit")
    /\ turn' = [turn EXCEPT ![p] = @ + 1]
    /\ \/ p \in Producer /\ puts' = puts + 1 /\ gets' = gets
       \/ p \in Consumer /\ gets' = gets + 1 /\ puts' = puts
    /\ Goto(p, "unlock")
    /\ UNCHANGED <<value, st, on, killed>>

Unlock(p) == At(p, "unlock") /\ SemSignal(p, MUTEX) /\ Goto(p, "give") /\ UNCHANGED counts

\* The last signal; the sleep() that ends an iteration, and exit() after the
\* last one, touch no semaphore.
Give(p) ==
    /\ At(p, "give")
    /\ SemSignal(p, Gives(p))
    /\ Goto(p, IF turn[p] < Turns THEN "take" ELSE "done")
    /\ UNCHANGED counts

\* Woken inside one of the two waits.
Retest(p) == SemRetest(p) /\ UNCHANGED <<at, counts>>

\* A killed child exits, wherever in its loop, and gives back nothing.
Die(p) == Exit(p) /\ UNCHANGED <<at, counts>>

Step(p) ==
    Take(p) \/ Lock(p) \/ Crit(p) \/ Unlock(p) \/ Give(p) \/ Retest(p) \/ Die(p)

\* main()'s wait() calls return: nothing more happens.
Finished == \A p \in Proc : at[p] = "done"

\* Somebody kills a child that has not exited yet.
KillChild(p) == at[p] # "done" /\ Kill(p) /\ UNCHANGED <<at, counts>>

PCNext == \E p \in Proc : Step(p) \/ KillChild(p)

\* The scheduler's aging gives every ready process the CPU (see Sched).
PCFairness == \A p \in Proc : WF_pvars(Step(p))

PCSpec == PCInit /\ [][PCNext]_pvars /\ PCFairness

-----------------------------------------------------------------------------
InCrit(p) == at[p] \in {"crit", "unlock"} /\ st[p] = "user"

(***************************************************************************)
(* sem_wait(SEM_MUTEX) ... sem_signal(SEM_MUTEX) is a critical section: no *)
(* two children are in put() or get() at once, though sem_signal_k() wakes *)
(* every sleeper for the one unit it adds and kill() wakes a sleeper for   *)
(* none.                                                                   *)
(***************************************************************************)
MutualExclusion == \A p, q \in Proc : InCrit(p) /\ InCrit(q) => p = q

(***************************************************************************)
(* The buffer never over- or underflows: the put()s made are never fewer   *)
(* than the get()s and never more than NBUF ahead of them, wherever a      *)
(* child is killed.                                                        *)
(***************************************************************************)
BufferBound == gets <= puts /\ puts - gets <= NBUF

\* Some child was killed or is lost in sleep()'s window (see Sched): what it
\* held, it never gives back.
Disturbed == \E p \in Proc : killed[p] \/ st[p] = "lost"

(***************************************************************************)
(* main() terminates unless a child is killed or lost: every child         *)
(* finishes its turns, whatever the order in which woken processes re-test *)
(* the semaphores.                                                         *)
(***************************************************************************)
Completes == <>(Finished \/ Disturbed)
=============================================================================
