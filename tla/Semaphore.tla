----------------------------- MODULE Semaphore -----------------------------
(***************************************************************************)
(* The kernel's counting semaphores (kernel/semaphore.c, semaphore.h) as   *)
(* the processes that call them see them.                                  *)
(*                                                                         *)
(* The kernel runs on one CPU and every operation holds the semaphore's    *)
(* spinlock, that is, runs with interrupts off: from acquire() to the      *)
(* release() or to the sleep() that gives the CPU away, an operation is    *)
(* one step.  sem_wait_k() is a loop: its body is the step SemTest, taken  *)
(* once on entry and once more after every wakeup.                         *)
(*                                                                         *)
(* A semaphore number out of 0..MAXSEM-1 makes each operation return at    *)
(* once; such calls are stuttering steps.                                  *)
(***************************************************************************)
EXTENDS Integers, FiniteSets

CONSTANTS
    Proc,         \* the processes that use the table
    Sem,          \* the valid semaphore numbers
    InitVal,      \* the values sem_init() is called with; a negative one
                  \* would never block anybody, no program uses one
    MaxValue,     \* bound: no semaphore is signalled beyond this value
    MaxKill,      \* bound: how many processes are killed
    Reinit,       \* whether sem_init() may hit a semaphore with sleepers
    WindowIntr    \* whether a timer interrupt can hit sleep()'s hand-off

ASSUME SemAssumption ==
    /\ IsFiniteSet(Proc)
    /\ InitVal \subseteq Nat
    /\ MaxValue \in Nat
    /\ MaxKill \in Nat
    /\ Reinit \in BOOLEAN
    /\ WindowIntr \in BOOLEAN

VARIABLES
    value,        \* sem_table[s].value
    st,           \* where each process is with respect to the table
    on,           \* the semaphore of the process's sem_wait()
    killed        \* p->killed

vars == <<value, st, on, killed>>

(***************************************************************************)
(* st[p] is "user" (running its own code, or any system call but           *)
(* sem_wait), "sleeping" (SLEEPING on the semaphore), "woken" (RUNNABLE    *)
(* again, about to re-test), "lost" (caught by a timer interrupt in the    *)
(* hand-off of sleep(), see Sched: never SLEEPING and never run again),    *)
(* "dead" (exited).                                                        *)
(***************************************************************************)
Status == {"user", "sleeping", "woken", "lost", "dead"}

(***************************************************************************)
(* Type invariant.  That a value is never negative is a promise of         *)
(* sem_wait_k(): it takes a unit only after a test that found one, in the  *)
(* same critical section.                                                  *)
(***************************************************************************)
TypeOK ==
    /\ value \in [Sem -> Nat]
    /\ st \in [Proc -> Status]
    /\ on \in [Proc -> Sem]
    /\ killed \in [Proc -> BOOLEAN]

\* sem_table_init()
Init ==
    /\ value = [s \in Sem |-> 0]
    /\ st = [p \in Proc |-> "user"]
    /\ on \in [Proc -> Sem]
    /\ killed = [p \in Proc |-> FALSE]

-----------------------------------------------------------------------------
Sleepers(s) == {p \in Proc : st[p] = "sleeping" /\ on[p] = s}

\* Mutant of Wakeup: the call is forgotten.
MutWakeup(s) == st

\* wakeup(sem), as far as the sleepers on semaphore s are concerned.
Wakeup(s) == [p \in Proc |-> IF p \in Sleepers(s) THEN "woken" ELSE st[p]]

\* A killed process makes no further system call: usertrap() sends it to
\* exit() on the way in and on the way out.
MayCall(p) == st[p] = "user" /\ ~killed[p]

\* sem_init_k(): no wakeup, whatever the new value.
SemInit(p, s, v) ==
    /\ MayCall(p)
    /\ Reinit \/ Sleepers(s) = {}
    /\ value' = [value EXCEPT ![s] = v]
    /\ UNCHANGED <<st, on, killed>>

\* Mutant of MustSleep: the loop is an if, a woken process does not test.
MutMustSleep(p, s) == st[p] # "woken" /\ value[s] = 0

\* The condition of sem_wait_k()'s loop.
MustSleep(p, s) == value[s] = 0

\* The body of sem_wait_k()'s loop and what follows it: sleep, or take one
\* unit.
SemTest(p, s) ==
    /\ on' = [on EXCEPT ![p] = s]
    /\ \/ /\ MustSleep(p, s)
          /\ \/ st' = [st EXCEPT ![p] = "sleeping"]
             \/ WindowIntr /\ st' = [st EXCEPT ![p] = "lost"]
          /\ UNCHANGED value
       \/ /\ ~MustSleep(p, s)
          /\ value' = [value EXCEPT ![s] = @ - 1]
          /\ st' = [st EXCEPT ![p] = "user"]
    /\ UNCHANGED killed

\* sem_wait_k() from its entry.
SemWait(p, s) == MayCall(p) /\ SemTest(p, s)

\* sleep() returns inside sem_wait_k(): the loop tests again, a killed
\* process included.
SemRetest(p) == st[p] = "woken" /\ SemTest(p, on[p])

\* sem_signal_k(): every sleeper is woken for one unit.
SemSignal(p, s) ==
    /\ MayCall(p)
    /\ value[s] < MaxValue
    /\ value' = [value EXCEPT ![s] = @ + 1]
    /\ st' = Wakeup(s)
    /\ UNCHANGED <<on, killed>>

\* kill(): a sleeper is made RUNNABLE, whatever it sleeps for.
Kill(p) ==
    /\ st[p] # "dead" /\ ~killed[p]
    /\ Cardinality({q \in Proc : killed[q]}) < MaxKill
    /\ killed' = [killed EXCEPT ![p] = TRUE]
    /\ st' = [st EXCEPT ![p] = IF @ = "sleeping" THEN "woken" ELSE @]
    /\ UNCHANGED <<value, on>>

\* A killed process reaches usertrap()'s check.
Exit(p) ==
    /\ st[p] = "user" /\ killed[p]
    /\ st' = [st EXCEPT ![p] = "dead"]
    /\ UNCHANGED <<value, on, killed>>

Next ==
    \/ \E p \in Proc, s \in Sem, v \in InitVal : SemInit(p, s, v)
    \/ \E p \in Proc, s \in Sem : SemWait(p, s)
    \/ \E p \in Proc : SemRetest(p)
    \/ \E p \in Proc, s \in Sem : SemSignal(p, s)
    \/ \E p \in Proc : Kill(p)
    \/ \E p \in Proc : Exit(p)

Spec == Init /\ [][Next]_vars

-----------------------------------------------------------------------------
(***************************************************************************)
(* No missed signal.  sem_wait_k() tests the value and goes to sleep under *)
(* the semaphore's lock, and sem_signal_k() increments and wakes under the *)
(* same lock, so no process is ever asleep on a semaphore that has a unit  *)
(* to give, through kills, spurious wakeups and lost processes alike.      *)
(***************************************************************************)
NoMissedSignal ==
    \A p \in Proc : st[p] = "sleeping" => value[on[p]] = 0
=============================================================================
