------------------------------- MODULE RWLock -------------------------------
(***************************************************************************)
(* A reader-writer lock of the kernel (kernel/rwlock.c, rwlock.h) as the   *)
(* processes that call it see it.  The locks of rw_table[] share nothing,  *)
(* so one stands for all; a lock number out of range makes each operation  *)
(* return at once, a stuttering step.                                      *)
(*                                                                         *)
(* As in Semaphore, an operation runs under the lock's spinlock with       *)
(* interrupts off on the only CPU, so it is one step up to its end or to   *)
(* the sleep() that gives the CPU away; the loops of rw_rlock_k() and      *)
(* rw_wlock_k() are re-entered once per wakeup.                            *)
(***************************************************************************)
EXTENDS Integers, FiniteSets

CONSTANTS
    Proc,         \* the processes that use the lock
    MaxKill,      \* bound: how many processes are killed
    WindowIntr    \* whether a timer interrupt can hit sleep()'s hand-off

ASSUME RWAssumption ==
    /\ IsFiniteSet(Proc)
    /\ MaxKill \in Nat
    /\ WindowIntr \in BOOLEAN

VARIABLES
    readers, writer, waiting_writers,   \* struct rwlock
    want,       \* the lock call each process is inside of
    holds,      \* what each process has been granted and not given back
    st,         \* the process: see Status
    killed      \* p->killed

vars == <<readers, writer, waiting_writers, want, holds, st, killed>>
lockvars == <<readers, writer, waiting_writers>>

\* "woken": RUNNABLE again inside a lock call, about to re-test; "lost":
\* caught by a timer interrupt in the hand-off of sleep() (see Sched), never
\* to run again; "user": anything else a live process does.
Status == {"user", "sleeping", "woken", "lost", "dead"}
Kind == {"none", "read", "write"}

(***************************************************************************)
(* Type invariant; that the counters never go below zero is the pairing of *)
(* the increments and decrements in the four operations.                   *)
(***************************************************************************)
TypeOK ==
    /\ readers \in Nat
    /\ writer \in {0, 1}
    /\ waiting_writers \in Nat
    /\ want \in [Proc -> Kind]
    /\ holds \in [Proc -> Kind]
    /\ st \in [Proc -> Status]
    /\ killed \in [Proc -> BOOLEAN]

\* rw_table_init()
Init ==
    /\ readers = 0 /\ writer = 0 /\ waiting_writers = 0
    /\ want = [p \in Proc |-> "none"]
    /\ holds = [p \in Proc |-> "none"]
    /\ st = [p \in Proc |-> "user"]
    /\ killed = [p \in Proc |-> FALSE]

-----------------------------------------------------------------------------
Sleepers == {p \in Proc : st[p] = "sleeping"}

\* wakeup(rw): both kinds of waiter sleep on the same channel.
Wakeup == [p \in Proc |-> IF p \in Sleepers THEN "woken" ELSE st[p]]

\* usertrap() sends a killed process to exit() before and after a call.
MayCall(p) == st[p] = "user" /\ ~killed[p]

\* sleep(rw, &rw->lock) up to the next wakeup, if there is one.
GoToSleep(p) ==
    \/ st' = [st EXCEPT ![p] = "sleeping"]
    \/ WindowIntr /\ st' = [st EXCEPT ![p] = "lost"]

\* rw_init_k(), called when no live process uses the lock; the grants of
\* processes that died with the lock are forgotten.
RwInit(p) ==
    /\ MayCall(p)
    /\ \A q \in Proc : st[q] = "dead" \/ (want[q] = "none" /\ holds[q] = "none")
    /\ readers' = 0 /\ writer' = 0 /\ waiting_writers' = 0
    /\ holds' = [q \in Proc |-> "none"]
    /\ UNCHANGED <<want, st, killed>>

\* Mutant of ReaderBlocked: a reader waits for the writer that has the lock
\* but not for the ones that wait for it.
MutReaderBlocked == writer = 1

\* The condition of rw_rlock_k()'s loop.
ReaderBlocked == writer = 1 \/ waiting_writers > 0

\* The loop of rw_rlock_k() and what follows it.
RTest(p) ==
    /\ \/ /\ ReaderBlocked
          /\ GoToSleep(p)
          /\ want' = [want EXCEPT ![p] = "read"]
          /\ UNCHANGED <<holds, readers>>
       \/ /\ ~ReaderBlocked
          /\ readers' = readers + 1
          /\ st' = [st EXCEPT ![p] = "user"]
          /\ want' = [want EXCEPT ![p] = "none"]
          /\ holds' = [holds EXCEPT ![p] = "read"]
    /\ UNCHANGED <<writer, waiting_writers, killed>>

\* Mutant of WriterBlocked: only the readers are looked at.
MutWriterBlocked == readers > 0

\* The condition of rw_wlock_k()'s loop.
WriterBlocked == writer = 1 \/ readers > 0

\* The loop of rw_wlock_k() and what follows it; `waiting' is the value of
\* waiting_writers on entry to the loop.
WTest(p, waiting) ==
    /\ \/ /\ WriterBlocked
          /\ GoToSleep(p)
          /\ waiting_writers' = waiting
          /\ want' = [want EXCEPT ![p] = "write"]
          /\ UNCHANGED <<holds, writer>>
       \/ /\ ~WriterBlocked
          /\ waiting_writers' = waiting - 1
          /\ writer' = 1
          /\ st' = [st EXCEPT ![p] = "user"]
          /\ want' = [want EXCEPT ![p] = "none"]
          /\ holds' = [holds EXCEPT ![p] = "write"]
    /\ UNCHANGED <<readers, killed>>

\* rw_rlock_k() and rw_wlock_k() from their entry.  A process asks for one
\* lock at a time.
RLock(p) == MayCall(p) /\ holds[p] = "none" /\ RTest(p)

WLock(p) == MayCall(p) /\ holds[p] = "none" /\ WTest(p, waiting_writers + 1)

\* sleep() returns inside a lock call: the loop tests again.
Retest(p) ==
    /\ st[p] = "woken"
    /\ \/ want[p] = "read" /\ RTest(p)
       \/ want[p] = "write" /\ WTest(p, waiting_writers)

\* Mutant of LastReader: an off-by-one.
MutLastReader == readers = 2

\* rw_runlock_k() wakes only when the count it decrements becomes 0.
LastReader == readers = 1

\* rw_runlock_k().  Nothing in the code ties an unlock to the process that
\* locked; the programs unlock what they hold.
RUnlock(p) ==
    /\ MayCall(p) /\ holds[p] = "read"
    /\ readers' = readers - 1
    /\ st' = IF LastReader THEN Wakeup ELSE st
    /\ holds' = [holds EXCEPT ![p] = "none"]
    /\ UNCHANGED <<writer, waiting_writers, want, killed>>

\* rw_wunlock_k()
WUnlock(p) ==
    /\ MayCall(p) /\ holds[p] = "write"
    /\ writer' = 0
    /\ st' = Wakeup
    /\ holds' = [holds EXCEPT ![p] = "none"]
    /\ UNCHANGED <<readers, waiting_writers, want, killed>>

\* kill(): a sleeper is made RUNNABLE; the lock calls never look at killed.
Kill(p) ==
    /\ st[p] # "dead" /\ ~killed[p]
    /\ Cardinality({q \in Proc : killed[q]}) < MaxKill
    /\ killed' = [killed EXCEPT ![p] = TRUE]
    /\ st' = [st EXCEPT ![p] = IF @ = "sleeping" THEN "woken" ELSE @]
    /\ UNCHANGED <<lockvars, want, holds>>

\* A killed process reaches usertrap()'s check: it exits with what it holds.
Exit(p) ==
    /\ st[p] = "user" /\ killed[p]
    /\ st' = [st EXCEPT ![p] = "dead"]
    /\ UNCHANGED <<lockvars, want, holds, killed>>

Next == \E p \in Proc :
            \/ RwInit(p) \/ RLock(p) \/ WLock(p) \/ Retest(p)
            \/ RUnlock(p) \/ WUnlock(p) \/ Kill(p) \/ Exit(p)

Spec == Init /\ [][Next]_vars

\* A woken process is given the CPU (see Sched), and a process that holds the
\* lock gives it back after a finite time.
Fairness == \A p \in Proc : WF_vars(Retest(p)) /\ WF_vars(RUnlock(p) \/ WUnlock(p))

FairSpec == Spec /\ Fairness

-----------------------------------------------------------------------------
Holders(k) == {p \in Proc : holds[p] = k}

(***************************************************************************)
(* The exclusion the lock is for: one writer and no reader, or no writer,  *)
(* among everybody who was granted the lock, the processes that were       *)
(* killed while they held it or waited for it included.                    *)
(***************************************************************************)
Exclusion ==
    \A p, q \in Proc : holds[p] = "write" /\ holds[q] # "none" => p = q

(***************************************************************************)
(* The counters of struct rwlock are exactly the processes they stand for: *)
(* no path of the lock calls, a kill in the middle of a wait included,     *)
(* leaves one behind or counts one twice.                                  *)
(***************************************************************************)
Counters ==
    /\ readers = Cardinality(Holders("read"))
    /\ writer = Cardinality(Holders("write"))
    /\ waiting_writers = Cardinality({p \in Proc : want[p] = "write"})

(***************************************************************************)
(* No waiter is left asleep at a free lock: whoever sleeps has a holder to *)
(* wait for or, as a reader, a writer that waits.  rw_runlock_k() may skip *)
(* the wakeup while readers remain and rw_wlock_k() wakes nobody when it   *)
(* leaves the loop; this is why that is enough.  (A holder that was killed *)
(* and a writer stranded in sleep() count: what they hold up stays so.)    *)
(***************************************************************************)
SleepersHaveReason ==
    \A p \in Sleepers :
        \/ \E q \in Proc : holds[q] # "none"
        \/ want[p] = "read" /\ \E q \in Proc : want[q] = "write"

(***************************************************************************)
(* Writer preference (the comment over rw_rlock_k()): no reader is let in  *)
(* while a writer holds the lock or waits in rw_wlock_k() for it.          *)
(***************************************************************************)
WriterPreference ==
    [][ \A p \in Proc : holds[p] # "read" /\ holds'[p] = "read" =>
            \A q \in Proc : want[q] # "write" /\ holds[q] # "write" ]_vars

(***************************************************************************)
(* Writers as a group are never shut out: as long as nobody is killed or   *)
(* lost, when a writer waits some writer gets the lock, however many       *)
(* readers come and go.  (A process that is killed takes the lock it holds *)
(* with it: exit() does not give it back.)                                 *)
(***************************************************************************)
WriterProgress ==
    [](\A p \in Proc : ~killed[p] /\ st[p] # "lost") =>
        ((\E p \in Proc : want[p] = "write") ~> (\E p \in Proc : holds[p] = "write"))
=============================================================================
