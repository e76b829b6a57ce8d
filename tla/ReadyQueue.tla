----------------------------- MODULE ReadyQueue -----------------------------
(***************************************************************************)
(* The multi-level ready queue `runq' of kernel/proc.c as a value: for     *)
(* each priority the sequence of the processes queued there, first one     *)
(* first.  Operators only; PrioQueue gives them a state, RunQueue shows    *)
(* that the linked lists of the code compute them and Sched schedules with *)
(* them.  A smaller number is a better priority.                           *)
(***************************************************************************)
EXTENDS Integers, Sequences, FiniteSets

CONSTANTS
    NPROC,         \* number of slots of the process table
    NPRIO,         \* number of priorities
    AGING_TICKS    \* ticks in the queue that earn a better priority

ASSUME QueueAssumption ==
    /\ NPROC \in Nat \ {0}
    /\ NPRIO \in Nat \ {0}
    /\ AGING_TICKS \in Nat \ {0}

\* Slots of the table proc[], in the order in which every loop scans it.
Slot == 1 .. NPROC
Prio == 0 .. NPRIO - 1
PRIO_MIN == 0
PRIO_MAX == NPRIO - 1

\* The processes in a queue, and whether each is in it once.
Members(s) == {s[i] : i \in DOMAIN s}
Once(s) == \A i, j \in DOMAIN s : s[i] = s[j] => i = j

\* The elements of s that are in S, in the order of s.
Keep(s, S) ==
    LET K == {i \in DOMAIN s : s[i] \in S}
    IN  [j \in 1 .. Cardinality(K) |->
            s[CHOOSE i \in K : Cardinality({k \in K : k <= i}) = j]]

\* The slots of the set S in table order.
InTableOrder(S) == Keep([i \in Slot |-> i], S)

EmptyQueue == [k \in Prio |-> << >>]

NonEmpty(q) == {k \in Prio : q[k] # << >>}

\* Mutant of HighestNonEmpty: the search goes from the worst level up.
MutHighestNonEmpty(q) ==
    IF NonEmpty(q) = {} THEN -1
    ELSE CHOOSE h \in NonEmpty(q) : \A k \in NonEmpty(q) : h >= k

\* runq.highest_nonempty: the best priority with a ready process, or -1.
HighestNonEmpty(q) ==
    IF NonEmpty(q) = {} THEN -1
    ELSE CHOOSE h \in NonEmpty(q) : \A k \in NonEmpty(q) : h <= k

\* rq_push_tail() by prio_enqueue() for every process of S, in table order, at
\* the priority prio gives it.
PushTail(q, prio, S) ==
    [k \in Prio |-> q[k] \o InTableOrder({p \in S : prio[p] = k})]

\* rq_remove(prio, p)
Remove(q, k, p) == [q EXCEPT ![k] = Keep(@, Slot \ {p})]

\* prio_pick_next(): the head of the best non-empty queue leaves it.
PickNext(q) == q[HighestNonEmpty(q)][1]
AfterPick(q) == [q EXCEPT ![HighestNonEmpty(q)] = Tail(@)]

\* prio_should_preempt(cur_prio)
ShouldPreempt(q, cur_prio) ==
    HighestNonEmpty(q) >= 0 /\ HighestNonEmpty(q) <= cur_prio

\* prio_on_tick(): the processes S that have waited long enough move up one
\* level.  The code scans from the best level down and appends to a level it
\* has already scanned, so nobody moves twice in one tick.
MoveUp(q, S) ==
    [k \in Prio |-> Keep(q[k], Slot \ S)
                    \o IF k < PRIO_MAX THEN Keep(q[k + 1], S) ELSE << >>]
=============================================================================
