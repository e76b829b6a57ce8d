----------------------------- MODULE PrioQueue -----------------------------
(***************************************************************************)
(* What the ready queue of kernel/proc.c promises, as a state machine on   *)
(* sequences: the abstract specification that RunQueue, the linked lists,  *)
(* implements.                                                             *)
(***************************************************************************)
EXTENDS ReadyQueue

VARIABLES
    queue,        \* the queues, best priority first
    prio,         \* p->prio
    wait_ticks    \* p->wait_ticks; a queued process at PRIO_MIN stops
                  \* counting at AGING_TICKS, nothing looks at it any more

vars == <<queue, prio, wait_ticks>>

Queued == UNION {Members(queue[k]) : k \in Prio}

TypeOK ==
    /\ queue \in [Prio -> Seq(Slot)]
    /\ prio \in [Slot -> Prio]
    /\ wait_ticks \in [Slot -> 0 .. AGING_TICKS]

\* prio_init(); the processes have any priorities.
Init ==
    /\ queue = EmptyQueue
    /\ prio \in [Slot -> Prio]
    /\ wait_ticks = [p \in Slot |-> 0]

\* prio_enqueue(), for a process that is not queued: the callers have just
\* made it RUNNABLE.
Enqueue(p) ==
    /\ p \notin Queued
    /\ queue' = PushTail(queue, prio, {p})
    /\ wait_ticks' = [wait_ticks EXCEPT ![p] = 0]
    /\ UNCHANGED prio

\* prio_dequeue(), for any process.
Dequeue(p) ==
    /\ queue' = Remove(queue, prio[p], p)
    /\ UNCHANGED <<prio, wait_ticks>>

\* prio_pick_next() and schedule()'s reset of wait_ticks.
Pick ==
    /\ HighestNonEmpty(queue) >= 0
    /\ queue' = AfterPick(queue)
    /\ wait_ticks' = [wait_ticks EXCEPT ![PickNext(queue)] = 0]
    /\ UNCHANGED prio

\* The queued processes that this tick moves up.
Aged == {p \in Queued : wait_ticks[p] + 1 >= AGING_TICKS /\ prio[p] > PRIO_MIN}

\* prio_on_tick()
OnTick ==
    /\ queue' = MoveUp(queue, Aged)
    /\ prio' = [p \in Slot |-> IF p \in Aged THEN prio[p] - 1 ELSE prio[p]]
    /\ wait_ticks' = [p \in Slot |->
          CASE p \in Aged -> 0
            [] p \in Queued \ Aged ->
                  IF wait_ticks[p] < AGING_TICKS THEN wait_ticks[p] + 1 ELSE AGING_TICKS
            [] OTHER -> wait_ticks[p]]

Next ==
    \/ \E p \in Slot : Enqueue(p) \/ Dequeue(p)
    \/ Pick
    \/ OnTick

Spec == Init /\ [][Next]_vars

=============================================================================
