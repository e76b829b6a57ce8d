------------------------------ MODULE RunQueue ------------------------------
(***************************************************************************)
(* The ready queue as kernel/proc.c keeps it: one singly linked list per   *)
(* priority (head, tail and the rq_next field of the queued processes) and *)
(* the cached number of the best non-empty list.  NIL is the null pointer. *)
(* Every operation runs under runq.lock with interrupts off, so it is one  *)
(* step; rq_push_tail(), rq_remove() and the loops of prio_on_tick() are   *)
(* functions on the record r of the whole state, so that an operation can  *)
(* run several of them in a row.                                           *)
(***************************************************************************)
EXTENDS ReadyQueue

VARIABLE r

NIL == 0
Ptr == Slot \cup {NIL}

TypeOK == r \in [head : [Prio -> Ptr], tail : [Prio -> Ptr], rq_next : [Slot -> Ptr],
                 highest_nonempty : Prio \cup {-1},
                 prio : [Slot -> Prio], wait_ticks : [Slot -> 0 .. AGING_TICKS]]

\* prio_init()
Init ==
    \E prio \in [Slot -> Prio] :
        r = [head |-> [k \in Prio |-> NIL], tail |-> [k \in Prio |-> NIL],
             rq_next |-> [p \in Slot |-> NIL], highest_nonempty |-> -1,
             prio |-> prio, wait_ticks |-> [p \in Slot |-> 0]]

-----------------------------------------------------------------------------
\* Mutant of RqPushTail: p goes to the head of the list.
MutRqPushTail(s, k, p) ==
    [s EXCEPT
       !.rq_next = [@ EXCEPT ![p] = s.head[k]],
       !.head = [@ EXCEPT ![k] = p],
       !.tail = IF s.tail[k] = NIL THEN [@ EXCEPT ![k] = p] ELSE @,
       !.highest_nonempty = IF @ < 0 \/ k < @ THEN k ELSE @]

\* rq_push_tail(k, p)
RqPushTail(s, k, p) ==
    [s EXCEPT
       !.rq_next = IF s.tail[k] = NIL THEN [@ EXCEPT ![p] = NIL]
                   ELSE [@ EXCEPT ![p] = NIL, ![s.tail[k]] = p],
       !.head = IF s.tail[k] = NIL THEN [@ EXCEPT ![k] = p] ELSE @,
       !.tail = [@ EXCEPT ![k] = p],
       !.highest_nonempty = IF @ < 0 \/ k < @ THEN k ELSE @]

\* The walk of rq_remove(): <<prev, cur>> when it stops, cur = NIL if p is not
\* in the list.
RECURSIVE Walk(_, _, _, _)
Walk(s, p, prev, cur) ==
    IF cur = NIL \/ cur = p THEN <<prev, cur>>
    ELSE Walk(s, p, cur, s.rq_next[cur])

\* rq_remove()'s search for the best list that is left, from list 0 up.
FirstNonEmpty(head) ==
    LET L == {k \in Prio : head[k] # NIL}
    IN  IF L = {} THEN -1 ELSE CHOOSE h \in L : \A k \in L : h <= k

\* Mutant of Refresh: the cache is not refreshed.
MutRefresh(s, k) == s

\* rq_remove()'s update of highest_nonempty after it worked on list k.
Refresh(s, k) ==
    IF s.head[k] = NIL /\ s.highest_nonempty = k
    THEN [s EXCEPT !.highest_nonempty = FirstNonEmpty(s.head)]
    ELSE s

\* rq_remove(k, p)
RqRemove(s, k, p) ==
    LET w == Walk(s, p, NIL, s.head[k])
        prev == w[1]
        unlinked ==
            IF w[2] = NIL THEN s
            ELSE [s EXCEPT
                    !.rq_next = IF prev = NIL THEN [@ EXCEPT ![p] = NIL]
                                ELSE [@ EXCEPT ![prev] = s.rq_next[p], ![p] = NIL],
                    !.head = IF prev = NIL THEN [@ EXCEPT ![k] = s.rq_next[p]] ELSE @,
                    !.tail = IF @[k] = p THEN [@ EXCEPT ![k] = prev] ELSE @]
    IN  Refresh(unlinked, k)

\* The inner loop of prio_on_tick() on list k from process cur on.  The count
\* of a process that can rise no further is capped at AGING_TICKS.
RECURSIVE AgeList(_, _, _)
AgeList(s, k, cur) ==
    IF cur = NIL THEN s
    ELSE LET next == s.rq_next[cur]
             w == s.wait_ticks[cur] + 1
             up == s.prio[cur] - 1
         IN  IF w >= AGING_TICKS /\ s.prio[cur] > PRIO_MIN
             THEN AgeList(
                    RqPushTail([RqRemove(s, k, cur) EXCEPT !.prio[cur] = up,
                                                           !.wait_ticks[cur] = 0],
                               up, cur),
                    k, next)
             ELSE AgeList([s EXCEPT !.wait_ticks[cur] = IF w > AGING_TICKS THEN AGING_TICKS ELSE w],
                          k, next)

\* Mutant of AgeFrom: the lists are scanned from the worst priority up.
RECURSIVE MutAgeFrom(_, _)
MutAgeFrom(s, k) ==
    IF k = NPRIO THEN s
    ELSE LET t == MutAgeFrom(s, k + 1) IN AgeList(t, k, t.head[k])

\* The outer loop of prio_on_tick().
RECURSIVE AgeFrom(_, _)
AgeFrom(s, k) == IF k = NPRIO THEN s ELSE AgeFrom(AgeList(s, k, s.head[k]), k + 1)

\* The processes in list k, in order.
RECURSIVE ListFrom(_, _)
ListFrom(cur, n) ==
    IF cur = NIL \/ n = 0 THEN << >> ELSE <<cur>> \o ListFrom(r.rq_next[cur], n - 1)
List(k) == ListFrom(r.head[k], NPROC + 1)

-----------------------------------------------------------------------------
\* prio_enqueue(p), for a process that is in no list.
PrioEnqueue(p) ==
    /\ \A k \in Prio : p \notin Members(List(k))
    /\ r' = RqPushTail([r EXCEPT !.wait_ticks[p] = 0], r.prio[p], p)

\* prio_dequeue(p)
PrioDequeue(p) == r' = RqRemove(r, r.prio[p], p)

\* prio_pick_next(), and schedule()'s reset of wait_ticks.
PrioPickNext ==
    LET h == r.highest_nonempty IN
    /\ h >= 0
    /\ r.head[h] # NIL
    /\ r' = [RqRemove(r, h, r.head[h]) EXCEPT !.wait_ticks[r.head[h]] = 0]

\* prio_on_tick()
PrioOnTick == r' = AgeFrom(r, 0)

Next ==
    \/ \E p \in Slot : PrioEnqueue(p) \/ PrioDequeue(p)
    \/ PrioPickNext
    \/ PrioOnTick

Spec == Init /\ [][Next]_r

-----------------------------------------------------------------------------
Abstract == INSTANCE PrioQueue
                WITH queue <- [k \in Prio |-> List(k)],
                     prio <- r.prio, wait_ticks <- r.wait_ticks

(***************************************************************************)
(* The linked lists implement the abstract priority queue: every operation *)
(* of the code, the nested loops of prio_on_tick() that relink the list    *)
(* they walk included, does to the lists what PrioQueue's operation does   *)
(* to the sequences, and prio_pick_next() takes what Pick takes.           *)
(***************************************************************************)
Implements == Abstract!Spec

(***************************************************************************)
(* The cached highest_nonempty is never stale: it is the first non-empty   *)
(* list after any sequence of operations, and each tail is the last        *)
(* process its list reaches.  No pointer, level or count leaves its range. *)
(***************************************************************************)
CacheExact ==
    /\ TypeOK
    /\ r.highest_nonempty = HighestNonEmpty([k \in Prio |-> List(k)])
    /\ \A k \in Prio :
         r.tail[k] = IF List(k) = << >> THEN NIL ELSE List(k)[Len(List(k))]

(***************************************************************************)
(* First come, first aged: within a level nobody has waited longer than a  *)
(* process in front of it, although aging moves processes between levels   *)
(* and prio_dequeue() takes them out of the middle.  So the process        *)
(* prio_pick_next() takes is the one of its level that waited longest.     *)
(***************************************************************************)
OldestFirst ==
    \A k \in Prio : \A i, j \in DOMAIN List(k) :
        i < j => r.wait_ticks[List(k)[i]] >= r.wait_ticks[List(k)[j]]
=============================================================================
