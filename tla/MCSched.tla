------------------------------- MODULE MCSched -------------------------------
(* Sched for TLC, without the fields that nothing reads: wait_ticks of a     *)
(* process that is at the best level or not queued, whether a ZOMBIE was     *)
(* killed, and what allocproc() will overwrite in a free slot.               *)
EXTENDS Sched

View ==
    <<state, chan, [p \in Slot |-> killed[p] /\ state[p] # "ZOMBIE"], parent,
      [p \in Slot |-> IF state[p] = "UNUSED" THEN 0 ELSE prio[p]],
      [p \in Slot |-> IF p \in Queued /\ prio[p] > PRIO_MIN THEN wait_ticks[p] ELSE 0],
      queue, cur, preempt_pending, mode, at, newp, disk, due, hit>>
=============================================================================
