--------------------------- MODULE MCBufferCache ---------------------------
(* BufferCache for TLC: processes, buffers, blocks and contents are         *)
(* interchangeable, and what nobody reads again does not tell states apart. *)
EXTENDS BufferCache, TLC

Perms ==
    Permutations(Proc) \cup Permutations(Buf) \cup Permutations(Block) \cup Permutations(Val)

\* The ring without the entries outside from..to-1, which were read before.
Ahead(from, to, ring) ==
    [d \in Desc |-> IF (d - from) % NUM < (to - from) % IDX THEN ring[d] ELSE 0]

\* Contents somebody will read: of a valid buffer, or of one being transferred.
\* What an invalid buffer holds is overwritten by the read that makes it valid.
Meant(i) == valid[i] \/ \E p \in Requesting : buf[p] = i

\* brelse() puts a buffer that falls out of use at the front of the list, so
\* only the order of the unused ones matters.
View ==
    <<disk, blk, [i \in Buf |-> IF Meant(i) THEN data[i] ELSE None], owned, free, desc, ops, info,
      Ahead(fetched, avail_idx, avail), avail_idx,
      Ahead(used_idx, used_ring_idx, used), used_ring_idx, used_idx, fetched,
      inflight, owed, intr, handler, st, buf, write, head, lost,
      valid, refcnt, lock, SelectSeq(lru, LAMBDA i : i \in Unused), pinned>>
=============================================================================
