-------------------------------- MODULE Pipe --------------------------------
(***************************************************************************)
(* One pipe (kernel/pipe.c) as a value: the ring buffer with its two       *)
(* counters, which run on modulo WORD, and the two ends.  The loops of     *)
(* pipewrite() and piperead() hold pi->lock until they sleep or return, so *)
(* one operator moves all the bytes of one turn.                           *)
(***************************************************************************)
EXTENDS Naturals, Sequences

CONSTANTS PIPESIZE,  \* bytes the buffer holds (512)
          WORD       \* size of the counters (2^32)

ASSUME PipeAssumption ==
    /\ PIPESIZE \in Nat \ {0} /\ WORD \in Nat
    /\ WORD % PIPESIZE = 0 /\ WORD > PIPESIZE

\* A pipe that is not allocated.
NoPipe == [alloc |-> FALSE, data |-> [i \in 0..(PIPESIZE - 1) |-> "free"],
           nread |-> 0, nwrite |-> 0, readopen |-> FALSE, writeopen |-> FALSE]

\* pipealloc() of the pipe itself.
NewPipe == [NoPipe EXCEPT !.alloc = TRUE, !.readopen = TRUE, !.writeopen = TRUE]

PipeEmpty(pi) == pi.nread = pi.nwrite
PipeFull(pi) == pi.nwrite = (pi.nread + PIPESIZE) % WORD

\* Mutant: the counters are compared by size, wrong once nwrite has wrapped.
MutUnread(pi) == IF pi.nread < pi.nwrite THEN pi.nwrite - pi.nread ELSE 0

Unread(pi) == (pi.nwrite + WORD - pi.nread) % WORD
Space(pi) == PIPESIZE - Unread(pi)

\* Where byte number n of the stream is kept.
At(n) == (n % WORD) % PIPESIZE

\* The bytes of data that fit now, stored behind those already there.
Put(pi, n, data) ==
    [pi EXCEPT
       !.nwrite = (@ + n) % WORD,
       !.data = [i \in DOMAIN @ |->
                   LET at == {k \in 1..n : At(pi.nwrite + k - 1) = i}
                   IN  IF at = {} THEN @[i] ELSE data[CHOOSE k \in at : TRUE]]]

\* The n oldest bytes, and the pipe without them.
Oldest(pi, n) == [k \in 1..n |-> pi.data[At(pi.nread + k - 1)]]

Drop(pi, n) == [pi EXCEPT !.nread = (@ + n) % WORD]

\* pipeclose(): the last end frees the pipe.
CloseEnd(pi, writable) ==
    LET c == IF writable THEN [pi EXCEPT !.writeopen = FALSE]
             ELSE [pi EXCEPT !.readopen = FALSE]
    IN  IF c.readopen \/ c.writeopen THEN c ELSE NoPipe
=============================================================================
