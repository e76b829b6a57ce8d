----------------------------- MODULE BlockStore -----------------------------
(***************************************************************************)
(* What the buffer cache promises ("provides a synchronization point for   *)
(* disk blocks used by multiple processes"): one current contents per      *)
(* block, which its holder alone changes and which outlives every eviction *)
(* and re-read, and the contents on the disk, which change only by a write *)
(* of the holder and then become the current ones.                         *)
(***************************************************************************)
CONSTANTS Proc, Block, Val, None

VARIABLES
    current,   \* the contents of each block
    stored,    \* the contents on the disk
    holder     \* the process that has the block's buffer locked

vars == <<current, stored, holder>>

Init ==
    /\ current \in [Block -> Val]
    /\ stored = current
    /\ holder = [b \in Block |-> None]

Hold(p, b) ==
    /\ holder[b] = None
    /\ holder' = [holder EXCEPT ![b] = p]
    /\ UNCHANGED <<current, stored>>

Change(p, b, v) ==
    /\ holder[b] = p
    /\ current' = [current EXCEPT ![b] = v]
    /\ UNCHANGED <<stored, holder>>

Store(p, b) ==
    /\ holder[b] = p
    /\ stored' = [stored EXCEPT ![b] = current[b]]
    /\ UNCHANGED <<current, holder>>

LetGo(p, b) ==
    /\ holder[b] = p
    /\ holder' = [holder EXCEPT ![b] = None]
    /\ UNCHANGED <<current, stored>>

Next ==
    \E p \in Proc, b \in Block :
        \/ Hold(p, b) \/ Store(p, b) \/ LetGo(p, b)
        \/ \E v \in Val : Change(p, b, v)

Spec == Init /\ [][Next]_vars
=============================================================================
