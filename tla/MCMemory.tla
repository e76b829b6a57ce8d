------------------------------ MODULE MCMemory ------------------------------
(* Memory with one text segment, a data segment beyond a hole, and the     *)
(* three kinds of program header exec() refuses.                           *)
EXTENDS Memory

MCHeaders ==
    LET ph(vaddr, memsz, filesz, w) ==
          [vaddr |-> vaddr, memsz |-> memsz, filesz |-> filesz, w |-> w]
    IN  { ph(0, 1, 1, FALSE), ph(4, 1, 0, TRUE),
          ph(0, 1, 2, TRUE), ph(1, 1, 1, TRUE), ph(WORD - 2, 4, 1, TRUE) }

MCIncrements == {3, -4}

MCAddresses == {3}

(* Which page serves which purpose does not matter, only the shape of the  *)
(* tables and the length of the list do: the free list is a stack and      *)
(* nothing looks at a page number.  The number of different pages found    *)
(* anywhere is part of the view, and whether a table maps the process's    *)
(* own trap frame: a state in which a page is lost, shared or the wrong    *)
(* one is not taken for another.                                           *)
Shape(pt, trapframe) ==
    <<pt.root = 0, DOMAIN pt.dir,
      [va \in DOMAIN pt.leaf |-> <<pt.leaf[va].u, pt.leaf[va].w,
                                   va = TRAPFRAME /\ pt.leaf[va].pa = trapframe>>]>>

View == <<Len(freelist), panicked,
          Cardinality(ToSet(freelist) \cup UNION {Owned(p) : p \in Proc}),
          [p \in Proc |-> <<proc[p].state, proc[p].parent, proc[p].trapframe = 0,
                            Shape(proc[p].pagetable, proc[p].trapframe), proc[p].sz, ex[p].at,
                            Len(ex[p].argv), Shape(ex[p].pagetable, proc[p].trapframe), ex[p].sz>>]>>
=============================================================================
