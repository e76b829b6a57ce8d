------------------------------- MODULE Memory -------------------------------
(***************************************************************************)
(* Physical pages and user address spaces: the page allocator (kalloc.c),  *)
(* the page tables (vm.c), and the system calls that build, copy, resize   *)
(* and destroy an address space: fork(), sbrk(), exec(), exit() and wait() *)
(* (proc.c, exec.c, sysfile.c).                                            *)
(*                                                                         *)
(* An address space is private to its process and the allocator is guarded *)
(* by kmem.lock, so a system call is one step, except exec(), which reads  *)
(* the disk in between and holds argument pages and a half built table     *)
(* while other processes run.  Memory contents are left out; what a page   *)
(* table maps, with which permission, and who owns each page is kept.      *)
(*                                                                         *)
(* Virtual addresses count units of PGSIZE / PG bytes, and page numbers    *)
(* count PG units.                                                         *)
(***************************************************************************)
EXTENDS Integers, Sequences, FiniteSets, SequencesExt

CONSTANTS NProc,     \* slots of the process table
          NFrame,    \* pages of physical memory kinit() puts on the free list
          PTES,      \* entries of a page-table page (512)
          PG,        \* address units in a page
          WORD,      \* size of the integers addresses are computed in (2^64)
          MAXARG,    \* entries of exec's argv[]
          USERSTACK, \* pages of user stack
          Headers,   \* program headers a file may hold
          Increments,\* arguments of sbrk()
          Addresses  \* user pointers passed to wait() and exec()

MAXVA == PTES * PTES * PTES
TRAMPOLINE == MAXVA - 1
TRAPFRAME == MAXVA - 2

\* Physical memory is smaller than the user half of the address space, which
\* is what keeps uvmalloc() away from the trap frame page.
ASSUME MemoryAssumption ==
    /\ NProc \in Nat \ {0} /\ NFrame \in Nat /\ PG \in Nat \ {0}
    /\ NFrame < TRAPFRAME /\ PG * MAXVA < WORD

VARIABLES freelist,  \* kmem.freelist
          proc,      \* the process table: state, parent, trapframe, table, sz
          ex,        \* the exec() each process is in
          panicked   \* vm.c called panic()

vars == <<freelist, proc, ex, panicked>>

Proc == 1..NProc
Frame == 1..NFrame

-----------------------------------------------------------------------------
(* kalloc.c: the free list is a stack of pages.                            *)

Kfree(fl, pages) == Reverse(pages) \o fl

-----------------------------------------------------------------------------
(* vm.c.  A page table is its root page, the lower page-table pages that   *)
(* exist (named by the indices that lead to them) and its leaf entries.    *)
(* An operator takes and returns the allocator with the table it works on: *)
(* m.fl, m.pt, m.ok (no error so far) and m.panic.                         *)

NoTable == [root |-> 0, dir |-> <<>>, leaf |-> <<>>]

\* The page-table pages between the root and the entry of page va.
Dirs(va) == LET PX2 == va \div (PTES * PTES)
                PX1 == (va \div PTES) % PTES
            IN  <<<<PX2>>, <<PX2, PX1>>>>

Without(f, S) == [x \in DOMAIN f \ S |-> f[x]]
Extend(f, x, v) == [y \in DOMAIN f \cup {x} |-> IF y = x THEN v ELSE f[y]]

\* kalloc() once the list was found not to be empty: the page is Head(m.fl).
Kalloc(m) == [m EXCEPT !.fl = Tail(@)]

Panics(m, cond) == [m EXCEPT !.panic = @ \/ cond]

\* walk() with alloc: a table it created stays when the next one fails.
Walk(m, va) ==
    LET Step(s, d) ==
          IF ~s.ok \/ d \in DOMAIN s.pt.dir THEN s
          ELSE IF s.fl = <<>> THEN [s EXCEPT !.ok = FALSE]
          ELSE [Kalloc(s) EXCEPT !.pt.dir = Extend(@, d, Head(s.fl))]
    IN  FoldLeft(Step, Panics(m, va >= MAXVA), Dirs(va))

\* walk() without alloc finds the entry and the entry is valid.
Mapped(pt, va) == /\ \A d \in ToSet(Dirs(va)) : d \in DOMAIN pt.dir
                  /\ va \in DOMAIN pt.leaf

\* walkaddr() finds a user page.
Walkaddr(pt, va) == va < MAXVA /\ Mapped(pt, va) /\ pt.leaf[va].u

\* copyin() and copyinstr() ask no more of a page; copyout() also refuses pages that are not writable.
Copyin(pt, va) == Walkaddr(pt, va)
Copyout(pt, va) == Walkaddr(pt, va) /\ pt.leaf[va].w

Mappages(m, va, pte) ==
    LET s == Walk(m, va)
    IN  IF ~s.ok THEN s
        ELSE [Panics(s, va \in DOMAIN s.pt.leaf) EXCEPT !.pt.leaf = Extend(@, va, pte)]

\* Mutant: the page is lost when mappages() fails.
MutMapNew(m, va, u, w) ==
    IF ~m.ok \/ m.fl = <<>> THEN [m EXCEPT !.ok = FALSE]
    ELSE Mappages(Kalloc(m), va, [pa |-> Head(m.fl), u |-> u, w |-> w])

\* The loop body of uvmalloc() and uvmcopy(): a page for va, given back when
\* no page-table page can be had for it.
MapNew(m, va, u, w) ==
    IF ~m.ok \/ m.fl = <<>> THEN [m EXCEPT !.ok = FALSE]
    ELSE LET s == Mappages(Kalloc(m), va, [pa |-> Head(m.fl), u |-> u, w |-> w])
         IN  IF s.ok THEN s ELSE [s EXCEPT !.fl = Kfree(@, <<Head(m.fl)>>)]

Pages(first, last) == [i \in 1..(last - first) |-> first + i - 1]

\* uvmunmap() of the pages first .. last - 1.
Uvmunmap(m, first, last, free) ==
    LET vas == Pages(first, last)
        there == SelectSeq(vas, LAMBDA va : Mapped(m.pt, va))
        pas == [i \in DOMAIN there |-> m.pt.leaf[there[i]].pa]
    IN  [Panics(m, there # vas) EXCEPT
           !.fl = IF free THEN Kfree(@, pas) ELSE @,
           !.pt.leaf = Without(@, ToSet(vas))]

PGROUNDUP(a) == (a + PG - 1) \div PG

\* uvmdealloc(); the size it returns is Shrunk.
Uvmdealloc(m, oldsz, newsz) ==
    IF newsz < oldsz /\ PGROUNDUP(newsz) < PGROUNDUP(oldsz)
    THEN Uvmunmap(m, PGROUNDUP(newsz), PGROUNDUP(oldsz), TRUE)
    ELSE m

Shrunk(oldsz, newsz) == IF newsz >= oldsz THEN oldsz ELSE newsz

\* How many of the pages from first on the failed loop over them had mapped.
Reached(m, first, last) ==
    Cardinality({va \in first..(last - 1) : va \in DOMAIN m.pt.leaf})

\* Mutant: the clean-up forgets the last page that was mapped.
MutAllocUndo(m, first, last) ==
    Uvmdealloc(m, (first + Reached(m, first, last) - 1) * PG, first * PG)

\* The pages an error hands to the clean-up of uvmalloc().
AllocUndo(m, first, last) ==
    Uvmdealloc(m, (first + Reached(m, first, last)) * PG, first * PG)

Uvmalloc(m, oldsz, newsz, w) ==
    LET first == PGROUNDUP(oldsz)
        last  == IF PGROUNDUP(newsz) < first THEN first ELSE PGROUNDUP(newsz)
        s == FoldLeft(LAMBDA t, va : MapNew(t, va, TRUE, w), m, Pages(first, last))
    IN  IF newsz < oldsz \/ s.ok THEN s ELSE AllocUndo(s, first, last)

\* Zero, the error value, is also what an empty address space returns.
Grown(m, oldsz, newsz) == IF newsz < oldsz THEN oldsz ELSE IF m.ok THEN newsz ELSE 0

\* The page-table pages below the root in freewalk()'s order, children first.
TableNames ==
    FlattenSeq([i \in 1..PTES |-> [j \in 1..PTES |-> <<i - 1, j - 1>>] \o <<<<i - 1>>>>])

Present(pt) == SelectSeq(TableNames, LAMBDA d : d \in DOMAIN pt.dir)

Freewalk(m) ==
    LET tables == [i \in DOMAIN Present(m.pt) |-> m.pt.dir[Present(m.pt)[i]]]
    IN  [Panics(m, DOMAIN m.pt.leaf # {}) EXCEPT
           !.fl = Kfree(@, Append(tables, m.pt.root)), !.pt = NoTable]

Uvmfree(m, sz) ==
    Freewalk(IF sz > 0 THEN Uvmunmap(m, 0, PGROUNDUP(sz), TRUE) ELSE m)

\* uvmcopy(): what it mapped before an error is unmapped again.
Uvmcopy(m, old, sz) ==
    LET n == PGROUNDUP(sz)
        Step(t, va) ==
          IF ~t.ok THEN t
          ELSE IF ~Mapped(old, va) THEN Panics([t EXCEPT !.ok = FALSE], TRUE)
          ELSE MapNew(t, va, old.leaf[va].u, old.leaf[va].w)
        s == FoldLeft(Step, m, Pages(0, n))
    IN  IF s.ok THEN s ELSE Uvmunmap(s, 0, Reached(s, 0, n), TRUE)

\* Mutant: the guard page stays a user page.
MutUvmclear(m, va) == Panics(m, ~Mapped(m.pt, va))

\* uvmclear() on the stack guard page.
Uvmclear(m, va) ==
    IF Mapped(m.pt, va) THEN [m EXCEPT !.pt.leaf[va].u = FALSE] ELSE Panics(m, TRUE)

\* uvmcreate(): a table with nothing in it.
Uvmcreate(fl) ==
    [fl |-> IF fl = <<>> THEN fl ELSE Tail(fl),
     pt |-> [NoTable EXCEPT !.root = IF fl = <<>> THEN 0 ELSE Head(fl)],
     ok |-> fl # <<>>, panic |-> FALSE]

-----------------------------------------------------------------------------
(* proc.c: tables of a process.                                            *)

\* proc_pagetable(): the trampoline is kernel text, page 0 here.
ProcPagetable(fl, trapframe) ==
    LET m == Uvmcreate(fl)
        t == Mappages(m, TRAMPOLINE, [pa |-> 0, u |-> FALSE, w |-> FALSE])
        f == Mappages(t, TRAPFRAME, [pa |-> trapframe, u |-> FALSE, w |-> TRUE])
    IN  IF ~m.ok THEN m
        ELSE IF ~t.ok THEN Uvmfree(t, 0)
        ELSE IF ~f.ok THEN Uvmfree(Uvmunmap(f, TRAMPOLINE, TRAMPOLINE + 1, FALSE), 0)
        ELSE f

ProcFreepagetable(m, sz) ==
    LET t == Uvmunmap(m, TRAMPOLINE, TRAMPOLINE + 1, FALSE)
    IN  Uvmfree(Uvmunmap(t, TRAPFRAME, TRAPFRAME + 1, FALSE), sz)

Unused == [state |-> "unused", parent |-> 0, trapframe |-> 0, pagetable |-> NoTable, sz |-> 0]

Memory(pt) == [fl |-> freelist, pt |-> pt, ok |-> TRUE, panic |-> FALSE]

\* freeproc(): the pages of a slot back to the allocator, the trap frame
\* first.
Freeproc(m, trapframe, sz) ==
    LET f == [m EXCEPT !.fl = Kfree(@, <<trapframe>>)]
    IN  IF m.pt = NoTable THEN f ELSE ProcFreepagetable(f, sz)

NoExec == [at |-> "user", argv |-> <<>>, pagetable |-> NoTable, sz |-> 0]

Running(p) == proc[p].state = "alive" /\ ex[p].at = "user"

\* What a system call leaves of the allocator.
Done(m) == freelist' = m.fl /\ panicked' = (panicked \/ m.panic)

-----------------------------------------------------------------------------
(* The system calls.                                                       *)

\* allocproc()'s memory for a slot: a trap frame, tf, and a table with the trap
\* pages; a failure gives both back.
Allocproc(tf) ==
    LET t == ProcPagetable(Tail(freelist), tf)
    IN  IF t.ok THEN t ELSE Freeproc(t, tf, 0)

\* fork(): the first unused slot and a copy of the parent's pages.  When
\* uvmcopy() finds no memory the slot is freed, with size 0.
Fork(p) ==
    LET free == {q \in Proc : proc[q].state = "unused"}
        np == CHOOSE q \in free : \A r \in free : q <= r
        tf == Head(freelist)
        t == Allocproc(tf)
        c == Uvmcopy(t, proc[p].pagetable, proc[p].sz)
    IN  /\ Running(p) /\ free # {} /\ freelist # <<>>
        /\ \/ /\ ~t.ok
              /\ Done(t)
              /\ UNCHANGED proc
           \/ /\ t.ok /\ ~c.ok
              /\ Done(Freeproc(c, tf, 0))
              /\ UNCHANGED proc
           \/ /\ t.ok /\ c.ok
              /\ Done(c)
              /\ proc' = [proc EXCEPT ![np] =
                            [state |-> "alive", parent |-> p, trapframe |-> tf,
                             pagetable |-> c.pt, sz |-> proc[p].sz]]
        /\ UNCHANGED ex

\* sbrk() and growproc(): sz + n is computed modulo 2^64; a shrink past zero
\* wraps and is no shrink.
Sbrk(p, n) ==
    LET sz == proc[p].sz
        new == (sz + n) % WORD
        up == Uvmalloc(Memory(proc[p].pagetable), sz, new, TRUE)
        down == Uvmdealloc(Memory(proc[p].pagetable), sz, new)
    IN  /\ Running(p)
        /\ \/ /\ n > 0 /\ Done(up)
              /\ proc' = [proc EXCEPT ![p].pagetable = up.pt,
                                      ![p].sz = IF Grown(up, sz, new) = 0 THEN @
                                                ELSE Grown(up, sz, new)]
           \/ /\ n < 0 /\ Done(down)
              /\ proc' = [proc EXCEPT ![p].pagetable = down.pt, ![p].sz = Shrunk(sz, new)]
        /\ UNCHANGED ex

\* exit() keeps the memory; the children go to the first process.
Exit(p) ==
    /\ Running(p) /\ p # 1
    /\ proc' = [q \in Proc |-> IF q = p THEN [proc[p] EXCEPT !.state = "zombie"]
                               ELSE IF proc[q].parent = p THEN [proc[q] EXCEPT !.parent = 1]
                               ELSE proc[q]]
    /\ UNCHANGED <<freelist, ex, panicked>>

\* wait() finds the zombie q; with a pointer the status cannot be copied to
\* it fails and leaves q for another try.
Wait(p, q, addr) ==
    LET m == Freeproc(Memory(proc[q].pagetable), proc[q].trapframe, proc[q].sz)
    IN  /\ Running(p) /\ proc[q].state = "zombie" /\ proc[q].parent = p
        /\ addr = 0 \/ Copyout(proc[p].pagetable, addr \div PG)
        /\ proc' = [proc EXCEPT ![q] = Unused]
        /\ Done(m)
        /\ UNCHANGED ex

-----------------------------------------------------------------------------
(* exec().  ex[p].argv holds the pages sys_exec() copied the arguments to, *)
(* ex[p].pagetable and ex[p].sz the address space under construction.      *)

\* fetchstr() of one argument: any address the page table lets the user read.
Fetchstr(p, addr) == Copyin(proc[p].pagetable, addr \div PG)

\* Every way out of a failed exec(): the new table with the pages up to sz,
\* then the argument pages.
Abandon(p, m, sz) ==
    LET t == IF m.pt = NoTable THEN m ELSE ProcFreepagetable(m, sz)
    IN  /\ Done([t EXCEPT !.fl = Kfree(@, ex[p].argv)])
        /\ ex' = [ex EXCEPT ![p] = NoExec]
        /\ UNCHANGED proc

\* One more argument: its page is in argv[] before the string is fetched.
ExecArg(p, addr) ==
    /\ proc[p].state = "alive" /\ ex[p].at \in {"user", "args"}
    /\ Len(ex[p].argv) < MAXARG /\ freelist # <<>>
    /\ freelist' = Tail(freelist)
    /\ ex' = [ex EXCEPT ![p].at = IF Fetchstr(p, addr) THEN "args" ELSE "failed",
                        ![p].argv = Append(@, Head(freelist))]
    /\ UNCHANGED <<proc, panicked>>

\* No page for an argument, one too many, or one that cannot be read: its
\* string, or, where fetchaddr() finds the caller's argv[] out of bounds, the
\* pointer to it.
ExecArgBad(p) ==
    /\ ex[p].at \in {"args", "failed"}
    /\ Abandon(p, Memory(NoTable), 0)

\* exec() opened the file, and read its header or not (valid).
ExecOpen(p, valid) ==
    LET t == ProcPagetable(freelist, proc[p].trapframe)
    IN  /\ proc[p].state = "alive" /\ ex[p].at \in {"user", "args"}
        /\ Len(ex[p].argv) < MAXARG
        /\ IF valid /\ t.ok
           THEN /\ Done(t)
                /\ ex' = [ex EXCEPT ![p].at = "load", ![p].pagetable = t.pt]
                /\ UNCHANGED proc
           ELSE Abandon(p, [t EXCEPT !.fl = IF valid THEN @ ELSE freelist,
                                     !.pt = NoTable], 0)

\* The checks exec() makes on a program header.
HeaderOk(ph) == /\ ph.memsz >= ph.filesz
                /\ (ph.vaddr + ph.memsz) % WORD >= ph.vaddr
                /\ ph.vaddr % PG = 0

\* loadseg() panics on a page that is not mapped for the user.
LoadsegPanics(m, ph) ==
    \E i \in 0..(PGROUNDUP(ph.filesz) - 1) : ~Walkaddr(m.pt, ph.vaddr \div PG + i)

\* One program header: its pages, then its contents, read completely or not.
ExecSegment(p, ph, complete) ==
    LET sz == ex[p].sz
        new == (ph.vaddr + ph.memsz) % WORD
        m == Uvmalloc(Memory(ex[p].pagetable), sz, new, ph.w)
        sz1 == Grown(m, sz, new)
        l == Panics(m, LoadsegPanics(m, ph))
    IN  /\ ex[p].at = "load"
        /\ \/ ~HeaderOk(ph) /\ Abandon(p, Memory(ex[p].pagetable), sz)
           \/ HeaderOk(ph) /\ sz1 = 0 /\ Abandon(p, m, sz)
           \/ HeaderOk(ph) /\ sz1 # 0 /\ ~complete /\ Abandon(p, l, sz1)
           \/ /\ HeaderOk(ph) /\ sz1 # 0 /\ complete
              /\ Done(l)
              /\ ex' = [ex EXCEPT ![p].pagetable = m.pt, ![p].sz = sz1]
              /\ UNCHANGED proc

\* The stack with its guard page, the arguments if they fit, and the commit:
\* the old table goes with the old size.
ExecStack(p, fits) ==
    LET sz == PG * PGROUNDUP(ex[p].sz)
        new == sz + (USERSTACK + 1) * PG
        m == Uvmalloc(Memory(ex[p].pagetable), sz, new, TRUE)
        c == Uvmclear(m, sz \div PG)
        pushed == fits /\ \A va \in (sz \div PG + 1)..(new \div PG - 1) : Copyout(c.pt, va)
        f == ProcFreepagetable([c EXCEPT !.pt = proc[p].pagetable], proc[p].sz)
    IN  /\ ex[p].at = "load"
        /\ \/ ~m.ok /\ Abandon(p, m, sz)
           \/ m.ok /\ ~pushed /\ Abandon(p, c, new)
           \/ /\ m.ok /\ pushed
              /\ Done([f EXCEPT !.fl = Kfree(@, ex[p].argv)])
              /\ proc' = [proc EXCEPT ![p].pagetable = c.pt, ![p].sz = new]
              /\ ex' = [ex EXCEPT ![p] = NoExec]

-----------------------------------------------------------------------------

\* kinit() frees the pages in order, and userinit() makes the first process
\* with one page.
Init ==
    LET kinit == Kfree(<<>>, [i \in 1..NFrame |-> i])
        t == ProcPagetable(Tail(kinit), Head(kinit))
        m == MapNew(t, 0, TRUE, TRUE)
    IN  /\ freelist = m.fl
        /\ proc = [p \in Proc |->
                     IF p = 1 THEN [state |-> "alive", parent |-> 0, trapframe |-> Head(kinit),
                                    pagetable |-> m.pt, sz |-> PG]
                     ELSE Unused]
        /\ ex = [p \in Proc |-> NoExec]
        /\ panicked = FALSE

Next ==
    \E p \in Proc :
        \/ Fork(p)
        \/ \E n \in Increments : Sbrk(p, n)
        \/ Exit(p)
        \/ \E q \in Proc, addr \in Addresses \cup {0} : Wait(p, q, addr)
        \/ \E addr \in Addresses : ExecArg(p, addr)
        \/ ExecArgBad(p)
        \/ \E valid \in BOOLEAN : ExecOpen(p, valid)
        \/ \E ph \in Headers, complete \in BOOLEAN : ExecSegment(p, ph, complete)
        \/ \E fits \in BOOLEAN : ExecStack(p, fits)

Spec == Init /\ [][Next]_vars

-----------------------------------------------------------------------------
(* Properties.                                                             *)

\* The pages a table holds: its page-table pages and the user pages it maps.
\* The trap pages belong to others.
UserPages(pt) == DOMAIN pt.leaf \ {TRAMPOLINE, TRAPFRAME}
HeldBy(pt) == {pt.root} \cup Range(pt.dir) \cup {pt.leaf[va].pa : va \in UserPages(pt)}
Holds(pt) == IF pt = NoTable THEN 0
             ELSE 1 + Cardinality(DOMAIN pt.dir) + Cardinality(UserPages(pt))

Owned(p) == {proc[p].trapframe} \cup ToSet(ex[p].argv)
               \cup HeldBy(proc[p].pagetable) \cup HeldBy(ex[p].pagetable)
Owns(p) == (IF proc[p].trapframe = 0 THEN 0 ELSE 1) + Len(ex[p].argv)
              + Holds(proc[p].pagetable) + Holds(ex[p].pagetable)

\* Type invariant.
TypeOK ==
    LET table(pt) == /\ pt.root \in 0..NFrame /\ Range(pt.dir) \subseteq Frame
                     /\ DOMAIN pt.dir \subseteq ToSet(TableNames)
                     /\ DOMAIN pt.leaf \subseteq 0..(MAXVA - 1)
    IN  /\ freelist \in Seq(Frame) /\ panicked \in BOOLEAN
        /\ \A p \in Proc :
             /\ proc[p].state \in {"unused", "alive", "zombie"} /\ proc[p].parent \in 0..NProc
             /\ proc[p].trapframe \in 0..NFrame /\ proc[p].sz \in 0..(WORD - 1)
             /\ ex[p].at \in {"user", "args", "failed", "load"} /\ ex[p].sz \in 0..(WORD - 1)
             /\ ex[p].argv \in Seq(Frame)
             /\ table(proc[p].pagetable) /\ table(ex[p].pagetable)

\* Every page of physical memory is on the free list, a trap frame, an exec()
\* argument page, a page-table page or a user page: exactly one of these, and
\* once (all pages are found, in as many places as there are pages).  So no
\* error path of fork(), exec() or sbrk() loses a page, frees one twice or
\* leaves it mapped in two address spaces.
FramesExact ==
    /\ TypeOK
    /\ Frame = (ToSet(freelist) \cup UNION {Owned(p) : p \in Proc}) \ {0}
    /\ NFrame = Len(freelist) + FoldFunction(+, 0, [p \in Proc |-> Owns(p)])

\* The user pages of every address space, one under construction by exec()
\* included, are those below its size, without a hole and without one more,
\* the trap frame page is mapped where the trampoline expects it, and none of
\* the panics of vm.c that a wrong size leads to has been reached: no remap,
\* no unmap of a page that is not there, no leaf left for freewalk(), no
\* segment page missing, no address beyond MAXVA.
SizeExact ==
    /\ ~panicked
    /\ \A p \in Proc :
        LET exact(pt, sz) ==
              pt # NoTable =>
                /\ DOMAIN pt.leaf = (0..(PGROUNDUP(sz) - 1)) \cup {TRAMPOLINE, TRAPFRAME}
                /\ pt.leaf[TRAPFRAME].pa = proc[p].trapframe
        IN  exact(proc[p].pagetable, proc[p].sz) /\ exact(ex[p].pagetable, ex[p].sz)

\* A process changes to another page table only with a complete image: the
\* size is whole pages, the top pages are a writable stack, and the page below
\* them is the guard no user access gets through.
ExecAllOrNothing ==
    [][\A p \in Proc :
         proc[p].state = "alive" /\ proc'[p].pagetable.root # proc[p].pagetable.root
           => LET pt == proc'[p].pagetable
                  top == proc'[p].sz \div PG
              IN  /\ proc'[p].sz % PG = 0
                  /\ \A va \in (top - USERSTACK)..(top - 1) : Copyout(pt, va)
                  /\ ~Walkaddr(pt, top - USERSTACK - 1)]_vars
=============================================================================
