----------------------------- MODULE FileSystem -----------------------------
(***************************************************************************)
(* Inodes, directories, path names, open files (kernel/fs.c, file.c,       *)
(* sysfile.c) above the log.  disk is what the log makes of the inode,     *)
(* bitmap, indirect and directory blocks; stable is what of it has been    *)
(* committed (module LogSpec: one step, while no call is under way) and    *)
(* all that a crash leaves.                                                *)
(*                                                                         *)
(* A step reaches from one ilock(), critical section or begin_op() to the  *)
(* next: what a process does between two of them touches only inodes it    *)
(* has locked and single buffers.  iget() finds a table entry by inode     *)
(* number under itable.lock, so an inode has one entry and the entries are *)
(* named by inode number here.                                             *)
(***************************************************************************)
EXTENDS Integers, Sequences, FiniteSets, FiniteSetsExt

CONSTANTS
    Proc, None,
    NInode,              \* inodes of the file system, 1 is the root
    NBlock,              \* data blocks
    NFILE,               \* entries of the open-file table
    NDIRECT, NINDIRECT,  \* direct and indirect addresses of an inode
    DPB,                 \* directory entries in a block
    Name,                \* file names
    PathCalls,           \* <<call, path, second path>>: what the programs call,
                         \* a path being [abs, elem]
    Calls,               \* the calls without a path they make
    MaxOps,              \* bound: calls made
    MaxCrash             \* bound: crashes

ASSUME FSAssumption ==
    /\ IsFiniteSet(Proc) /\ Proc # {} /\ None \notin Proc
    /\ NInode \in Nat \ (0 .. 2) /\ NBlock \in Nat \ (0 .. 2) /\ NFILE \in Nat \ {0}
    /\ {"a", "b"} \subseteq Name
    /\ NDIRECT \in Nat \ {0} /\ NINDIRECT \in Nat \ {0} /\ DPB \in Nat \ (0 .. 2)
    /\ \A c \in PathCalls :
         /\ c[1] \in {"open", "creat", "mkdir", "mknod", "chdir", "unlink", "link"}
         /\ {c[2], c[3]} \subseteq [abs : BOOLEAN, elem : Seq(Name \cup {".", ".."})]

VARIABLES
    disk, stable,
    itable,     \* the in-memory inodes
    file,       \* the open-file table
    ofile,      \* the process's only descriptor: an index of file, or 0
    cwd,        \* current directory; 0 for a process that does not exist
    loc,        \* the system call a process is in and its local variables
    todo,       \* iunlock() and iput() calls the process makes next
    panic,      \* the kernel has stopped in panic()
    spoiled,    \* history: an entry was made in a directory without links
    ops, crashes

vars == <<disk, stable, itable, file, ofile, cwd, loc, todo, panic, spoiled, ops, crashes>>

ROOTINO == 1
Inode == 1 .. NInode
Block == 1 .. NBlock
File == 1 .. NFILE
MAXFILE == NDIRECT + NINDIRECT

-----------------------------------------------------------------------------
(* What is on the disk.                                                    *)

Zero == [k \in 0 .. NINDIRECT - 1 |-> 0]

\* What a program may have written into a data block.
Junk == [k \in 0 .. NINDIRECT - 1 |-> 1]

\* struct dinode.  size counts the entries of a directory and the blocks of a file.
Dinode(type, nlink) ==
    [type |-> type, nlink |-> nlink, size |-> 0, addrs |-> [k \in 0 .. NDIRECT |-> 0]]

\* A directory entry; inum 0 marks an empty one.
De(name, inum) == [name |-> name, inum |-> inum]
NoDe == De("", 0)

FreeBlocks(d) == Block \ d.used

\* Mutant of Balloc: the block is not zeroed.
MutBalloc(d) ==
    IF FreeBlocks(d) = {} THEN [d |-> d, b |-> 0]
    ELSE LET b == Min(FreeBlocks(d)) IN [b |-> b, d |-> [d EXCEPT !.used = @ \cup {b}]]

\* balloc(): the first free block, zeroed, or 0.
Balloc(d) ==
    IF FreeBlocks(d) = {} THEN [d |-> d, b |-> 0]
    ELSE LET b == Min(FreeBlocks(d))
         IN  [b |-> b, d |-> [d EXCEPT !.used = @ \cup {b}, !.ind[b] = Zero]]

\* An address of the inode itself, and one taken from r, what balloc() returned,
\* if it is not there.
Filled(ip, k, r) == [ip |-> [ip EXCEPT !.addrs[k] = r.b], d |-> r.d, b |-> r.b]
InodeAddr(ip, d, k) ==
    IF ip.addrs[k] # 0 THEN [ip |-> ip, d |-> d, b |-> ip.addrs[k]]
    ELSE Filled(ip, k, Balloc(d))

\* An address of the indirect block that h leads to.
IndirectAddr(h, j) ==
    LET r == Balloc(h.d)
    IN  IF h.b = 0 THEN h
        ELSE IF h.d.ind[h.b][j] # 0 THEN [h EXCEPT !.b = h.d.ind[h.b][j]]
        ELSE [h EXCEPT !.b = r.b, !.d = [r.d EXCEPT !.ind[h.b][j] = r.b]]

\* bmap(): the inode, the disk and the address (0: out of blocks).
Bmap(ip, d, bn) ==
    IF bn < NDIRECT THEN InodeAddr(ip, d, bn)
    ELSE IndirectAddr(InodeAddr(ip, d, NDIRECT), bn - NDIRECT)

\* The blocks of an inode, its indirect block included.
BlocksOf(ip, d) ==
    LET h == ip.addrs[NDIRECT]
    IN  ({ip.addrs[k] : k \in 0 .. NDIRECT}
           \cup (IF h = 0 THEN {} ELSE {d.ind[h][j] : j \in DOMAIN Zero})) \ {0}

\* The bitmap after itrunc()'s bfree() of every block.
Truncated(ip, d) == [d EXCEPT !.used = @ \ BlocksOf(ip, d)]

\* itrunc() and the iupdate() that follows, the inode being of this type then.
Itrunc(i, ip, d, type) ==
    LET e == Dinode(type, ip.nlink)
    IN  [ip |-> e, d |-> [Truncated(ip, d) EXCEPT !.di[i] = e, !.ents[i] = << >>]]

\* readi() of one unit at off: what it returns.
Readi(ip, off) == IF off < ip.size THEN 1 ELSE 0

\* writei() of one unit at off, per units to a block; good: copyin() succeeds.
\* r is what bmap() returned; the inode is written back in any case.
Written(i, ip, off, good, r) ==
    LET ok  == r.b # 0 /\ good
        new == IF ok /\ off >= ip.size THEN [r.ip EXCEPT !.size = off + 1] ELSE r.ip
    IN  [ok |-> ok, ip |-> new, b |-> r.b, d |-> [r.d EXCEPT !.di[i] = new]]
Writei(i, ip, d, off, per, good) ==
    IF off \div per >= MAXFILE THEN [ok |-> FALSE, ip |-> ip, d |-> d, b |-> 0]
    ELSE Written(i, ip, off, good, Bmap(ip, d, off \div per))

\* dirlookup(): the offsets (from 1) of the entries with the name, one at most.
DirLookup(d, i, name) ==
    {k \in 1 .. Len(d.ents[i]) : d.ents[i][k].inum # 0 /\ d.ents[i][k].name = name}

\* dirlink() of a name that is not there: the first empty entry, or the end.
FirstEmpty(e) == Min({k \in 1 .. Len(e) : e[k].inum = 0} \cup {Len(e) + 1})
EntryWritten(i, de, k, w) ==
    IF ~w.ok THEN w
    ELSE [w EXCEPT !.d.ents[i] = [j \in 1 .. Len(@) \cup {k} |-> IF j = k THEN de ELSE @[j]]]
DirLink(i, ip, d, name, inum) ==
    LET k == FirstEmpty(d.ents[i])
    IN  EntryWritten(i, De(name, inum), k, Writei(i, ip, d, k - 1, DPB, TRUE))

\* isdirempty()
IsDirEmpty(d, i) == \A k \in 3 .. Len(d.ents[i]) : d.ents[i][k].inum = 0

-----------------------------------------------------------------------------
(* What is in memory.                                                      *)

\* iget(): idup() if the inode is in the table, an entry still to be read if not.
Iget(t, i) ==
    IF t[i].ref > 0 THEN [t EXCEPT ![i].ref = @ + 1]
    ELSE [t EXCEPT ![i].ref = 1, ![i].valid = FALSE]

\* The inode as ilock() leaves it in memory, and an entry with such a copy.
Ilocked(i) == IF itable[i].valid THEN itable[i].d ELSE disk.di[i]
Entry(t, i, ip, holder) == [t EXCEPT ![i].d = ip, ![i].valid = TRUE, ![i].lock = holder]

\* namex()'s first inode.
Start(q, p) == IF q.abs THEN ROOTINO ELSE cwd[p]

Idle == [fn |-> "none", at |-> "none", path |-> << >>, new |-> [abs |-> TRUE, elem |-> << >>],
         ip |-> 0, keep |-> 0]

\* A free entry of the open-file table.
NoFile == [ref |-> 0, ip |-> 0, off |-> 0, w |-> FALSE]

\* begin_op() has been called, and end_op() has not.
InOp(p) == loc[p].at \notin {"none", "close"}

\* The call runs and has no iunlock() or iput() left to do first.
At(p, stage) == ~panic /\ loc[p].at = stage /\ todo[p] = << >>

Put(i) == [op |-> "put", i |-> i]
Unlock(i) == [op |-> "unlock", i |-> i]

\* The process gets the lock of loc[p].ip, which it must wait for and which
\* must not be the lock of a free inode (NoType).
NoType(i) == ~itable[i].valid /\ disk.di[i].type = "free"
Locks(p, stage) ==
    /\ At(p, stage)
    /\ itable[loc[p].ip].lock = None
    /\ ~NoType(loc[p].ip)

\* p goes on at another stage, or ends the call, after these calls.
Goto(p, stage, ip, keep, calls) ==
    /\ loc' = [loc EXCEPT ![p].at = stage, ![p].ip = ip, ![p].keep = keep]
    /\ todo' = [todo EXCEPT ![p] = calls]
End(p, calls) == Goto(p, "end", 0, 0, calls)

rest == <<file, ofile, cwd, panic, spoiled, ops, crashes, stable>>

\* A directory's entries, and a directory that has its entries in block b.
DirEntries(i, up, more) == << De(".", i), De("..", up) >> \o more
DirInode(nlink, size, b) == [Dinode("dir", nlink) EXCEPT !.size = size, !.addrs[0] = b]

\* A small tree some programs have built, the directory /a and in it b, a file
\* or a directory.
FirstDisk(b) ==
    [di   |-> [i \in Inode |->
                CASE i = 1 -> DirInode(2, 3, 1)
                  [] i = 2 -> DirInode(IF b = "dir" THEN 2 ELSE 1, 3, 2)
                  [] i = 3 -> IF b = "dir" THEN DirInode(1, 2, 3) ELSE Dinode("file", 1)
                  [] i > 3 -> Dinode("free", 0)],
     ents |-> [i \in Inode |->
                CASE i = 1 -> DirEntries(1, 1, << De("a", 2) >>)
                  [] i = 2 -> DirEntries(2, 1, << De("b", 3) >>)
                  [] i = 3 -> IF b = "dir" THEN DirEntries(3, 2, << >>) ELSE << >>
                  [] i > 3 -> << >>],
     used |-> IF b = "dir" THEN {1, 2, 3} ELSE {1, 2},
     ind  |-> [k \in Block |-> Junk]]

\* Processes forked from one that is in the directory at of that tree and may
\* have the file open, all of them in user mode.
InitAt(b, at, open) ==
    /\ disk = FirstDisk(b) /\ stable = disk
    /\ cwd = [p \in Proc |-> at]
    /\ ofile = [p \in Proc |-> IF open THEN 1 ELSE 0]
    /\ file = [f \in File |-> IF open /\ f = 1
                               THEN [ref |-> Cardinality(Proc), ip |-> 3, off |-> 0, w |-> TRUE]
                               ELSE NoFile]
    /\ itable = [i \in Inode |->
                  [ref |-> (IF i = at THEN Cardinality(Proc) ELSE 0)
                             + (IF open /\ i = 3 THEN 1 ELSE 0),
                   valid |-> FALSE, lock |-> None, d |-> Dinode("free", 0)]]
    /\ loc = [p \in Proc |-> Idle]
    /\ todo = [p \in Proc |-> << >>]
    /\ panic = FALSE /\ spoiled = FALSE
    /\ ops = 0 /\ crashes = 0
Init ==
    \E b \in {"file", "dir"}, at \in {1, 2, 3}, open \in BOOLEAN :
      /\ at = 3 => b = "dir"
      /\ open => b = "file"
      /\ InitAt(b, at, open)

\* A process that runs enters a call.
Enters(p) ==
    /\ ops < MaxOps /\ At(p, "none") /\ cwd[p] # 0
    /\ ops' = ops + 1

\* A call with a path: begin_op(), argstr() and namex()'s first inode.
PathCall(p, fn, q, new) ==
    /\ Enters(p)
    /\ itable' = Iget(itable, Start(q, p))
    /\ loc' = [loc EXCEPT ![p] = [fn |-> fn, at |-> "walk", path |-> q.elem, new |-> new,
                                  ip |-> Start(q, p), keep |-> 0]]
    /\ UNCHANGED <<disk, stable, file, ofile, cwd, todo, panic, spoiled, crashes>>

-----------------------------------------------------------------------------
(* iput(), iunlock() and end_op().                                         *)

\* The next of todo[p] is this operation; it becomes another one or is done.
Doing(p, op) == ~panic /\ todo[p] # << >> /\ Head(todo[p]).op = op
Becomes(p, op) == todo' = [todo EXCEPT ![p] = << [op |-> op, i |-> Head(@).i] >> \o Tail(@)]
Finishes(p) == todo' = [todo EXCEPT ![p] = Tail(@)]

IUnlock(p) ==
    /\ Doing(p, "unlock")
    /\ itable' = [itable EXCEPT ![Head(todo[p]).i].lock = None]
    /\ Finishes(p)
    /\ UNCHANGED <<disk, loc, rest>>

\* Mutant of LastPut: other references are not looked at.
MutLastPut(i) == itable[i].valid /\ itable[i].d.nlink = 0

\* iput()'s test.
LastPut(i) == itable[i].ref = 1 /\ itable[i].valid /\ itable[i].d.nlink = 0

\* iput() up to the release of itable.lock.  It takes the inode's lock without
\* waiting: with itable.lock held it could not sleep.
IPut(p) ==
    /\ Doing(p, "put")
    /\ LET i == Head(todo[p]).i
       IN  \/ LastPut(i) /\ itable[i].lock = None
              /\ itable' = [itable EXCEPT ![i].lock = p] /\ Becomes(p, "free")
           \/ ~LastPut(i)
              /\ itable' = [itable EXCEPT ![i].ref = @ - 1] /\ Finishes(p)
    /\ UNCHANGED <<disk, loc, rest>>

\* itrunc(), type = 0 and iupdate(): the inode is free on the disk.
IPutFree(p) ==
    /\ Doing(p, "free")
    /\ LET i == Head(todo[p]).i
           r == Itrunc(i, itable[i].d, disk, "free")
       IN  disk' = r.d /\ itable' = [itable EXCEPT ![i].d = r.ip]
    /\ Becomes(p, "freed")
    /\ UNCHANGED <<loc, rest>>


\* valid = 0 and releasesleep().
Invalidated(i) == [itable EXCEPT ![i].valid = FALSE, ![i].lock = None]

IPutInvalid(p) ==
    /\ Doing(p, "freed")
    /\ itable' = Invalidated(Head(todo[p]).i)
    /\ Becomes(p, "drop")
    /\ UNCHANGED <<disk, loc, rest>>

IPutDrop(p) ==
    /\ Doing(p, "drop")
    /\ itable' = [itable EXCEPT ![Head(todo[p]).i].ref = @ - 1]
    /\ Finishes(p)
    /\ UNCHANGED <<disk, loc, rest>>

\* Mutant of Commits: every end_op() commits.
MutCommits(p) == TRUE

\* end_op(): the last call under way commits.
Commits(p) == \A q \in Proc \ {p} : ~InOp(q)

EndOp(p) ==
    /\ At(p, "end")
    /\ loc' = [loc EXCEPT ![p] = Idle]
    /\ stable' = IF Commits(p) THEN disk ELSE stable
    /\ UNCHANGED <<disk, itable, file, ofile, cwd, todo, panic, spoiled, ops, crashes>>

-----------------------------------------------------------------------------
(* namex().                                                                *)

\* nameiparent() is asked for: not for link()'s first path.
WantsParent(p) ==
    loc[p].fn \in {"creat", "mkdir", "mknod", "unlink"} \/ loc[p].keep # 0

\* The caller gets 0: link() goes on to bad, the others return.
Fails(p, calls) ==
    IF loc[p].keep = 0 THEN End(p, calls) ELSE Goto(p, "bad", loc[p].keep, 0, calls)

\* Mutant of Found: the next inode is referenced only after the directory is put.
MutFound(t, n) == t

\* dirlookup()'s iget() of the entry it found.
Found(t, n) == Iget(t, n)

\* One pass of namex()'s loop: ilock(), the lookup, iunlock().
Walk(p) ==
    /\ Locks(p, "walk") /\ loc[p].path # << >>
    /\ LET i == loc[p].ip
           e == Ilocked(i)
           t == Entry(itable, i, e, None)
           k == DirLookup(disk, i, Head(loc[p].path))
           n == disk.ents[i][CHOOSE j \in k : TRUE].inum
       IN  \/ e.type # "dir" /\ itable' = t /\ Fails(p, << Put(i) >>)
           \/ /\ e.type = "dir" /\ WantsParent(p) /\ Len(loc[p].path) = 1
              /\ itable' = t
              /\ Goto(p, "parent", i, loc[p].keep, << >>)
           \/ /\ e.type = "dir" /\ ~(WantsParent(p) /\ Len(loc[p].path) = 1)
              /\ \/ k = {} /\ itable' = t /\ Fails(p, << Put(i) >>)
                 \/ /\ k # {}
                    /\ itable' = Found(t, n)
                    /\ loc' = [loc EXCEPT ![p].ip = n, ![p].path = Tail(@)]
                    /\ todo' = [todo EXCEPT ![p] = << Put(i) >>]
    /\ UNCHANGED <<disk, rest>>

\* A path without a last element has no parent.
WalkNoName(p) ==
    /\ At(p, "walk") /\ loc[p].path = << >> /\ WantsParent(p)
    /\ Fails(p, << Put(loc[p].ip) >>)
    /\ UNCHANGED <<disk, itable, rest>>

\* sys_unlink() has found an entry of an inode without links.
NoLink(p) ==
    loc[p].fn = "unlink" /\ loc[p].at = "child" /\ Ilocked(loc[p].ip).nlink < 1

\* ilock() finds a free inode, or sys_unlink() one without links.
Panic(p) ==
    /\ loc[p].at \in {"walk", "parent", "child", "exists", "new", "bad", "write"}
    /\ At(p, loc[p].at)
    /\ itable[loc[p].ip].lock = None
    /\ NoType(loc[p].ip) \/ NoLink(p)
    /\ panic' = TRUE
    /\ UNCHANGED <<disk, stable, itable, file, ofile, cwd, loc, todo, spoiled, ops, crashes>>

-----------------------------------------------------------------------------
(* sys_open() once it has the inode, sys_chdir() and sys_link().           *)

\* namei() has returned an inode, and the caller locks it.
Named(p, fn) == loc[p].fn = fn /\ loc[p].path = << >> /\ ~WantsParent(p) /\ Locks(p, "walk")

FreeFile == {f \in File : file[f].ref = 0}

\* sys_open() from the test of the device on, with the inode locked: filealloc()
\* and fdalloc() may fail, and fileclose() then gives an entry of no type back.
OpenInode(p, i, e) ==
    LET ok == e.type # "baddev" /\ FreeFile # {} /\ ofile[p] = 0
    IN  \/ /\ ~ok
           /\ itable' = Entry(itable, i, e, None) /\ End(p, << Put(i) >>)
           /\ UNCHANGED <<disk, file, ofile>>
        \/ \E w, trunc \in BOOLEAN :
             LET r == IF trunc /\ e.type = "file" THEN Itrunc(i, e, disk, e.type)
                      ELSE [ip |-> e, d |-> disk]
             IN  /\ ok /\ (e.type = "dir" => ~w /\ ~trunc)
                 /\ file' = [file EXCEPT ![Min(FreeFile)] =
                                [ref |-> 1, ip |-> i, off |-> 0, w |-> w]]
                 /\ ofile' = [ofile EXCEPT ![p] = Min(FreeFile)]
                 /\ itable' = Entry(itable, i, r.ip, None)
                 /\ disk' = r.d
                 /\ End(p, << >>)
        \/ \* a directory, not to be read only
           /\ e.type = "dir"
           /\ itable' = Entry(itable, i, e, None) /\ End(p, << Put(i) >>)
           /\ UNCHANGED <<disk, file, ofile>>

Open(p) ==
    /\ Named(p, "open")
    /\ OpenInode(p, loc[p].ip, Ilocked(loc[p].ip))
    /\ UNCHANGED <<stable, cwd, panic, spoiled, ops, crashes>>

\* open(O_CREATE) after create() made the inode and put the directory.
OpenCreated(p) ==
    /\ At(p, "opened")
    /\ OpenInode(p, loc[p].ip, itable[loc[p].ip].d)
    /\ UNCHANGED <<stable, cwd, panic, spoiled, ops, crashes>>

\* p->cwd is assigned after end_op() in the code, and read by p alone.
Chdir(p) ==
    /\ Named(p, "chdir")
    /\ LET i == loc[p].ip
           e == Ilocked(i)
       IN  /\ itable' = Entry(itable, i, e, None)
           /\ \/ e.type # "dir" /\ End(p, << Put(i) >>) /\ UNCHANGED cwd
              \/ /\ e.type = "dir"
                 /\ cwd' = [cwd EXCEPT ![p] = i]
                 /\ End(p, << Put(cwd[p]) >>)
    /\ UNCHANGED <<disk, stable, file, ofile, panic, spoiled, ops, crashes>>


\* ip->nlink++
Linked(e) == [e EXCEPT !.nlink = @ + 1]

\* sys_link() up to its second namex().
LinkOld(p) ==
    /\ Named(p, "link")
    /\ LET i == loc[p].ip
           e == Ilocked(i)
           n == Start(loc[p].new, p)
       IN  \/ /\ e.type = "dir"
              /\ itable' = Entry(itable, i, e, None) /\ End(p, << Put(i) >>)
              /\ UNCHANGED disk
           \/ /\ e.type # "dir"
              /\ itable' = Iget(Entry(itable, i, Linked(e), None), n)
              /\ disk' = [disk EXCEPT !.di[i] = Linked(e)]
              /\ loc' = [loc EXCEPT ![p].path = loc[p].new.elem, ![p].ip = n, ![p].keep = i]
              /\ UNCHANGED todo
    /\ UNCHANGED rest

\* The entry for the new name; dirlink() fails if the name is there or the
\* directory needs a block and there is none.
LinkNew(p) ==
    /\ loc[p].fn = "link" /\ Locks(p, "parent")
    /\ LET i == loc[p].ip
           e == Ilocked(i)
           k == DirLookup(disk, i, Head(loc[p].path))
           n == disk.ents[i][CHOOSE j \in k : TRUE].inum
           w == DirLink(i, e, disk, Head(loc[p].path), loc[p].keep)
       IN  \/ /\ k # {}
              /\ itable' = Iget(Entry(itable, i, e, p), n)
              /\ Fails(p, << Put(n), Unlock(i), Put(i) >>)
              /\ UNCHANGED <<disk, spoiled>>
           \/ /\ k = {}
              /\ disk' = w.d /\ itable' = Entry(itable, i, w.ip, None)
              /\ spoiled' = (spoiled \/ (w.ok /\ e.nlink = 0))
              /\ IF w.ok THEN End(p, << Put(i), Put(loc[p].keep) >>) ELSE Fails(p, << Put(i) >>)
    /\ UNCHANGED <<stable, file, ofile, cwd, panic, ops, crashes>>

\* sys_link()'s bad.
LinkBad(p) ==
    /\ Locks(p, "bad")
    /\ LET i == loc[p].ip
           e == [Ilocked(i) EXCEPT !.nlink = @ - 1]
       IN  /\ itable' = Entry(itable, i, e, None)
           /\ disk' = [disk EXCEPT !.di[i] = e]
           /\ End(p, << Put(i) >>)
    /\ UNCHANGED rest

-----------------------------------------------------------------------------
(* sys_unlink().                                                           *)

\* The directory is locked and the entry looked up.
UnlinkParent(p) ==
    /\ loc[p].fn = "unlink" /\ Locks(p, "parent")
    /\ LET i == loc[p].ip
           e == Ilocked(i)
           name == Head(loc[p].path)
           k == DirLookup(disk, i, name)
           n == disk.ents[i][CHOOSE j \in k : TRUE].inum
       IN  \/ /\ name \in {".", ".."} \/ k = {}
              /\ itable' = Entry(itable, i, e, None) /\ End(p, << Put(i) >>)
           \/ /\ name \notin {".", ".."} /\ k # {}
              /\ itable' = Iget(Entry(itable, i, e, p), n)
              /\ Goto(p, "child", n, i, << >>)
    /\ UNCHANGED <<disk, rest>>

NotEmpty(e, i) == e.type = "dir" /\ ~IsDirEmpty(disk, i)

\* The inode is locked as well: the entry goes, and with a directory its "..".
UnlinkChild(p) ==
    /\ loc[p].fn = "unlink" /\ Locks(p, "child") /\ ~NoLink(p)
    /\ LET i  == loc[p].ip
           dp == loc[p].keep
           e  == Ilocked(i)
           k  == CHOOSE j \in DirLookup(disk, dp, Head(loc[p].path)) : TRUE
           up == [itable[dp].d EXCEPT !.nlink = IF e.type = "dir" THEN @ - 1 ELSE @]
       IN  \/ /\ NotEmpty(e, i)
              /\ itable' = Entry(itable, i, e, None)
              /\ End(p, << Put(i), Unlock(dp), Put(dp) >>)
              /\ UNCHANGED disk
           \/ /\ ~NotEmpty(e, i)
              /\ disk' = [disk EXCEPT !.ents[dp][k] = NoDe, !.di[dp] = up]
              /\ itable' = Entry(Entry(itable, i, e, p), dp, up, None)
              /\ Goto(p, "unlinked", i, 0, << Put(dp) >>)
    /\ UNCHANGED rest

\* The end of sys_unlink(), the directory put: ip->nlink--.
Unlinked(p) ==
    /\ At(p, "unlinked")
    /\ LET i == loc[p].ip
           e == [itable[i].d EXCEPT !.nlink = @ - 1]
       IN  /\ itable' = Entry(itable, i, e, None)
           /\ disk' = [disk EXCEPT !.di[i] = e]
           /\ End(p, << Put(i) >>)
    /\ UNCHANGED rest

-----------------------------------------------------------------------------
(* create(): open(O_CREATE), mkdir, mknod.                                 *)

TypeOf == [creat |-> {"file"}, mkdir |-> {"dir"}, mknod |-> {"dev", "baddev"}]
FreeInodes == {i \in Inode : disk.di[i].type = "free"}

\* The directory is locked: the name is there, or ialloc() finds an inode or none.
CreateParent(p) ==
    /\ loc[p].fn \in DOMAIN TypeOf /\ Locks(p, "parent")
    /\ LET i == loc[p].ip
           e == Ilocked(i)
           k == DirLookup(disk, i, Head(loc[p].path))
           n == disk.ents[i][CHOOSE j \in k : TRUE].inum
       IN  \/ /\ k # {}
              /\ itable' = Iget(Entry(itable, i, e, None), n)
              /\ Goto(p, "exists", n, 0, << Put(i) >>)
              /\ UNCHANGED disk
           \/ /\ k = {} /\ FreeInodes = {}
              /\ itable' = Entry(itable, i, e, None) /\ End(p, << Put(i) >>)
              /\ UNCHANGED disk
           \/ /\ k = {} /\ FreeInodes # {}
              /\ \E type \in TypeOf[loc[p].fn] :
                   disk' = [disk EXCEPT !.di[Min(FreeInodes)] = Dinode(type, 0)]
              /\ itable' = Iget(Entry(itable, i, e, p), Min(FreeInodes))
              /\ Goto(p, "new", Min(FreeInodes), i, << >>)
    /\ UNCHANGED rest

\* The name is there: only open(O_CREATE) of a file or device goes on.
CreateExists(p) ==
    /\ Locks(p, "exists")
    /\ LET i == loc[p].ip
           e == Ilocked(i)
       IN  \/ /\ loc[p].fn = "creat" /\ e.type # "dir" /\ OpenInode(p, i, e)
           \/ /\ loc[p].fn # "creat" \/ e.type = "dir"
              /\ itable' = Entry(itable, i, e, None) /\ End(p, << Put(i) >>)
              /\ UNCHANGED <<disk, file, ofile>>
    /\ UNCHANGED <<stable, cwd, panic, spoiled, ops, crashes>>

\* "something went wrong. de-allocate ip."
CreateFails(e) == [e EXCEPT !.nlink = 0]

\* "." and ".." of the new directory i in up, ".." only after "." went well.
DotDot(i, up, w) == IF w.ok THEN DirLink(i, w.ip, w.d, "..", up) ELSE w
Dots(i, e, d, up) == DotDot(i, up, DirLink(i, e, d, ".", i))

\* The new inode is locked, too: "." and "..", then the entry, each of which
\* may need a block.
CreateNew(p) ==
    /\ Locks(p, "new")
    /\ LET i   == loc[p].ip
           dp  == loc[p].keep
           dir == loc[p].fn = "mkdir"
           e   == [Ilocked(i) EXCEPT !.nlink = 1]
           d0  == [disk EXCEPT !.di[i] = e]
       IN  \E dots \in {IF dir THEN Dots(i, e, d0, dp) ELSE [ok |-> TRUE, ip |-> e, d |-> d0]} :
           \E w \in {IF dots.ok THEN DirLink(dp, itable[dp].d, dots.d, Head(loc[p].path), i)
                     ELSE [ok |-> FALSE, ip |-> itable[dp].d, d |-> dots.d]} :
             LET up == [w.ip EXCEPT !.nlink = IF dir THEN @ + 1 ELSE @]
                 e0 == CreateFails(dots.ip)
             IN  \/ /\ w.ok
                    /\ disk' = [w.d EXCEPT !.di[dp] = up]
                    /\ itable' = Entry(Entry(itable, i, dots.ip, p), dp, up, None)
                    /\ spoiled' = (spoiled \/ w.ip.nlink = 0)
                    /\ IF loc[p].fn = "creat" THEN Goto(p, "opened", i, 0, << Put(dp) >>)
                       ELSE End(p, << Put(dp), Unlock(i), Put(i) >>)
                 \/ /\ ~w.ok
                    /\ disk' = [w.d EXCEPT !.di[i] = e0]
                    /\ itable' = Entry(Entry(itable, i, e0, None), dp, w.ip, p)
                    /\ End(p, << Put(i), Unlock(dp), Put(dp) >>)
                    /\ UNCHANGED spoiled
    /\ UNCHANGED <<stable, file, ofile, cwd, panic, ops, crashes>>

-----------------------------------------------------------------------------
(* Open files, fork() and exit().                                          *)

\* fileread() and filestat(): under the inode's lock, in no transaction.
FileRead(p) ==
    LET f == ofile[p]
        i == file[f].ip
        e == Ilocked(i)
    IN  /\ "read" \in Calls /\ Enters(p) /\ f # 0
        /\ itable[i].lock = None /\ ~NoType(i)
        /\ itable' = Entry(itable, i, e, None)
        /\ file' = [file EXCEPT ![f].off = @ + Readi(e, @)]
        /\ UNCHANGED <<disk, stable, ofile, cwd, loc, todo, panic, spoiled, crashes>>

\* filewrite(): a transaction of its own for every piece that fits the log.
FileWriteBegin(p) ==
    LET f == ofile[p]
    IN  /\ "write" \in Calls /\ Enters(p) /\ f # 0
        /\ file[f].w /\ disk.di[file[f].ip].type = "file"
        /\ loc' = [loc EXCEPT ![p] = [Idle EXCEPT !.fn = "write", !.at = "write",
                                                  !.ip = file[f].ip]]
        /\ UNCHANGED <<disk, stable, itable, file, ofile, cwd, todo, panic, spoiled, crashes>>

FileWrite(p) ==
    /\ Locks(p, "write")
    /\ LET i == loc[p].ip
           f == ofile[p]
           e == Ilocked(i)
       IN  \E good \in BOOLEAN :
             LET w == IF file[f].off > e.size THEN [ok |-> FALSE, ip |-> e, d |-> disk, b |-> 0]
                      ELSE Writei(i, e, disk, file[f].off, 1, good)
             IN  /\ disk' = IF w.ok THEN [w.d EXCEPT !.ind[w.b] = Junk] ELSE w.d
                 /\ itable' = Entry(itable, i, w.ip, None)
                 /\ file' = [file EXCEPT ![f].off = IF w.ok THEN @ + 1 ELSE @]
                 /\ End(p, << >>)
    /\ UNCHANGED <<stable, ofile, cwd, panic, spoiled, ops, crashes>>

\* sys_close() and fileclose() up to begin_op(): the last close frees the entry
\* and keeps the inode's reference in ff.
FileClose(p) ==
    LET f == ofile[p]
    IN  /\ "close" \in Calls /\ Enters(p) /\ f # 0
        /\ ofile' = [ofile EXCEPT ![p] = 0]
        /\ \/ /\ file[f].ref > 1
              /\ file' = [file EXCEPT ![f].ref = @ - 1]
              /\ UNCHANGED loc
           \/ /\ file[f].ref = 1
              /\ file' = [file EXCEPT ![f] = NoFile]
              /\ loc' = [loc EXCEPT ![p] = [Idle EXCEPT !.fn = "close", !.at = "close",
                                                        !.ip = file[f].ip]]
        /\ UNCHANGED <<disk, stable, itable, cwd, todo, panic, spoiled, crashes>>

FileClosePut(p) ==
    /\ At(p, "close")
    /\ End(p, << Put(loc[p].ip) >>)
    /\ UNCHANGED <<disk, itable, rest>>

\* fork(): filedup() of the open files and idup() of the current directory.
Fork(p, q) ==
    /\ "fork" \in Calls /\ Enters(p) /\ cwd[q] = 0 /\ loc[q] = Idle
    /\ cwd' = [cwd EXCEPT ![q] = cwd[p]]
    /\ itable' = Iget(itable, cwd[p])
    /\ ofile' = [ofile EXCEPT ![q] = ofile[p]]
    /\ file' = [f \in File |-> IF f = ofile[p] THEN [file[f] EXCEPT !.ref = @ + 1] ELSE file[f]]
    /\ UNCHANGED <<disk, stable, loc, todo, panic, spoiled, crashes>>

\* exit() after it has closed the files: iput(p->cwd) in a transaction.
Exit(p) ==
    /\ "exit" \in Calls /\ Enters(p) /\ ofile[p] = 0
    /\ \E q \in Proc \ {p} : cwd[q] # 0
    /\ cwd' = [cwd EXCEPT ![p] = 0]
    /\ loc' = [loc EXCEPT ![p] = [Idle EXCEPT !.fn = "exit", !.at = "end"]]
    /\ todo' = [todo EXCEPT ![p] = << Put(cwd[p]) >>]
    /\ UNCHANGED <<disk, stable, itable, file, ofile, panic, spoiled, crashes>>

\* The machine stops and starts again: recovery leaves the committed state.
Crash ==
    /\ crashes < MaxCrash /\ crashes' = crashes + 1
    /\ disk' = stable
    /\ itable' = [i \in Inode |-> [ref |-> IF i = ROOTINO THEN Cardinality(Proc) ELSE 0,
                                    valid |-> FALSE, lock |-> None, d |-> Dinode("free", 0)]]
    /\ file' = [f \in File |-> NoFile]
    /\ ofile' = [p \in Proc |-> 0]
    /\ cwd' = [p \in Proc |-> ROOTINO]
    /\ loc' = [p \in Proc |-> Idle]
    /\ todo' = [p \in Proc |-> << >>]
    /\ panic' = FALSE
    /\ UNCHANGED <<stable, spoiled, ops>>

\* Nothing is left to do: so that a deadlock is one.
Terminated ==
    /\ panic \/ \A p \in Proc : loc[p] = Idle
    /\ UNCHANGED vars

Next ==
    \/ \E p \in Proc :
         \/ \E c \in PathCalls : PathCall(p, c[1], c[2], c[3])
         \/ IUnlock(p) \/ IPut(p) \/ IPutFree(p) \/ IPutInvalid(p) \/ IPutDrop(p)
         \/ EndOp(p) \/ Walk(p) \/ WalkNoName(p) \/ Panic(p)
         \/ Open(p) \/ OpenCreated(p) \/ Chdir(p)
         \/ LinkOld(p) \/ LinkNew(p) \/ LinkBad(p)
         \/ UnlinkParent(p) \/ UnlinkChild(p) \/ Unlinked(p)
         \/ CreateParent(p) \/ CreateExists(p) \/ CreateNew(p)
         \/ FileRead(p) \/ FileWriteBegin(p) \/ FileWrite(p)
         \/ FileClose(p) \/ FileClosePut(p) \/ Exit(p)
         \/ \E q \in Proc \ {p} : Fork(p, q)
    \/ Crash \/ Terminated

Spec == Init /\ [][Next]_vars

-----------------------------------------------------------------------------
\* Type invariant; that no count becomes negative is a promise of the code.
TypeOK ==
    LET dinode == [type : {"free", "file", "dir", "dev", "baddev"}, nlink : Nat,
                   size : 0 .. MAXFILE * DPB, addrs : [0 .. NDIRECT -> 0 .. NBlock]]
        dirent == [name : Name \cup {".", "..", ""}, inum : 0 .. NInode]
    IN  /\ \A d \in {disk, stable} :
             d.di \in [Inode -> dinode] /\ d.used \subseteq Block
             /\ d.ents \in [Inode -> Seq(dirent)]
        /\ itable \in [Inode -> [ref : Nat, valid : BOOLEAN, lock : Proc \cup {None},
                                 d : dinode]]
        /\ file \in [File -> [ref : Nat, ip : 0 .. NInode, off : 0 .. MAXFILE * DPB,
                              w : BOOLEAN]]
        /\ ofile \in [Proc -> 0 .. NFILE] /\ cwd \in [Proc -> 0 .. NInode]

Is(x, i) == IF x = i THEN 1 ELSE 0

\* The iput() calls among these that still have to give back a reference to i.
Puts(calls, i) == Cardinality({k \in 1 .. Len(calls) : calls[k].op # "unlock" /\ calls[k].i = i})

\* How many pointers to an inode a process has: its current directory and the
\* local variables of the call it is in (a write uses the open file's pointer).
Held(p, i) ==
    Puts(todo[p], i) + (IF loc[p].fn = "write" THEN 0 ELSE Is(loc[p].ip, i))
      + Is(loc[p].keep, i) + Is(cwd[p], i)

\* All of them, numbered for each process, and the open files of the inode.
Pointers(i) == UNION {{p} \X (1 .. Held(p, i)) : p \in Proc}
OpenFiles(i) == {f \in File : file[f].ip = i}

(***************************************************************************)
(* "ip->ref tracks the number of in-memory pointers to the entry": on      *)
(* every path through the calls, failures included, no reference is lost   *)
(* and none is given back twice; and an open file is open in as many       *)
(* processes as its own count says.                                        *)
(***************************************************************************)
RefExact ==
    /\ \A i \in Inode :
         itable[i].ref = Cardinality(Pointers(i)) + Cardinality(OpenFiles(i))
    /\ \A f \in File : file[f].ref = Cardinality({p \in Proc : ofile[p] = f})

\* iput() has freed the inode on the disk and not yet given up its copy.
Freed(s, i) == s # << >> /\ s[1].op = "freed" /\ s[1].i = i

(***************************************************************************)
(* "the information (type, size, &c) in an inode table entry is only       *)
(* correct when ip->valid is 1": then it is what the disk has, of an       *)
(* allocated inode, whoever changed it last; only iput() has a copy that   *)
(* it is about to give up.                                                 *)
(***************************************************************************)
MemoryExact ==
    \A i \in Inode : itable[i].valid =>
      \/ itable[i].d = disk.di[i] /\ disk.di[i].type # "free"
      \/ \E p \in Proc : Freed(todo[p], i)

Allocated(d) == {i \in Inode : d.di[i].type # "free"}

(***************************************************************************)
(* The bitmap marks just the blocks that inodes own, and no block has two  *)
(* owners, on the disk as it is and as a crash leaves it.                  *)
(***************************************************************************)
BlocksExact ==
    \A d \in {disk, stable} :
      /\ d.used = UNION {BlocksOf(d.di[i], d) : i \in Allocated(d)}
      /\ \A i, j \in Allocated(d) :
           i # j => BlocksOf(d.di[i], d) \cap BlocksOf(d.di[j], d) = {}

\* Entries that count as links: all but "." and ".."; and a directory is
\* linked by the ".." of the directories in it, the root also by itself.
LinksTo(d, i) ==
    LET links == UNION {{j} \X {k \in 3 .. Len(d.ents[j]) : d.ents[j][k].inum = i} :
                          j \in Allocated(d)}
        subs  == {k \in 3 .. Len(d.ents[i]) :
                    /\ d.ents[i][k].inum # 0
                    /\ d.di[d.ents[i][k].inum].type = "dir"}
    IN  Cardinality(links) + Cardinality(subs) + (IF i = ROOTINO THEN 1 ELSE 0)


(***************************************************************************)
(* "Number of links to inode in file system" (struct dinode): what a crash *)
(* leaves has exact link counts, however the calls overlapped and whatever *)
(* failed in them, unless somebody has made an entry in a directory after  *)
(* it was removed.                                                         *)
(***************************************************************************)
LinksExact ==
    ~spoiled => \A i \in Allocated(stable) : LinksTo(stable, i) = stable.di[i].nlink

\* A directory that unlink() has removed and somebody still uses.
Removed(j) ==
    /\ disk.di[j].type = "dir" /\ j # ROOTINO
    /\ \A i \in Allocated(disk) : \A k \in 3 .. Len(disk.ents[i]) : disk.ents[i][k].inum # j


(***************************************************************************)
(* "ip->ref == 1 means no other process can have ip locked, so this        *)
(* acquiresleep() won't block (or deadlock)."                              *)
(***************************************************************************)
LastPutUnlocked ==
    \A p \in Proc : Doing(p, "put") /\ LastPut(Head(todo[p]).i) =>
        itable[Head(todo[p]).i].lock = None
=============================================================================
