------------------------- MODULE FileSystemProofs --------------------------
(***************************************************************************)
(* Reference counts, inode locks and block ownership of the file system,   *)
(* for any number of processes, inodes, blocks, open files, calls and      *)
(* crashes.                                                                *)
(*                                                                         *)
(* One inductive invariant, FSInv, carries the three results, because each *)
(* of them needs the others: that a pointer is counted once (RefExact)     *)
(* keeps an inode that somebody uses in the table; therefore the in-memory *)
(* copy of an inode is what the disk has (MemoryExact) except where iput() *)
(* is freeing it; therefore the blocks that bmap() and itrunc() take from  *)
(* the copy are those the disk gives to the inode (SlotsExact).  Who may   *)
(* change the copy is a matter of locks, and LocksExact says which calls   *)
(* hold one, and where in them.                                            *)
(***************************************************************************)
EXTENDS FileSystem, FiniteSetTheorems, FunctionTheorems, SequenceTheorems, NaturalsInduction, TLAPS

Elem == Name \cup {".", ".."}
PathT == [abs : BOOLEAN, elem : Seq(Elem)]
TypeT == {"free", "file", "dir", "dev", "baddev"}
FnT == {"none", "open", "creat", "mkdir", "mknod", "chdir", "unlink", "link", "write", "close",
        "exit"}
AtT == {"none", "walk", "parent", "child", "exists", "new", "unlinked", "opened", "bad", "write",
        "close", "end"}
DinodeT == [type : TypeT, nlink : Int, size : Int, addrs : [0 .. NDIRECT -> 0 .. NBlock]]
DirentT == [name : Elem \cup {""}, inum : 0 .. NInode]
IndT == [0 .. NINDIRECT - 1 -> 0 .. NBlock]
DiskT == [di : [Inode -> DinodeT], ents : [Inode -> Seq(DirentT)], used : SUBSET Block,
          ind : [Block -> IndT]]
EntryT == [ref : Int, valid : BOOLEAN, lock : Proc \cup {None}, d : DinodeT]
FileT == [ref : Int, ip : 0 .. NInode, off : Nat, w : BOOLEAN]
CallT == [op : {"put", "unlock", "free", "freed", "drop"}, i : Inode]
LocT == [fn : FnT, at : AtT, path : Seq(Elem), new : PathT, ip : 0 .. NInode,
         keep : 0 .. NInode]

FSType ==
    /\ disk \in DiskT /\ stable \in DiskT
    /\ itable \in [Inode -> EntryT]
    /\ file \in [File -> FileT]
    /\ ofile \in [Proc -> 0 .. NFILE] /\ cwd \in [Proc -> 0 .. NInode]
    /\ loc \in [Proc -> LocT]
    /\ todo \in [Proc -> Seq(CallT)]

\* An iunlock() is followed by the iput() of the same inode, and nothing more,
\* and only the first of the calls is in the middle of freeing an inode.
CallsOK(s) ==
    \A k \in 1 .. Len(s) :
      /\ s[k].op = "unlock" => k + 1 = Len(s) /\ s[k + 1] = Put(s[k].i)
      /\ k > 1 => s[k].op \in {"put", "unlock"}

\* Why a process has an inode locked between two of its steps: it unlocks it
\* next, it is freeing it, or it is create() or unlink() with the directory
\* (keep) or the new or removed inode (ip) locked.
Unlocks(s, i) == \E k \in 1 .. Len(s) : s[k] = Unlock(i)
Frees(s, i) == s # << >> /\ s[1].op \in {"free", "freed"} /\ s[1].i = i
KeepsLocked(l, i) ==
    \/ l.at \in {"child", "new"} /\ l.keep = i
    \/ l.at \in {"unlinked", "opened"} /\ l.ip = i
HasLocked(p, i) == Unlocks(todo[p], i) \/ Frees(todo[p], i) \/ KeepsLocked(loc[p], i)

\* Where a call is and which of its local variables are inodes there, s being
\* what it still has to put, c its current directory and f its descriptor.
StageOK(l, s, c, f) ==
    /\ l.at = "none" => s = << >>
    /\ l.at \in {"none", "end"} => l.ip = 0
    /\ l.at \notin {"none", "end"} => l.ip \in Inode /\ c # 0
    /\ l.at \in {"child", "new"} => l.keep \in Inode
    /\ l.at \notin {"walk", "parent", "child", "new"} => l.keep = 0
    /\ l.at \in {"walk", "parent"} /\ l.keep # 0 => l.fn = "link"
    /\ l.at = "parent" /\ l.fn = "link" => l.keep # 0
    /\ l.at \in {"parent", "child", "new"} => l.path # << >>
    /\ l.fn = "write" => l.at \in {"write", "end"}
    /\ l.at = "write" => f # 0 /\ l.fn = "write"
    /\ l.at \in {"child", "new", "unlinked", "opened"} => \A i \in Inode : ~Unlocks(s, i)
    /\ c = 0 => f = 0

\* What iput() is freeing is locked for no other reason.
Stage(p) ==
    /\ StageOK(loc[p], todo[p], cwd[p], ofile[p])
    /\ \A i \in Inode : Frees(todo[p], i) => ~Unlocks(todo[p], i) /\ ~KeepsLocked(loc[p], i)

LocksExact ==
    /\ \A p \in Proc, i \in Inode : itable[i].lock = p <=> HasLocked(p, i)
    /\ \A i \in Inode : itable[i].lock # None => itable[i].valid

FilesOK == \A f \in File : file[f].ip = 0 <=> file[f].ref = 0

\* The places of an inode for block numbers: its addresses, that of the
\* indirect block among them, and then those in the indirect block.
Slot == 0 .. NDIRECT + NINDIRECT
Addr(ip, ind, k) ==
    IF k <= NDIRECT THEN ip.addrs[k]
    ELSE IF ip.addrs[NDIRECT] = 0 THEN 0
    ELSE ind[ip.addrs[NDIRECT]][k - NDIRECT - 1]
Map(d) == [i \in Inode |-> [k \in Slot |-> Addr(d.di[i], d.ind, k)]]

\* Every block in use is in one place of one inode.
Exact(A, used) ==
    /\ \A i \in Inode, k \in Slot : A[i][k] # 0 => A[i][k] \in used
    /\ \A b \in used : \E i \in Inode, k \in Slot : A[i][k] = b
    /\ \A i, j \in Inode, k, l \in Slot : A[i][k] # 0 /\ A[i][k] = A[j][l] => i = j /\ k = l

SlotsExact(d) ==
    /\ Exact(Map(d), d.used)
    /\ \A i \in Inode : d.di[i].type = "free" => \A k \in 0 .. NDIRECT : d.di[i].addrs[k] = 0

FSInv ==
    /\ FSType
    /\ \A p \in Proc : Stage(p) /\ CallsOK(todo[p])
    /\ LocksExact /\ FilesOK /\ RefExact
    /\ MemoryExact /\ SlotsExact(disk) /\ SlotsExact(stable)

-----------------------------------------------------------------------------
(* Counting.                                                               *)

LEMMA Sizes ==
    /\ NInode \in Nat /\ NInode >= 3 /\ NBlock \in Nat /\ NBlock >= 3
    /\ NFILE \in Nat /\ NFILE >= 1 /\ NDIRECT \in Nat /\ NDIRECT >= 1
    /\ NINDIRECT \in Nat /\ NINDIRECT >= 1 /\ DPB \in Nat /\ DPB >= 2
    /\ IsFiniteSet(Proc) /\ None \notin Proc
BY FSAssumption

\* Functions with the same values are the same.
LEMMA SameFun ==
    ASSUME NEW S, NEW T, NEW f \in [S -> T], NEW g \in [S -> T], \A k \in S : f[k] = g[k]
    PROVE  f = g
OBVIOUS

\* Min() of FiniteSetsExt returns the least element of a set of naturals.
LEMMA MinLeast ==
    ASSUME NEW S \in SUBSET Nat, S # {}
    PROVE  Min(S) \in S /\ \A y \in S : Min(S) <= y
<1>1. IsWellFoundedOn(OpToRel(<, Nat), Nat)
  BY NatLessThanWellFounded
<1>2. PICK x \in S : \A y \in S : ~(<<y, x>> \in OpToRel(<, Nat))
  BY <1>1, WFMin
<1>3. \A y \in S : ~(y < x)
  BY <1>2 DEF OpToRel
<1>4. \A y \in S : x <= y
  BY <1>3
<1> QED
  BY <1>4 DEF Min

LEMMA IsType == ASSUME NEW x, NEW i PROVE Is(x, i) \in {0, 1}
BY DEF Is

\* The iput() calls of a sequence: a number, and none in the empty one.
LEMMA PutsType ==
    ASSUME NEW s \in Seq(CallT), NEW i
    PROVE  /\ IsFiniteSet({k \in 1 .. Len(s) : s[k].op # "unlock" /\ s[k].i = i})
           /\ Puts(s, i) \in Nat
<1>1. Len(s) \in Nat
  OBVIOUS
<1>2. IsFiniteSet(1 .. Len(s))
  BY <1>1, FS_Interval
<1> DEFINE S == {k \in 1 .. Len(s) : s[k].op # "unlock" /\ s[k].i = i}
<1>3. S \in SUBSET (1 .. Len(s))
  OBVIOUS
<1>4. IsFiniteSet(S)
  BY <1>2, <1>3, FS_Subset
<1>5. Cardinality(S) \in Nat
  BY <1>4, FS_CardinalityType
<1> QED
  BY <1>4, <1>5 DEF Puts

LEMMA PutsEmpty == ASSUME NEW i PROVE Puts(<< >>, i) = 0
<1>1. {k \in 1 .. Len(<< >>) : << >>[k].op # "unlock" /\ << >>[k].i = i} = {}
  OBVIOUS
<1> QED
  BY <1>1, FS_EmptySet DEF Puts

\* What one call of todo counts for.
Weight(c, i) == IF c.op = "unlock" THEN 0 ELSE Is(c.i, i)

\* The first of the calls counts on its own.
LEMMA PutsHead ==
    ASSUME NEW s \in Seq(CallT), s # << >>, NEW i
    PROVE  /\ Tail(s) \in Seq(CallT)
           /\ Puts(s, i) = Weight(s[1], i) + Puts(Tail(s), i)
<1> DEFINE Q(c) == c.op # "unlock" /\ c.i = i
           t == Tail(s)
           S == {k \in 1 .. Len(s) : Q(s[k])}
           T == {k \in 1 .. Len(t) : Q(t[k])}
           f == [k \in T |-> k + 1]
<1>1. t \in Seq(CallT) /\ Len(t) = Len(s) - 1 /\ Len(s) \in Nat /\ Len(s) >= 1
  OBVIOUS
<1>2. \A k \in 1 .. Len(t) : t[k] = s[k + 1]
  OBVIOUS
<1> HIDE DEF t
<1>3. f \in [T -> S \ {1}]
  <2> SUFFICES ASSUME NEW k \in T PROVE k + 1 \in S \ {1}
    OBVIOUS
  <2>1. k \in 1 .. Len(t) /\ k + 1 \in 1 .. Len(s) /\ k + 1 # 1
    BY <1>1
  <2>2. Q(s[k + 1])
    BY <1>2, <2>1
  <2> QED
    BY <2>1, <2>2
<1>4. \A k, l \in T : f[k] = f[l] => k = l
  BY <1>1
<1>5. \A m \in S \ {1} : \E k \in T : f[k] = m
  <2> TAKE m \in S \ {1}
  <2>1. m \in 2 .. Len(s) /\ m - 1 \in 1 .. Len(t) /\ (m - 1) + 1 = m
    BY <1>1
  <2>2. Q(t[m - 1])
    BY <1>2, <2>1
  <2>3. m - 1 \in T
    BY <2>1, <2>2
  <2> QED
    BY <2>1, <2>3
<1>6. f \in Bijection(T, S \ {1})
  BY <1>3, <1>4, <1>5, Fun_IsBij
<1>7. IsFiniteSet(T) /\ IsFiniteSet(S)
  BY <1>1, PutsType
<1>8. Cardinality(S \ {1}) = Cardinality(T)
  BY <1>6, <1>7, FS_Bijection DEF ExistsBijection
<1>9. Cardinality(S \ {1}) = IF 1 \in S THEN Cardinality(S) - 1 ELSE Cardinality(S)
  BY <1>7, FS_RemoveElement
<1>10. 1 \in S <=> Q(s[1])
  BY <1>1
<1>11. Cardinality(S) \in Nat /\ Cardinality(T) \in Nat
  BY <1>7, FS_CardinalityType
<1>12. Cardinality(S) = (IF Q(s[1]) THEN 1 ELSE 0) + Cardinality(T)
  BY <1>8, <1>9, <1>10, <1>11
<1>13. (IF Q(s[1]) THEN 1 ELSE 0) = Weight(s[1], i)
  BY DEF Weight, Is
<1>14. Puts(s, i) = Cardinality(S) /\ Puts(t, i) = Cardinality(T)
  BY DEF Puts
<1> QED
  BY <1>1, <1>12, <1>13, <1>14 DEF t

LEMMA WeightType == ASSUME NEW c, NEW i PROVE Weight(c, i) \in {0, 1}
BY IsType DEF Weight

\* The sequences of calls that the steps leave.
LEMMA PutsOne ==
    ASSUME NEW a \in CallT, NEW i
    PROVE  << a >> \in Seq(CallT) /\ Puts(<< a >>, i) = Weight(a, i)
<1>1. << a >> \in Seq(CallT) /\ << a >> # << >> /\ << a >>[1] = a /\ Tail(<< a >>) = << >>
  OBVIOUS
<1>2. Puts(<< a >>, i) = Weight(a, i) + 0
  <2>1. PICK s \in Seq(CallT) : s = << a >>
    BY <1>1
  <2>2. s # << >> /\ s[1] = a /\ Tail(s) = << >>
    BY <1>1, <2>1
  <2>3. Puts(s, i) = Weight(s[1], i) + Puts(Tail(s), i)
    BY <2>2, PutsHead
  <2>4. Puts(s, i) = Weight(a, i) + Puts(<< >>, i)
    BY <2>2, <2>3
  <2> QED
    BY <2>1, <2>4, PutsEmpty
<1>3. Weight(a, i) \in {0, 1}
  BY WeightType
<1> QED
  BY <1>1, <1>2, <1>3

LEMMA PutsTwo ==
    ASSUME NEW a \in CallT, NEW b \in CallT, NEW i
    PROVE  << a, b >> \in Seq(CallT) /\ Puts(<< a, b >>, i) = Weight(a, i) + Weight(b, i)
<1>1. /\ << a, b >> \in Seq(CallT) /\ << a, b >> # << >> /\ << a, b >>[1] = a
      /\ Tail(<< a, b >>) = << b >>
  OBVIOUS
<1>2. PICK s \in Seq(CallT) : s = << a, b >>
  BY <1>1
<1>3. s # << >> /\ s[1] = a /\ Tail(s) = << b >>
  BY <1>1, <1>2
<1>4. Puts(s, i) = Weight(s[1], i) + Puts(Tail(s), i)
  BY <1>3, PutsHead
<1>5. Puts(<< b >>, i) = Weight(b, i)
  BY PutsOne
<1>6. Puts(s, i) = Weight(a, i) + Weight(b, i)
  BY <1>3, <1>4, <1>5
<1> QED
  BY <1>1, <1>2, <1>6

LEMMA PutsThree ==
    ASSUME NEW a \in CallT, NEW b \in CallT, NEW c \in CallT, NEW i
    PROVE  /\ << a, b, c >> \in Seq(CallT)
           /\ Puts(<< a, b, c >>, i) = Weight(a, i) + (Weight(b, i) + Weight(c, i))
<1>1. /\ << a, b, c >> \in Seq(CallT) /\ << a, b, c >> # << >> /\ << a, b, c >>[1] = a
      /\ Tail(<< a, b, c >>) = << b, c >>
  OBVIOUS
<1>2. PICK s \in Seq(CallT) : s = << a, b, c >>
  BY <1>1
<1>3. s # << >> /\ s[1] = a /\ Tail(s) = << b, c >>
  BY <1>1, <1>2
<1>4. Puts(s, i) = Weight(s[1], i) + Puts(Tail(s), i)
  BY <1>3, PutsHead
<1>5. Puts(<< b, c >>, i) = Weight(b, i) + Weight(c, i)
  BY PutsTwo
<1>6. Puts(s, i) = Weight(a, i) + (Weight(b, i) + Weight(c, i))
  BY <1>3, <1>4, <1>5
<1> QED
  BY <1>1, <1>2, <1>6

\* A set with two different elements counts at least two.
LEMMA TwoOrMore ==
    ASSUME NEW S, IsFiniteSet(S), NEW x \in S, NEW y \in S, x # y
    PROVE  Cardinality(S) >= 2
<1>1. IsFiniteSet({x}) /\ Cardinality({x}) = 1
  BY FS_Singleton
<1>2. IsFiniteSet({x} \cup {y}) /\ Cardinality({x} \cup {y}) = 2
  <2>1. y \notin {x}
    OBVIOUS
  <2>2. /\ IsFiniteSet({x} \cup {y})
        /\ Cardinality({x} \cup {y}) = IF y \in {x} THEN Cardinality({x}) ELSE Cardinality({x}) + 1
    BY <1>1, FS_AddElement
  <2>3. Cardinality({x} \cup {y}) = Cardinality({x}) + 1
    BY <2>1, <2>2
  <2> QED
    BY <1>1, <2>2, <2>3
<1>3. {x} \cup {y} \in SUBSET S
  OBVIOUS
<1>4. Cardinality({x} \cup {y}) <= Cardinality(S) /\ Cardinality(S) \in Nat
  BY <1>3, FS_Subset, FS_CardinalityType
<1> QED
  BY <1>2, <1>4

LEMMA OneOrMore ==
    ASSUME NEW S, IsFiniteSet(S), NEW x \in S
    PROVE  Cardinality(S) >= 1
<1>1. Cardinality(S) # 0 /\ Cardinality(S) \in Nat
  BY FS_EmptySet, FS_CardinalityType
<1> QED
  BY <1>1

LEMMA PutsAt ==
    ASSUME NEW s \in Seq(CallT), NEW i, NEW k \in 1 .. Len(s), s[k].op # "unlock", s[k].i = i
    PROVE  /\ Puts(s, i) >= 1
           /\ \A l \in 1 .. Len(s) : l # k /\ s[l].op # "unlock" /\ s[l].i = i => Puts(s, i) >= 2
<1> DEFINE S == {m \in 1 .. Len(s) : s[m].op # "unlock" /\ s[m].i = i}
<1>1. IsFiniteSet(S) /\ Puts(s, i) = Cardinality(S)
  BY PutsType DEF Puts
<1>2. k \in S
  OBVIOUS
<1>3. Cardinality(S) >= 1
  BY <1>1, <1>2, OneOrMore
<1>4. ASSUME NEW l \in 1 .. Len(s), l # k, s[l].op # "unlock", s[l].i = i
      PROVE  Cardinality(S) >= 2
  <2>1. l \in S
    BY <1>4
  <2> QED
    BY <1>1, <1>2, <1>4, <2>1, TwoOrMore
<1> QED
  BY <1>1, <1>3, <1>4

\* Numbered pointers of some processes, h[q] of process q.
Tot(h, P) == UNION {{q} \X (1 .. h[q]) : q \in P}

LEMMA TotFinite ==
    ASSUME NEW P, IsFiniteSet(P), NEW h \in [P -> Nat]
    PROVE  IsFiniteSet(Tot(h, P))
<1> DEFINE W == {{q} \X (1 .. h[q]) : q \in P}
           f == [q \in P |-> {q} \X (1 .. h[q])]
<1>1. f \in Surjection(P, W)
  <2>1. f \in [P -> W]
    OBVIOUS
  <2>2. \A t \in W : \E q \in P : f[q] = t
    OBVIOUS
  <2> HIDE DEF f, W
  <2> QED
    BY <2>1, <2>2, Fun_IsSurj
<1>2. IsFiniteSet(W)
  <2> HIDE DEF f, W
  <2> QED
    BY <1>1, FS_Surjection
<1>3. \A T \in W : IsFiniteSet(T)
  <2> TAKE T \in W
  <2>1. PICK q \in P : T = {q} \X (1 .. h[q])
    OBVIOUS
  <2>2. h[q] \in Nat
    OBVIOUS
  <2>3. IsFiniteSet({q})
    BY FS_Singleton
  <2>4. IsFiniteSet(1 .. h[q])
    BY <2>2, FS_Interval
  <2>5. IsFiniteSet({q} \X (1 .. h[q]))
    BY <2>3, <2>4, FS_Product
  <2> QED
    BY <2>1, <2>5
<1>4. IsFiniteSet(UNION W)
  <2> HIDE DEF W
  <2> QED
    BY <1>2, <1>3, FS_UNION
<1> QED
  BY <1>4 DEF Tot

\* One process's pointers add to those of the others.
LEMMA TotSplit ==
    ASSUME NEW h \in [Proc -> Nat], NEW p \in Proc
    PROVE  /\ IsFiniteSet(Tot(h, Proc \ {p})) /\ Cardinality(Tot(h, Proc \ {p})) \in Nat
           /\ Cardinality(Tot(h, Proc)) = Cardinality(Tot(h, Proc \ {p})) + h[p]
<1> DEFINE R == Tot(h, Proc \ {p})
           M == {p} \X (1 .. h[p])
           g == [q \in Proc \ {p} |-> h[q]]
<1>1. IsFiniteSet(Proc \ {p})
  BY Sizes, FS_RemoveElement
<1>2. g \in [Proc \ {p} -> Nat]
  OBVIOUS
<1>3. IsFiniteSet(Tot(g, Proc \ {p}))
  <2> HIDE DEF g
  <2> QED
    BY <1>1, <1>2, TotFinite
<1>4. Tot(g, Proc \ {p}) = R
  BY DEF Tot
<1>5. IsFiniteSet(R) /\ Cardinality(R) \in Nat
  BY <1>3, <1>4, FS_CardinalityType
<1>6. h[p] \in Nat
  OBVIOUS
<1>7. IsFiniteSet({p}) /\ Cardinality({p}) = 1
  BY FS_Singleton
<1>8. IsFiniteSet(1 .. h[p]) /\ Cardinality(1 .. h[p]) = h[p]
  BY <1>6, FS_Interval
<1>9. IsFiniteSet(M) /\ Cardinality(M) = h[p]
  <2>1. IsFiniteSet(M) /\ Cardinality(M) = Cardinality({p}) * Cardinality(1 .. h[p])
    BY <1>7, <1>8, FS_Product
  <2>2. Cardinality(M) = 1 * h[p]
    BY <1>7, <1>8, <2>1
  <2> QED
    BY <1>6, <2>1, <2>2
<1>10. Tot(h, Proc) = R \cup M
  BY DEF Tot
<1>11. R \cap M = {}
  BY DEF Tot
<1>12. Cardinality(R \cup M) = Cardinality(R) + Cardinality(M) - Cardinality(R \cap M)
  <2> HIDE DEF R, M
  <2> QED
    BY <1>5, <1>9, FS_Union
<1>13. Cardinality(R \cap M) = 0
  BY <1>11, FS_EmptySet
<1>14. Cardinality(Tot(h, Proc)) = Cardinality(R) + h[p] - 0
  BY <1>9, <1>10, <1>12, <1>13
<1> QED
  BY <1>5, <1>6, <1>14

\* When only p's pointers change, the total changes as they do.
LEMMA TotStep ==
    ASSUME NEW h \in [Proc -> Nat], NEW g \in [Proc -> Nat], NEW p \in Proc,
           \A q \in Proc \ {p} : g[q] = h[q]
    PROVE  /\ Cardinality(Tot(h, Proc)) \in Nat /\ Cardinality(Tot(g, Proc)) \in Nat
           /\ Cardinality(Tot(g, Proc)) = (Cardinality(Tot(h, Proc)) - h[p]) + g[p]
<1>1. Tot(g, Proc \ {p}) = Tot(h, Proc \ {p})
  BY DEF Tot
<1>2. /\ Cardinality(Tot(h, Proc \ {p})) \in Nat
      /\ Cardinality(Tot(h, Proc)) = Cardinality(Tot(h, Proc \ {p})) + h[p]
  BY TotSplit
<1>3. Cardinality(Tot(g, Proc)) = Cardinality(Tot(g, Proc \ {p})) + g[p]
  BY TotSplit
<1>4. h[p] \in Nat /\ g[p] \in Nat
  OBVIOUS
<1> QED
  BY <1>1, <1>2, <1>3, <1>4

\* Two pointers, of one process or of two, make two.
LEMMA TotTwo ==
    ASSUME NEW h \in [Proc -> Nat], NEW p \in Proc, NEW q \in Proc,
           h[p] >= 1 /\ h[q] >= 1, p # q \/ h[p] >= 2
    PROVE  Cardinality(Tot(h, Proc)) >= 2
<1>1. IsFiniteSet(Tot(h, Proc))
  BY Sizes, TotFinite
<1>2. CASE p # q
  <2>1. <<p, 1>> \in Tot(h, Proc) /\ <<q, 1>> \in Tot(h, Proc)
    <3>1. 1 \in 1 .. h[p] /\ 1 \in 1 .. h[q]
      OBVIOUS
    <3> QED
      BY <3>1 DEF Tot
  <2>2. <<p, 1>> # <<q, 1>>
    BY <1>2
  <2> QED
    BY <1>1, <2>1, <2>2, TwoOrMore
<1>3. CASE h[p] >= 2
  <2>1. <<p, 1>> \in Tot(h, Proc) /\ <<p, 2>> \in Tot(h, Proc)
    <3>1. h[p] \in Nat
      OBVIOUS
    <3>2. 1 \in 1 .. h[p] /\ 2 \in 1 .. h[p]
      BY <1>3, <3>1
    <3> QED
      BY <3>2 DEF Tot
  <2>2. <<p, 1>> # <<p, 2>>
    OBVIOUS
  <2> QED
    BY <1>1, <2>1, <2>2, TwoOrMore
<1> QED
  BY <1>2, <1>3

\* Nobody has a pointer, and everybody has one.
LEMMA TotSame ==
    ASSUME NEW h \in [Proc -> Nat]
    PROVE  /\ (\A q \in Proc : h[q] = 0) => Cardinality(Tot(h, Proc)) = 0
           /\ (\A q \in Proc : h[q] = 1) => Cardinality(Tot(h, Proc)) = Cardinality(Proc)
<1>1. ASSUME \A q \in Proc : h[q] = 0 PROVE Cardinality(Tot(h, Proc)) = 0
  <2>1. \A q \in Proc : 1 .. h[q] = {}
    BY <1>1
  <2>2. Tot(h, Proc) = {}
    BY <2>1 DEF Tot
  <2> QED
    BY <2>2, FS_EmptySet
<1>2. ASSUME \A q \in Proc : h[q] = 1 PROVE Cardinality(Tot(h, Proc)) = Cardinality(Proc)
  <2>1. \A q \in Proc : 1 .. h[q] = {1}
    BY <1>2
  <2>2. Tot(h, Proc) = Proc \X {1}
    BY <2>1 DEF Tot
  <2>3. IsFiniteSet({1}) /\ Cardinality({1}) = 1
    BY FS_Singleton
  <2>4. Cardinality(Proc \X {1}) = Cardinality(Proc) * Cardinality({1})
    BY <2>3, Sizes, FS_Product
  <2>5. Cardinality(Proc) \in Nat
    BY Sizes, FS_CardinalityType
  <2>6. Cardinality(Proc) * 1 = Cardinality(Proc)
    BY <2>5
  <2> QED
    BY <2>2, <2>3, <2>4, <2>6
<1> QED
  BY <1>1, <1>2

-----------------------------------------------------------------------------
(* The sequences of calls that steps leave for later.                      *)

LEMMA CallType == ASSUME NEW i \in Inode PROVE Put(i) \in CallT /\ Unlock(i) \in CallT
BY DEF Put, Unlock, CallT

LEMMA NoCalls ==
    ASSUME NEW i
    PROVE  /\ << >> \in Seq(CallT) /\ CallsOK(<< >>) /\ Puts(<< >>, i) = 0
           /\ ~Unlocks(<< >>, i) /\ ~Frees(<< >>, i) /\ ~Freed(<< >>, i)
BY PutsEmpty DEF CallsOK, Unlocks, Frees, Freed

\* What steps of a call leave to be put: nothing is being freed.
Leaves(s) == s \in Seq(CallT) /\ CallsOK(s) /\ \A i \in Inode : ~Frees(s, i)

LEMMA LeavesNone ==
    Leaves(<< >>) /\ \A i \in Inode : Puts(<< >>, i) = 0 /\ ~Unlocks(<< >>, i)
BY NoCalls DEF Leaves

LEMMA LeavesOne ==
    ASSUME NEW x \in Inode, NEW s, s = << Put(x) >>
    PROVE  Leaves(s) /\ \A i \in Inode : Puts(s, i) = Is(x, i) /\ ~Unlocks(s, i)
<1>1. s \in Seq(CallT) /\ Len(s) = 1 /\ s[1] = Put(x)
  BY CallType
<1>2. \A i : Puts(s, i) = Weight(Put(x), i)
  BY CallType, PutsOne
<1>3. \A i : Weight(Put(x), i) = Is(x, i)
  BY DEF Weight, Put
<1>4. Put(x).op = "put"
  BY DEF Put
<1>5. \A i : Put(x) # Unlock(i)
  BY DEF Put, Unlock
<1>6. \A k \in 1 .. Len(s) : k = 1
  BY <1>1
<1>7. CallsOK(s)
  BY <1>1, <1>4, <1>6 DEF CallsOK
<1>8. \A i : ~Unlocks(s, i) /\ ~Frees(s, i)
  BY <1>1, <1>4, <1>5, <1>6 DEF Unlocks, Frees
<1> QED
  BY <1>1, <1>2, <1>3, <1>7, <1>8 DEF Leaves

LEMMA LeavesTwo ==
    ASSUME NEW x \in Inode, NEW y \in Inode, NEW s, s = << Put(x), Put(y) >>
    PROVE  Leaves(s) /\ \A i \in Inode : Puts(s, i) = Is(x, i) + Is(y, i) /\ ~Unlocks(s, i)
<1>1. s \in Seq(CallT) /\ Len(s) = 2 /\ s[1] = Put(x) /\ s[2] = Put(y)
  BY CallType
<1>2. ASSUME NEW i PROVE Puts(s, i) = Is(x, i) + Is(y, i)
  <2>1. Puts(s, i) = Weight(Put(x), i) + Weight(Put(y), i)
    BY CallType, PutsTwo
  <2>2. Weight(Put(x), i) = Is(x, i) /\ Weight(Put(y), i) = Is(y, i)
    BY DEF Weight, Put
  <2> QED
    BY <2>1, <2>2
<1>3. Put(x).op = "put" /\ Put(y).op = "put"
  BY DEF Put
<1>4. \A i : Put(x) # Unlock(i) /\ Put(y) # Unlock(i)
  BY DEF Put, Unlock
<1>5. \A k \in 1 .. Len(s) : k = 1 \/ k = 2
  BY <1>1
<1>6. CallsOK(s)
  BY <1>1, <1>3, <1>5 DEF CallsOK
<1>7. \A i : ~Unlocks(s, i) /\ ~Frees(s, i)
  BY <1>1, <1>3, <1>4, <1>5 DEF Unlocks, Frees
<1> QED
  BY <1>1, <1>2, <1>6, <1>7 DEF Leaves

LEMMA LeavesThree ==
    ASSUME NEW x \in Inode, NEW y \in Inode, NEW s, s = << Put(x), Unlock(y), Put(y) >>
    PROVE  /\ Leaves(s)
           /\ \A i \in Inode : Puts(s, i) = Is(x, i) + Is(y, i) /\ (Unlocks(s, i) <=> i = y)
<1>1. s \in Seq(CallT) /\ Len(s) = 3 /\ s[1] = Put(x) /\ s[2] = Unlock(y) /\ s[3] = Put(y)
  BY CallType
<1>2. ASSUME NEW i PROVE Puts(s, i) = Is(x, i) + Is(y, i)
  <2>1. Puts(s, i) = Weight(Put(x), i) + (Weight(Unlock(y), i) + Weight(Put(y), i))
    BY CallType, PutsThree
  <2>2. Weight(Put(x), i) = Is(x, i) /\ Weight(Put(y), i) = Is(y, i) /\ Weight(Unlock(y), i) = 0
    BY DEF Weight, Put, Unlock
  <2> QED
    BY <2>1, <2>2, IsType
<1>3. Put(x).op = "put" /\ Put(y).op = "put" /\ Unlock(y).op = "unlock" /\ Unlock(y).i = y
  BY DEF Put, Unlock
<1>4. \A i : Put(x) # Unlock(i) /\ Put(y) # Unlock(i) /\ (Unlock(y) = Unlock(i) <=> y = i)
  BY DEF Put, Unlock
<1>5. \A k \in 1 .. Len(s) : k = 1 \/ k = 2 \/ k = 3
  BY <1>1
<1>6. CallsOK(s)
  BY <1>1, <1>3, <1>5 DEF CallsOK
<1>7. 2 \in 1 .. Len(s)
  BY <1>1
<1>8. \A i : Unlocks(s, i) <=> i = y
  BY <1>1, <1>4, <1>5, <1>7 DEF Unlocks
<1>9. \A i : ~Frees(s, i)
  BY <1>1, <1>3 DEF Frees
<1> QED
  BY <1>1, <1>2, <1>6, <1>8, <1>9 DEF Leaves

\* The first call is done: what is left of the others.
LEMMA CallDone ==
    ASSUME NEW s \in Seq(CallT), s # << >>, CallsOK(s), NEW i
    PROVE  /\ Tail(s) \in Seq(CallT) /\ CallsOK(Tail(s))
           /\ Puts(s, i) = Weight(s[1], i) + Puts(Tail(s), i)
           /\ Unlocks(Tail(s), i) => Unlocks(s, i)
           /\ Unlocks(s, i) => s[1] = Unlock(i) \/ Unlocks(Tail(s), i)
           /\ s[1] = Unlock(i) => Unlocks(s, i) /\ ~Unlocks(Tail(s), i)
           /\ ~Frees(Tail(s), i) /\ ~Freed(Tail(s), i)
<1> DEFINE t == Tail(s)
<1>1. t \in Seq(CallT) /\ Len(t) = Len(s) - 1 /\ Len(s) \in Nat /\ Len(s) >= 1
  OBVIOUS
<1>2. \A k \in 1 .. Len(t) : t[k] = s[k + 1]
  OBVIOUS
<1>3. Puts(s, i) = Weight(s[1], i) + Puts(t, i)
  BY PutsHead
<1> HIDE DEF t
<1>4. \A k \in 1 .. Len(t) : k + 1 \in 1 .. Len(s) /\ k + 1 > 1
  BY <1>1
<1>5. CallsOK(t)
  <2> SUFFICES ASSUME NEW k \in 1 .. Len(t)
               PROVE  /\ t[k].op = "unlock" => k + 1 = Len(t) /\ t[k + 1] = Put(t[k].i)
                      /\ k > 1 => t[k].op \in {"put", "unlock"}
    BY DEF CallsOK
  <2>1. t[k] = s[k + 1] /\ k + 1 \in 1 .. Len(s) /\ k + 1 > 1 /\ k \in Nat
    BY <1>1, <1>2, <1>4
  <2>2. /\ s[k + 1].op = "unlock" => (k + 1) + 1 = Len(s) /\ s[(k + 1) + 1] = Put(s[k + 1].i)
        /\ s[k + 1].op \in {"put", "unlock"}
    BY <2>1 DEF CallsOK
  <2>3. (k + 1) + 1 = Len(s) => k + 1 = Len(t) /\ k + 1 \in 1 .. Len(t)
    BY <1>1, <2>1
  <2>4. k + 1 \in 1 .. Len(t) => t[k + 1] = s[(k + 1) + 1]
    BY <1>2
  <2> QED
    BY <2>1, <2>2, <2>3, <2>4
<1>6. Unlocks(t, i) => Unlocks(s, i)
  BY <1>2, <1>4 DEF Unlocks
<1>7. ASSUME Unlocks(s, i), s[1] # Unlock(i) PROVE Unlocks(t, i)
  <2>1. PICK k \in 1 .. Len(s) : s[k] = Unlock(i)
    BY <1>7 DEF Unlocks
  <2>2. k # 1
    BY <1>7, <2>1
  <2>3. k - 1 \in 1 .. Len(t) /\ (k - 1) + 1 = k
    BY <1>1, <2>1, <2>2
  <2>4. t[k - 1] = Unlock(i)
    BY <1>2, <2>1, <2>3
  <2> QED
    BY <2>3, <2>4 DEF Unlocks
<1>8. ~Frees(t, i) /\ ~Freed(t, i)
  <2> SUFFICES ASSUME t # << >> PROVE t[1].op \in {"put", "unlock"}
    BY DEF Frees, Freed
  <2>1. 1 \in 1 .. Len(t) /\ 1 + 1 = 2
    BY <1>1
  <2>2. t[1] = s[2] /\ 2 \in 1 .. Len(s)
    BY <1>2, <1>4, <2>1
  <2> QED
    BY <2>2 DEF CallsOK
<1>9. ASSUME s[1] = Unlock(i) PROVE Unlocks(s, i) /\ ~Unlocks(t, i)
  <2>1. 1 \in 1 .. Len(s) /\ s[1].op = "unlock"
    BY <1>1, <1>9 DEF Unlock
  <2>2. 1 + 1 = Len(s) /\ s[1 + 1] = Put(s[1].i)
    BY <2>1 DEF CallsOK
  <2>3. \A k \in 1 .. Len(t) : k = 1 /\ t[k] = s[1 + 1]
    BY <1>1, <1>2, <2>2
  <2> QED
    BY <1>9, <2>1, <2>2, <2>3 DEF Unlocks, Put, Unlock
<1> QED
  BY <1>1, <1>3, <1>5, <1>6, <1>7, <1>8, <1>9 DEF t

\* The first call becomes another stage of the same iput().
GoesOn(s, op) == << [op |-> op, i |-> s[1].i] >> \o Tail(s)

LEMMA CallGoesOn ==
    ASSUME NEW s \in Seq(CallT), s # << >>, CallsOK(s), s[1].op # "unlock", NEW i,
           NEW op \in {"free", "freed", "drop"},
           NEW u, u = GoesOn(s, op)
    PROVE  /\ u \in Seq(CallT) /\ CallsOK(u) /\ Puts(u, i) = Puts(s, i)
           /\ Unlocks(u, i) <=> Unlocks(s, i)
           /\ u # << >> /\ u[1].op = op /\ u[1].i = s[1].i /\ Tail(u) = Tail(s)
<1> DEFINE c == [op |-> op, i |-> s[1].i]
           t == Tail(s)
<1>1. /\ t \in Seq(CallT) /\ Len(t) = Len(s) - 1 /\ Len(s) \in Nat /\ Len(s) >= 1
      /\ s[1] \in CallT
  OBVIOUS
<1>2. \A k \in 1 .. Len(t) : t[k] = s[k + 1]
  OBVIOUS
<1>3. c \in CallT /\ c.op = op /\ c.i = s[1].i /\ op # "unlock"
  BY <1>1 DEF CallT
<1> HIDE DEF c, t
<1>4. u = << c >> \o t
  BY DEF c, t, GoesOn
<1>5. u \in Seq(CallT) /\ Len(u) = Len(s) /\ u[1] = c
  BY <1>1, <1>3, <1>4
<1>6. \A k \in 2 .. Len(s) : u[k] = s[k]
  <2> TAKE k \in 2 .. Len(s)
  <2>1. k - 1 \in 1 .. Len(t) /\ (k - 1) + 1 = k
    BY <1>1
  <2>2. u[k] = t[k - 1]
    BY <1>1, <1>3, <1>4, <2>1
  <2> QED
    BY <1>2, <2>1, <2>2
<1>7. Tail(u) = t
  BY <1>1, <1>3, <1>4
<1>8. Puts(u, i) = Weight(c, i) + Puts(t, i) /\ Puts(s, i) = Weight(s[1], i) + Puts(t, i)
  <2>1. u # << >>
    BY <1>1, <1>5
  <2>2. Puts(u, i) = Weight(u[1], i) + Puts(Tail(u), i)
    BY <1>5, <2>1, PutsHead
  <2>3. Puts(s, i) = Weight(s[1], i) + Puts(t, i)
    BY PutsHead DEF t
  <2> QED
    BY <1>5, <1>7, <2>2, <2>3
<1>9. Weight(c, i) = Weight(s[1], i)
  BY <1>3 DEF Weight
<1>10. CallsOK(u)
  <2> SUFFICES ASSUME NEW k \in 1 .. Len(u)
               PROVE  /\ u[k].op = "unlock" => k + 1 = Len(u) /\ u[k + 1] = Put(u[k].i)
                      /\ k > 1 => u[k].op \in {"put", "unlock"}
    BY DEF CallsOK
  <2>1. CASE k = 1
    BY <1>3, <1>5, <2>1
  <2>2. CASE k # 1
    <3>1. k \in 1 .. Len(s) /\ k \in 2 .. Len(s) /\ (k + 1 = Len(s) => k + 1 \in 2 .. Len(s))
      BY <1>1, <1>5, <2>2
    <3>2. u[k] = s[k] /\ (k + 1 = Len(s) => u[k + 1] = s[k + 1])
      BY <1>6, <3>1
    <3>3. /\ s[k].op = "unlock" => k + 1 = Len(s) /\ s[k + 1] = Put(s[k].i)
          /\ k > 1 => s[k].op \in {"put", "unlock"}
      BY <3>1 DEF CallsOK
    <3> QED
      BY <1>5, <3>2, <3>3
  <2> QED
    BY <2>1, <2>2
<1>11. \A k \in 1 .. Len(s) : s[k] = Unlock(i) <=> u[k] = Unlock(i)
  <2> TAKE k \in 1 .. Len(s)
  <2>1. s[1] # Unlock(i) /\ c # Unlock(i)
    BY <1>3 DEF Unlock
  <2>2. k # 1 => k \in 2 .. Len(s)
    BY <1>1
  <2> QED
    BY <1>5, <1>6, <2>1, <2>2
<1>12. Unlocks(u, i) <=> Unlocks(s, i)
  BY <1>5, <1>11 DEF Unlocks
<1>13. u # << >>
  BY <1>1, <1>5
<1> QED
  BY <1>3, <1>5, <1>7, <1>8, <1>9, <1>10, <1>12, <1>13 DEF t

-----------------------------------------------------------------------------
(* The inode table.                                                        *)

LEMMA EntryIs ==
    ASSUME NEW t \in [Inode -> EntryT], NEW i \in Inode, NEW ip \in DinodeT,
           NEW h \in Proc \cup {None}
    PROVE  /\ Entry(t, i, ip, h) \in [Inode -> EntryT]
           /\ \A j \in Inode : /\ Entry(t, i, ip, h)[j].ref = t[j].ref
                               /\ j # i => Entry(t, i, ip, h)[j] = t[j]
           /\ Entry(t, i, ip, h)[i].valid
           /\ Entry(t, i, ip, h)[i].lock = h
           /\ Entry(t, i, ip, h)[i].d = ip
BY DEF Entry, EntryT

LEMMA IgetIs ==
    ASSUME NEW t \in [Inode -> EntryT], NEW n \in Inode, t[n].ref >= 0
    PROVE  /\ Iget(t, n) \in [Inode -> EntryT]
           /\ \A j \in Inode : /\ Iget(t, n)[j].ref = t[j].ref + Is(n, j)
                               /\ Iget(t, n)[j].lock = t[j].lock
                               /\ Iget(t, n)[j].d = t[j].d
                               /\ j # n \/ t[j].ref > 0 => (t[j].valid => Iget(t, n)[j].valid)
                               /\ Iget(t, n)[j].valid => t[j].valid
<1>1. CASE t[n].ref > 0
  <2>1. Iget(t, n) = [t EXCEPT ![n].ref = @ + 1]
    BY <1>1 DEF Iget
  <2> QED
    BY <1>1, <2>1 DEF EntryT, Is
<1>2. CASE ~(t[n].ref > 0)
  <2>1. Iget(t, n) = [t EXCEPT ![n].ref = 1, ![n].valid = FALSE]
    BY <1>2 DEF Iget
  <2>2. t[n].ref = 0
    BY <1>2 DEF EntryT
  <2> DEFINE u == [t EXCEPT ![n].ref = 1, ![n].valid = FALSE]
  <2>3. u \in [Inode -> EntryT]
    <3>1. t[n] \in EntryT
      OBVIOUS
    <3>2. [t[n] EXCEPT !.ref = 1, !.valid = FALSE] \in EntryT
      <4>1. [t[n] EXCEPT !.ref = 1] \in EntryT
        BY <3>1 DEF EntryT
      <4>2. [[t[n] EXCEPT !.ref = 1] EXCEPT !.valid = FALSE] \in EntryT
        BY <4>1 DEF EntryT
      <4> QED
        BY <4>2
    <3>3. u = [t EXCEPT ![n] = [t[n] EXCEPT !.ref = 1, !.valid = FALSE]]
      OBVIOUS
    <3> QED
      BY <3>2, <3>3
  <2>4. u[n].ref = 1 /\ u[n].lock = t[n].lock /\ u[n].d = t[n].d /\ u[n].valid = FALSE
    BY DEF EntryT
  <2>5. \A j \in Inode : j # n => u[j] = t[j]
    OBVIOUS
  <2>6. \A j \in Inode : t[j].ref \in Int
    BY DEF EntryT
  <2> HIDE DEF u
  <2>7. \A j \in Inode : u[j].ref = t[j].ref + Is(n, j)
    BY <2>2, <2>4, <2>5, <2>6 DEF Is
  <2>8. \A j \in Inode : /\ u[j].lock = t[j].lock /\ u[j].d = t[j].d
                         /\ j # n \/ t[j].ref > 0 => (t[j].valid => u[j].valid)
                         /\ u[j].valid => t[j].valid
    BY <1>2, <2>4, <2>5
  <2>9. Iget(t, n) = u
    BY <2>1 DEF u
  <2> QED
    BY <2>3, <2>7, <2>8, <2>9
<1> QED
  BY <1>1, <1>2

LEMMA HeldType ==
    ASSUME FSType, NEW p \in Proc, NEW i PROVE Held(p, i) \in Nat
<1>1. todo[p] \in Seq(CallT)
  BY DEF FSType
<1>2. Puts(todo[p], i) \in Nat
  BY <1>1, PutsType
<1>3. Is(loc[p].ip, i) \in {0, 1} /\ Is(loc[p].keep, i) \in {0, 1} /\ Is(cwd[p], i) \in {0, 1}
  BY IsType
<1> QED
  BY <1>2, <1>3 DEF Held

LEMMA FileFinite == IsFiniteSet(File)
BY Sizes, FS_Interval DEF File

LEMMA FilesFinite ==
    ASSUME NEW i PROVE IsFiniteSet(OpenFiles(i)) /\ Cardinality(OpenFiles(i)) \in Nat
<1>1. IsFiniteSet(File)
  BY FileFinite
<1>2. OpenFiles(i) \in SUBSET File
  BY DEF OpenFiles
<1> QED
  BY <1>1, <1>2, FS_Subset, FS_CardinalityType

\* Pointers are counted by their number in every process.
LEMMA PointersTot ==
    ASSUME FSType, NEW i
    PROVE  /\ [q \in Proc |-> Held(q, i)] \in [Proc -> Nat]
           /\ Pointers(i) = Tot([q \in Proc |-> Held(q, i)], Proc)
           /\ Cardinality(Pointers(i)) \in Nat
<1> DEFINE h == [q \in Proc |-> Held(q, i)]
<1>1. h \in [Proc -> Nat]
  BY HeldType
<1>2. Pointers(i) = Tot(h, Proc)
  BY DEF Pointers, Tot
<1>3. Cardinality(Tot(h, Proc)) \in Nat
  <2> HIDE DEF h
  <2> QED
    BY <1>1, Sizes, TotFinite, FS_CardinalityType
<1> QED
  BY <1>1, <1>2, <1>3

LEMMA PointerStep ==
    ASSUME FSType, FSType', NEW p \in Proc, NEW i,
           \A q \in Proc \ {p} : loc'[q] = loc[q] /\ todo'[q] = todo[q] /\ cwd'[q] = cwd[q]
    PROVE  /\ Cardinality(Pointers(i)) \in Nat /\ Cardinality(Pointers(i)') \in Nat
           /\ Cardinality(Pointers(i)') = (Cardinality(Pointers(i)) - Held(p, i)) + Held(p, i)'
<1>1. PICK h \in [Proc -> Nat] : h = [q \in Proc |-> Held(q, i)]
  BY PointersTot
<1>2. [q \in Proc |-> Held(q, i)'] \in [Proc -> Nat]
  <2> SUFFICES ASSUME NEW q \in Proc PROVE Held(q, i)' \in Nat
    OBVIOUS
  <2>1. todo'[q] \in Seq(CallT)
    BY DEF FSType
  <2>2. Puts(todo'[q], i) \in Nat
    BY <2>1, PutsType
  <2>3. /\ Is(loc'[q].ip, i) \in {0, 1} /\ Is(loc'[q].keep, i) \in {0, 1}
        /\ Is(cwd'[q], i) \in {0, 1}
    BY IsType
  <2> QED
    BY <2>2, <2>3 DEF Held
<1>3. PICK g \in [Proc -> Nat] : g = [q \in Proc |-> Held(q, i)']
  BY <1>2
<1>4. Pointers(i) = Tot(h, Proc)
  BY <1>1, PointersTot
<1>5. Pointers(i)' = Tot(g, Proc)
  <2>1. \A q \in Proc : g[q] = Held(q, i)'
    BY <1>3
  <2> QED
    BY <2>1 DEF Pointers, Tot
<1>6. \A q \in Proc \ {p} : Held(q, i)' = Held(q, i)
  BY DEF Held
<1>7. \A q \in Proc \ {p} : g[q] = h[q]
  BY <1>1, <1>3, <1>6
<1>8. h[p] = Held(p, i) /\ g[p] = Held(p, i)'
  BY <1>1, <1>3
<1>9. /\ Cardinality(Tot(h, Proc)) \in Nat /\ Cardinality(Tot(g, Proc)) \in Nat
      /\ Cardinality(Tot(g, Proc)) = (Cardinality(Tot(h, Proc)) - h[p]) + g[p]
  BY <1>7, TotStep
<1> QED
  BY <1>4, <1>5, <1>8, <1>9

LEMMA RefNat ==
    ASSUME FSType, RefExact, NEW i \in Inode
    PROVE  itable[i].ref \in Nat
<1>1. Cardinality(Pointers(i)) \in Nat /\ Cardinality(OpenFiles(i)) \in Nat
  BY PointersTot, FilesFinite
<1>2. itable[i].ref = Cardinality(Pointers(i)) + Cardinality(OpenFiles(i))
  BY DEF RefExact
<1> QED
  BY <1>1, <1>2

\* Two pointers, of one process or of two.
LEMMA RefTwo ==
    ASSUME FSType, RefExact, NEW i \in Inode, NEW p \in Proc, NEW q \in Proc,
           Held(p, i) >= 1 /\ Held(q, i) >= 1, p # q \/ Held(p, i) >= 2
    PROVE  itable[i].ref >= 2
<1>1. PICK h \in [Proc -> Nat] : h = [r \in Proc |-> Held(r, i)]
  BY PointersTot
<1>2. h[p] = Held(p, i) /\ h[q] = Held(q, i) /\ Pointers(i) = Tot(h, Proc)
  BY <1>1, PointersTot
<1>3. Cardinality(Tot(h, Proc)) >= 2
  BY <1>2, TotTwo
<1>4. Cardinality(Pointers(i)) \in Nat /\ Cardinality(OpenFiles(i)) \in Nat
  BY PointersTot, FilesFinite
<1>5. itable[i].ref = Cardinality(Pointers(i)) + Cardinality(OpenFiles(i))
  BY DEF RefExact
<1> QED
  BY <1>2, <1>3, <1>4, <1>5

LEMMA RefOne ==
    ASSUME FSType, RefExact, NEW i \in Inode, NEW p \in Proc, Held(p, i) >= 1
    PROVE  itable[i].ref >= 1
<1>1. PICK h \in [Proc -> Nat] : h = [r \in Proc |-> Held(r, i)]
  BY PointersTot
<1>2. h[p] = Held(p, i) /\ Pointers(i) = Tot(h, Proc)
  BY <1>1, PointersTot
<1>3. /\ Cardinality(Tot(h, Proc \ {p})) \in Nat
      /\ Cardinality(Tot(h, Proc)) = Cardinality(Tot(h, Proc \ {p})) + h[p]
  BY TotSplit
<1>4. Cardinality(OpenFiles(i)) \in Nat /\ Held(p, i) \in Nat
  BY FilesFinite, HeldType
<1>5. itable[i].ref = Cardinality(Pointers(i)) + Cardinality(OpenFiles(i))
  BY DEF RefExact
<1> QED
  BY <1>2, <1>3, <1>4, <1>5

-----------------------------------------------------------------------------
(* What a step of one process has to show.                                 *)

\* A step of p leaves the other processes' calls alone.
Others(p) ==
    \A q \in Proc \ {p} : /\ loc'[q] = loc[q] /\ todo'[q] = todo[q]
                          /\ cwd'[q] = cwd[q] /\ ofile'[q] = ofile[q]

\* It touches only locks that are free or its own.
LockHyp(p) ==
    \A i \in Inode :
      /\ \/ itable'[i].lock = itable[i].lock
         \/ itable[i].lock \in {None, p} /\ itable'[i].lock \in {None, p}
      /\ itable'[i].lock # None => itable'[i].valid

\* It leaves a copy as it was, with what the disk has, or to be given up.
MemHyp ==
    \A i \in Inode : itable'[i].valid =>
      \/ itable'[i].d = disk'.di[i] /\ disk'.di[i].type # "free"
      \/ itable[i].valid /\ itable'[i].d = itable[i].d /\ disk'.di[i] = disk.di[i]
      \/ itable[i].valid /\ disk.di[i].type = "free"

LEMMA LockStep ==
    ASSUME FSType, FSType', LocksExact, NEW p \in Proc, Others(p), LockHyp(p),
           \A i \in Inode : itable'[i].lock = p <=> HasLocked(p, i)'
    PROVE  LocksExact'
<1>1. ASSUME NEW q \in Proc, NEW i \in Inode
      PROVE  itable'[i].lock = q <=> HasLocked(q, i)'
  <2>1. CASE q = p
    BY <2>1
  <2>2. CASE q # p
    <3>1. HasLocked(q, i)' <=> HasLocked(q, i)
      BY <2>2 DEF Others, HasLocked
    <3>2. itable'[i].lock = q <=> itable[i].lock = q
      BY <2>2, Sizes DEF LockHyp
    <3> QED
      BY <3>1, <3>2 DEF LocksExact
  <2> QED
    BY <2>1, <2>2
<1>2. \A i \in Inode : itable'[i].lock # None => itable'[i].valid
  BY DEF LockHyp
<1> QED
  BY <1>1, <1>2 DEF LocksExact

LEMMA MemStep ==
    ASSUME FSType, FSType', MemoryExact, NEW p \in Proc, Others(p), MemHyp,
           \A i \in Inode : ~Freed(todo[p], i)
    PROVE  MemoryExact'
<1> SUFFICES ASSUME NEW i \in Inode, itable'[i].valid,
                    ~(itable'[i].d = disk'.di[i] /\ disk'.di[i].type # "free")
             PROVE  \E q \in Proc : Freed(todo'[q], i)
  BY DEF MemoryExact
<1>1. itable[i].valid /\ ~(itable[i].d = disk.di[i] /\ disk.di[i].type # "free")
  BY DEF MemHyp
<1>2. PICK q \in Proc : Freed(todo[q], i)
  BY <1>1 DEF MemoryExact
<1>3. todo'[q] = todo[q]
  BY <1>2 DEF Others
<1> QED
  BY <1>2, <1>3

LEMMA RefArithmetic ==
    ASSUME NEW r \in Int, NEW r1 \in Int, NEW n \in Int, NEW n1 \in Int, NEW h \in Int,
           NEW h1 \in Int, NEW f \in Int,
           n1 = (n - h) + h1, r = n + f, r1 + h = r + h1
    PROVE  r1 = n1 + f
OBVIOUS

LEMMA RefStep ==
    ASSUME FSType, FSType', RefExact, NEW p \in Proc, Others(p),
           \A f \in File : file'[f].ip = file[f].ip /\ file'[f].ref = file[f].ref,
           ofile' = ofile,
           \A i \in Inode : itable'[i].ref + Held(p, i) = itable[i].ref + Held(p, i)'
    PROVE  RefExact'
<1>1. ASSUME NEW i \in Inode
      PROVE  itable'[i].ref = Cardinality(Pointers(i)') + Cardinality(OpenFiles(i)')
  <2>1. /\ Cardinality(Pointers(i)) \in Nat /\ Cardinality(Pointers(i)') \in Nat
        /\ Cardinality(Pointers(i)') = (Cardinality(Pointers(i)) - Held(p, i)) + Held(p, i)'
    BY PointerStep DEF Others
  <2>2. OpenFiles(i)' = OpenFiles(i)
    BY DEF OpenFiles
  <2>3. Cardinality(OpenFiles(i)) \in Nat
    BY FilesFinite
  <2>4. itable[i].ref = Cardinality(Pointers(i)) + Cardinality(OpenFiles(i))
    BY DEF RefExact
  <2>5. Held(p, i) \in Nat
    BY HeldType
  <2>6. itable'[i].ref \in Int /\ itable[i].ref \in Int
    BY DEF FSType, EntryT
  <2>7. itable'[i].ref + Held(p, i) = itable[i].ref + Held(p, i)'
    OBVIOUS
  <2>8. Held(p, i)' \in Int
    <3>1. todo'[p] \in Seq(CallT)
      BY DEF FSType
    <3>2. Puts(todo'[p], i) \in Nat
      BY <3>1, PutsType
    <3>3. /\ Is(loc'[p].ip, i) \in {0, 1} /\ Is(loc'[p].keep, i) \in {0, 1}
          /\ Is(cwd'[p], i) \in {0, 1}
      BY IsType
    <3> QED
      BY <3>2, <3>3 DEF Held
  <2>9. itable'[i].ref = Cardinality(Pointers(i)') + Cardinality(OpenFiles(i))
    <3>1. PICK n \in Int, n1 \in Int :
            n = Cardinality(Pointers(i)) /\ n1 = Cardinality(Pointers(i)')
      BY <2>1
    <3>2. PICK h \in Int, h1 \in Int : h = Held(p, i) /\ h1 = Held(p, i)'
      BY <2>5, <2>8
    <3>3. PICK f \in Int : f = Cardinality(OpenFiles(i))
      BY <2>3
    <3>4. n1 = (n - h) + h1
      BY <2>1, <3>1, <3>2
    <3>5. itable[i].ref = n + f
      BY <2>4, <3>1, <3>3
    <3>6. itable'[i].ref + h = itable[i].ref + h1
      BY <2>7, <3>2
    <3>7. itable'[i].ref = n1 + f
      BY <2>6, <3>4, <3>5, <3>6, RefArithmetic
    <3> QED
      BY <3>1, <3>3, <3>7
  <2> QED
    BY <2>2, <2>9
<1>2. ASSUME NEW f \in File
      PROVE  file'[f].ref = Cardinality({q \in Proc : ofile'[q] = f})
  <2>1. file[f].ref = Cardinality({q \in Proc : ofile[q] = f})
    BY DEF RefExact
  <2> QED
    BY <2>1
<1> QED
  BY <1>1, <1>2 DEF RefExact

LEMMA Assemble ==
    ASSUME FSInv, FSType', NEW p \in Proc, Others(p), Stage(p)', CallsOK(todo'[p]),
           LockHyp(p), \A i \in Inode : itable'[i].lock = p <=> HasLocked(p, i)',
           MemHyp, \A i \in Inode : ~Freed(todo[p], i),
           RefExact', FilesOK', SlotsExact(disk'), SlotsExact(stable')
    PROVE  FSInv'
<1>1. LocksExact'
  BY LockStep DEF FSInv
<1>2. MemoryExact'
  BY MemStep DEF FSInv
<1>3. ASSUME NEW q \in Proc PROVE Stage(q)' /\ CallsOK(todo'[q])
  <2>1. CASE q = p
    BY <2>1
  <2>2. CASE q # p
    <3>1. loc'[q] = loc[q] /\ todo'[q] = todo[q] /\ cwd'[q] = cwd[q] /\ ofile'[q] = ofile[q]
      BY <2>2 DEF Others
    <3>2. Stage(q) /\ CallsOK(todo[q])
      BY DEF FSInv
    <3>3. Stage(q)'
      BY <3>1, <3>2 DEF Stage
    <3> QED
      BY <3>1, <3>2, <3>3
  <2> QED
    BY <2>1, <2>2
<1> QED
  BY <1>1, <1>2, <1>3 DEF FSInv

\* Who has an inode locked has a pointer to it, and another one if it is about
\* to give one back.
LEMMA LockHeld ==
    ASSUME FSInv, NEW q \in Proc, NEW j \in Inode, HasLocked(q, j)
    PROVE  /\ Held(q, j) >= 1
           /\ todo[q] # << >> /\ todo[q][1].op = "put" /\ todo[q][1].i = j => Held(q, j) >= 2
<1> DEFINE s == todo[q]
           l == loc[q]
           Puts1 == s # << >> /\ s[1].op = "put" /\ s[1].i = j
<1>1. s \in Seq(CallT) /\ Stage(q) /\ CallsOK(s)
  BY DEF FSInv, FSType
<1>2. Puts(s, j) \in Nat
  BY <1>1, PutsType
<1>3. Is(l.ip, j) \in {0, 1} /\ Is(l.keep, j) \in {0, 1} /\ Is(cwd[q], j) \in {0, 1}
  BY IsType
<1>4. Held(q, j) = Puts(s, j) + (IF l.fn = "write" THEN 0 ELSE Is(l.ip, j)) + Is(l.keep, j)
                     + Is(cwd[q], j)
  BY DEF Held
<1>5. ASSUME Puts1 PROVE Puts(s, j) >= 1
  <2>1. 1 \in 1 .. Len(s) /\ s[1].op # "unlock" /\ s[1].i = j
    BY <1>1, <1>5
  <2> QED
    BY <1>1, <2>1, PutsAt
<1>6. CASE Unlocks(s, j)
  <2>1. PICK k \in 1 .. Len(s) : s[k] = Unlock(j)
    BY <1>6 DEF Unlocks
  <2>2. s[k].op = "unlock" /\ s[k].i = j
    BY <2>1 DEF Unlock
  <2>3. k + 1 \in 1 .. Len(s) /\ s[k + 1] = Put(j)
    BY <1>1, <2>1, <2>2 DEF CallsOK
  <2>4. s[k + 1].op = "put" /\ s[k + 1].i = j
    BY <2>3 DEF Put
  <2>5. Puts(s, j) >= 1
    BY <1>1, <2>3, <2>4, PutsAt
  <2>6. ASSUME Puts1 PROVE Puts(s, j) >= 2
    <3>1. 1 \in 1 .. Len(s) /\ 1 # k + 1
      BY <1>1, <2>6
    <3>2. s[1].op # "unlock" /\ s[1].i = j
      BY <2>6
    <3> QED
      BY <1>1, <2>3, <2>4, <3>1, <3>2, PutsAt
  <2> HIDE DEF Puts1, s, l
  <2> QED
    BY <1>2, <1>3, <1>4, <2>5, <2>6 DEF Puts1, s
<1>7. CASE Frees(s, j)
  <2>1. s # << >> /\ s[1].op \in {"free", "freed"} /\ s[1].i = j
    BY <1>7 DEF Frees
  <2>2. 1 \in 1 .. Len(s) /\ s[1].op # "unlock"
    BY <1>1, <2>1
  <2>3. Puts(s, j) >= 1
    BY <1>1, <2>1, <2>2, PutsAt
  <2>4. ~Puts1
    BY <2>1
  <2> HIDE DEF Puts1, s, l
  <2> QED
    BY <1>2, <1>3, <1>4, <2>3, <2>4 DEF Puts1, s
<1>8. CASE KeepsLocked(l, j)
  <2>1. Is(l.keep, j) = 1 \/ (l.fn # "write" /\ Is(l.ip, j) = 1)
    BY <1>1, <1>8 DEF KeepsLocked, Stage, StageOK, Is
  <2>2. Held(q, j) >= 1 + Puts(s, j)
    <3> HIDE DEF Puts1, s, l
    <3> QED
      BY <1>2, <1>3, <1>4, <2>1
  <2>3. Held(q, j) \in Nat
    BY HeldType DEF FSInv
  <2> HIDE DEF Puts1, s, l
  <2>4. Puts1 => Held(q, j) >= 2
    BY <1>2, <1>5, <2>2, <2>3
  <2> QED
    BY <1>2, <2>2, <2>3, <2>4 DEF Puts1, s
<1> QED
  BY <1>6, <1>7, <1>8 DEF HasLocked

LEMMA LockedRef ==
    ASSUME FSInv, NEW j \in Inode, itable[j].lock # None
    PROVE  itable[j].ref >= 1
<1>1. PICK q \in Proc : q = itable[j].lock
  BY DEF FSInv, FSType, EntryT
<1>2. HasLocked(q, j)
  BY <1>1 DEF FSInv, LocksExact
<1>3. Held(q, j) >= 1
  BY <1>2, LockHeld
<1> QED
  BY <1>3, RefOne DEF FSInv

\* ilock() leaves in memory what the disk has, and never a free inode.
LEMMA LockedCopy ==
    ASSUME FSInv, NEW i \in Inode, itable[i].lock = None, ~NoType(i)
    PROVE  Ilocked(i) = disk.di[i] /\ disk.di[i] \in DinodeT /\ disk.di[i].type # "free"
<1>1. disk.di[i] \in DinodeT
  BY DEF FSInv, FSType, DiskT
<1>2. \A q \in Proc : ~Freed(todo[q], i)
  <2> SUFFICES ASSUME NEW q \in Proc, Freed(todo[q], i) PROVE FALSE
    OBVIOUS
  <2>1. HasLocked(q, i)
    BY DEF HasLocked, Frees, Freed
  <2>2. itable[i].lock = q
    BY <2>1 DEF FSInv, LocksExact
  <2> QED
    BY <2>2, Sizes
<1>3. CASE itable[i].valid
  BY <1>1, <1>2, <1>3 DEF FSInv, MemoryExact, Ilocked
<1>4. CASE ~itable[i].valid
  BY <1>1, <1>4 DEF NoType, Ilocked
<1> QED
  BY <1>3, <1>4

\* The same of an inode that a call has locked in an earlier step.
LEMMA KeptCopy ==
    ASSUME FSInv, NEW p \in Proc, NEW i \in Inode, HasLocked(p, i), ~Freed(todo[p], i)
    PROVE  /\ itable[i].lock = p /\ itable[i].valid /\ itable[i].ref >= 1
           /\ itable[i].d = disk.di[i] /\ disk.di[i] \in DinodeT /\ disk.di[i].type # "free"
<1>1. disk.di[i] \in DinodeT
  BY DEF FSInv, FSType, DiskT
<1>2. itable[i].lock = p /\ p # None
  BY Sizes DEF FSInv, LocksExact
<1>3. itable[i].valid
  BY <1>2 DEF FSInv, LocksExact
<1>4. \A q \in Proc : ~Freed(todo[q], i)
  <2> SUFFICES ASSUME NEW q \in Proc, Freed(todo[q], i) PROVE FALSE
    OBVIOUS
  <2>1. HasLocked(q, i)
    BY DEF HasLocked, Frees, Freed
  <2>2. itable[i].lock = q
    BY <2>1 DEF FSInv, LocksExact
  <2> QED
    BY <1>2, <2>2
<1>5. itable[i].ref >= 1
  BY <1>2, LockedRef
<1> QED
  BY <1>1, <1>2, <1>3, <1>4, <1>5 DEF FSInv, MemoryExact

-----------------------------------------------------------------------------
(* Blocks.                                                                 *)

\* A disk with another copy of one inode.
With(d, i, ip) == [d EXCEPT !.di[i] = ip]

LEMMA WithIs ==
    ASSUME NEW d \in DiskT, NEW i \in Inode, NEW ip \in DinodeT
    PROVE  /\ With(d, i, ip) \in DiskT
           /\ With(d, i, ip).di[i] = ip
           /\ \A j \in Inode \ {i} : With(d, i, ip).di[j] = d.di[j]
           /\ With(d, i, ip).ents = d.ents /\ With(d, i, ip).used = d.used
           /\ With(d, i, ip).ind = d.ind
BY DEF With, DiskT

LEMMA DiskIs ==
    ASSUME NEW d \in DiskT
    PROVE  /\ d.di \in [Inode -> DinodeT] /\ d.ents \in [Inode -> Seq(DirentT)]
           /\ d.used \in SUBSET Block /\ d.ind \in [Block -> IndT]
BY DEF DiskT

LEMMA AddrsIs ==
    ASSUME NEW ip \in DinodeT
    PROVE  ip.addrs \in [0 .. NDIRECT -> 0 .. NBlock] /\ ip.type \in TypeT
BY DEF DinodeT

\* A block more, in a place that was empty.
LEMMA ExactFill ==
    ASSUME NEW A, NEW A1, NEW used \in SUBSET Block, Exact(A, used),
           NEW b \in Block \ used, NEW i \in Inode, NEW k \in Slot,
           A[i][k] = 0, A1[i][k] = b,
           \A j \in Inode, l \in Slot : ~(j = i /\ l = k) => A1[j][l] = A[j][l]
    PROVE  Exact(A1, used \cup {b})
<1>1. ASSUME NEW j \in Inode, NEW l \in Slot, A1[j][l] # 0
      PROVE  A1[j][l] \in used \cup {b}
  BY <1>1 DEF Exact
<1>2. ASSUME NEW c \in used \cup {b}
      PROVE  \E j \in Inode, l \in Slot : A1[j][l] = c
  <2>1. CASE c = b
    BY <2>1
  <2>2. CASE c # b
    <3>1. PICK j \in Inode, l \in Slot : A[j][l] = c
      BY <1>2, <2>2 DEF Exact
    <3>2. c \in Block
      BY <1>2, <2>2
    <3>3. c # 0
      BY <3>2, Sizes DEF Block
    <3>4. ~(j = i /\ l = k)
      BY <3>1, <3>3
    <3> QED
      BY <3>1, <3>4
  <2> QED
    BY <2>1, <2>2
<1>3. ASSUME NEW j \in Inode, NEW m \in Inode, NEW l \in Slot, NEW n \in Slot,
             A1[j][l] # 0, A1[j][l] = A1[m][n]
      PROVE  j = m /\ l = n
  <2>1. \A x \in Inode, y \in Slot : A[x][y] # 0 => A[x][y] # b
    BY DEF Exact
  <2>2. b # 0
    BY Sizes DEF Block
  <2>3. CASE j = i /\ l = k
    <3>1. A1[m][n] = b
      BY <1>3, <2>3
    <3>2. m = i /\ n = k
      <4> SUFFICES ASSUME ~(m = i /\ n = k) PROVE FALSE
        OBVIOUS
      <4>1. A[m][n] = b
        BY <3>1
      <4> QED
        BY <2>1, <2>2, <4>1
    <3> QED
      BY <2>3, <3>2
  <2>4. CASE ~(j = i /\ l = k)
    <3>1. A1[j][l] = A[j][l]
      BY <2>4
    <3>2. ~(m = i /\ n = k)
      BY <1>3, <2>1, <3>1
    <3>3. A[j][l] # 0 /\ A[j][l] = A[m][n]
      BY <1>3, <3>1, <3>2
    <3> QED
      BY <3>3 DEF Exact
  <2> QED
    BY <2>3, <2>4
<1> QED
  BY <1>1, <1>2, <1>3 DEF Exact

\* All the blocks of one inode less.
LEMMA ExactClear ==
    ASSUME NEW A, NEW A1, NEW used, Exact(A, used), NEW i \in Inode, 0 \notin used,
           \A l \in Slot : A1[i][l] = 0,
           \A j \in Inode \ {i}, l \in Slot : A1[j][l] = A[j][l]
    PROVE  Exact(A1, used \ {A[i][l] : l \in Slot})
<1> DEFINE U == used \ {A[i][l] : l \in Slot}
<1>1. ASSUME NEW j \in Inode, NEW l \in Slot, A1[j][l] # 0
      PROVE  A1[j][l] \in U
  <2>1. j # i /\ A1[j][l] = A[j][l]
    BY <1>1
  <2> QED
    BY <1>1, <2>1 DEF Exact
<1>2. ASSUME NEW c \in U PROVE \E j \in Inode, l \in Slot : A1[j][l] = c
  <2>1. PICK j \in Inode, l \in Slot : A[j][l] = c
    BY DEF Exact
  <2>2. j # i
    BY <2>1
  <2> QED
    BY <2>1, <2>2
<1>3. ASSUME NEW j \in Inode, NEW m \in Inode, NEW l \in Slot, NEW n \in Slot,
             A1[j][l] # 0, A1[j][l] = A1[m][n]
      PROVE  j = m /\ l = n
  <2>1. j # i /\ m # i
    BY <1>3
  <2> QED
    BY <1>3, <2>1 DEF Exact
<1> HIDE DEF U
<1>4. Exact(A1, U)
  BY <1>1, <1>2, <1>3 DEF Exact
<1> QED
  BY <1>4 DEF U

\* Exact() depends on the places only.
LEMMA ExactSame ==
    ASSUME NEW A, NEW A1, NEW used, Exact(A, used),
           \A j \in Inode, l \in Slot : A1[j][l] = A[j][l]
    PROVE  Exact(A1, used)
BY DEF Exact

LEMMA MapIs ==
    ASSUME NEW d, NEW i \in Inode, NEW k \in Slot
    PROVE  Map(d)[i][k] = Addr(d.di[i], d.ind, k)
BY DEF Map

\* A step that changes no address keeps every block where it is.
LEMMA SlotsSame ==
    ASSUME NEW d, NEW d1, SlotsExact(d), d1.used = d.used, d1.ind = d.ind,
           \A i \in Inode : /\ d1.di[i].addrs = d.di[i].addrs
                            /\ d1.di[i].type = "free" => d.di[i].type = "free"
    PROVE  SlotsExact(d1)
<1>1. \A j \in Inode, l \in Slot : Map(d1)[j][l] = Map(d)[j][l]
  BY MapIs DEF Addr
<1>2. Exact(Map(d1), d1.used)
  BY <1>1, ExactSame DEF SlotsExact
<1> QED
  BY <1>2 DEF SlotsExact

\* Nor does one that leaves the indirect blocks alone.
LEMMA SlotsKept ==
    ASSUME NEW d, NEW d1, SlotsExact(d), d1.used = d.used,
           \A i \in Inode : /\ d1.di[i] = d.di[i]
                            /\ d.di[i].addrs[NDIRECT] # 0 =>
                                 d1.ind[d.di[i].addrs[NDIRECT]] = d.ind[d.di[i].addrs[NDIRECT]]
    PROVE  SlotsExact(d1)
<1>1. ASSUME NEW j \in Inode, NEW l \in Slot PROVE Map(d1)[j][l] = Map(d)[j][l]
  <2>1. Addr(d1.di[j], d1.ind, l) = Addr(d.di[j], d.ind, l)
    BY DEF Addr
  <2> QED
    BY <2>1, MapIs
<1>2. Exact(Map(d1), d1.used)
  BY <1>1, ExactSame DEF SlotsExact
<1> QED
  BY <1>2 DEF SlotsExact

\* What bmap() and the functions it calls return.
MappedT == [ip : DinodeT, d : DiskT, b : 0 .. NBlock]

LEMMA ZeroType == Zero \in IndT /\ Junk \in IndT /\ \A k \in 0 .. NINDIRECT - 1 : Zero[k] = 0
BY Sizes DEF Zero, Junk, IndT

\* balloc() returns a block that was free, zeroed, or changes nothing.
LEMMA BallocIs ==
    ASSUME NEW d \in DiskT, NEW r, r = Balloc(d)
    PROVE  /\ r.b \in 0 .. NBlock /\ r.d \in DiskT /\ r.d.di = d.di /\ r.d.ents = d.ents
           /\ r.b = 0 => r.d = d
           /\ r.b # 0 => /\ r.b \in Block \ d.used
                         /\ r.d.used = d.used \cup {r.b}
                         /\ r.d.ind = [d.ind EXCEPT ![r.b] = Zero]
<1>1. CASE FreeBlocks(d) = {}
  <2>1. r = [d |-> d, b |-> 0]
    BY <1>1 DEF Balloc
  <2>2. 0 \in 0 .. NBlock
    BY Sizes
  <2> QED
    BY <2>1, <2>2
<1>2. CASE FreeBlocks(d) # {}
  <2> DEFINE b == Min(FreeBlocks(d))
             d1 == [d EXCEPT !.used = @ \cup {b}, !.ind[b] = Zero]
  <2>1. FreeBlocks(d) \in SUBSET Nat
    BY Sizes DEF FreeBlocks, Block
  <2>2. b \in FreeBlocks(d)
    BY <1>2, <2>1, MinLeast
  <2>3. b \in Block \ d.used
    BY <2>2 DEF FreeBlocks
  <2>4. b \in 0 .. NBlock /\ b # 0
    BY <2>3, Sizes DEF Block
  <2> HIDE DEF b
  <2>5. r = [b |-> b, d |-> d1]
    BY <1>2 DEF Balloc, b
  <2>6. d.ind \in [Block -> IndT] /\ d.used \in SUBSET Block
    BY DiskIs
  <2>7. [d.ind EXCEPT ![b] = Zero] \in [Block -> IndT] /\ d.used \cup {b} \in SUBSET Block
    BY <2>3, <2>6, ZeroType
  <2>8. PICK u : u = [d EXCEPT !.used = @ \cup {b}]
    OBVIOUS
  <2>9. /\ u \in DiskT /\ u.di = d.di /\ u.ents = d.ents /\ u.used = d.used \cup {b}
         /\ u.ind = d.ind
    BY <2>7, <2>8 DEF DiskT
  <2>10. d1 = [u EXCEPT !.ind[b] = Zero]
    BY <2>8
  <2>11. /\ d1.di = d.di /\ d1.ents = d.ents /\ d1.used = d.used \cup {b}
        /\ d1.ind = [d.ind EXCEPT ![b] = Zero]
    <3> HIDE DEF d1
    <3> QED
      BY <2>9, <2>10 DEF DiskT
  <2>12. d1 \in DiskT
    <3> HIDE DEF d1
    <3>1. u.ind \in [Block -> IndT] /\ [u.ind EXCEPT ![b] = Zero] \in [Block -> IndT]
      BY <2>7, <2>9, DiskIs
    <3>2. d1 = [u EXCEPT !.ind = [u.ind EXCEPT ![b] = Zero]]
      BY <2>10
    <3> QED
      BY <2>9, <3>1, <3>2 DEF DiskT
  <2> HIDE DEF d1
  <2> QED
    BY <2>3, <2>4, <2>5, <2>11, <2>12
<1> QED
  BY <1>1, <1>2

\* The inode ip, in place of what the disk d has for i, owns its blocks.
InodeOK(i, ip, d) ==
    /\ ip \in DinodeT /\ d \in DiskT /\ ip.type # "free"
    /\ SlotsExact(With(d, i, ip))

\* An indirect block is in use.
LEMMA IndirectUsed ==
    ASSUME NEW d \in DiskT, SlotsExact(d), NEW j \in Inode, d.di[j].addrs[NDIRECT] # 0
    PROVE  d.di[j].addrs[NDIRECT] \in d.used /\ d.di[j].addrs[NDIRECT] \in Block
<1>1. NDIRECT \in Slot /\ NDIRECT <= NDIRECT
  BY Sizes DEF Slot
<1>2. Map(d)[j][NDIRECT] = d.di[j].addrs[NDIRECT]
  BY <1>1, MapIs DEF Addr
<1>3. d.di[j].addrs[NDIRECT] \in d.used
  BY <1>1, <1>2 DEF SlotsExact, Exact
<1> QED
  BY <1>3, DiskIs

\* A block taken for an empty place of i.
LEMMA SlotsFill ==
    ASSUME NEW d \in DiskT, NEW d1 \in DiskT, NEW i \in Inode, NEW k \in Slot,
           NEW b \in Block \ d.used, SlotsExact(d), d1.used = d.used \cup {b},
           \A j \in Inode, l \in Slot :
             ~(j = i /\ l = k) => Addr(d1.di[j], d1.ind, l) = Addr(d.di[j], d.ind, l),
           Addr(d.di[i], d.ind, k) = 0, Addr(d1.di[i], d1.ind, k) = b,
           d1.di[i].type # "free", \A j \in Inode \ {i} : d1.di[j] = d.di[j]
    PROVE  SlotsExact(d1)
<1>1. /\ Map(d)[i][k] = 0 /\ Map(d1)[i][k] = b
      /\ \A j \in Inode, l \in Slot : ~(j = i /\ l = k) => Map(d1)[j][l] = Map(d)[j][l]
  BY MapIs
<1>2. d.used \in SUBSET Block /\ Exact(Map(d), d.used)
  BY DiskIs DEF SlotsExact
<1>3. Exact(Map(d1), d.used \cup {b})
  BY <1>1, <1>2, ExactFill
<1> QED
  BY <1>3 DEF SlotsExact

LEMMA InodeAddrIs ==
    ASSUME NEW i \in Inode, NEW ip, NEW d, InodeOK(i, ip, d), NEW k \in 0 .. NDIRECT,
           NEW r, r = InodeAddr(ip, d, k)
    PROVE  /\ r \in MappedT /\ InodeOK(i, r.ip, r.d) /\ r.ip.type = ip.type
           /\ r.d.di = d.di /\ r.d.ents = d.ents /\ r.b = r.ip.addrs[k]
<1>1. /\ ip \in DinodeT /\ d \in DiskT /\ ip.type # "free" /\ SlotsExact(With(d, i, ip))
      /\ ip.addrs \in [0 .. NDIRECT -> 0 .. NBlock] /\ ip.addrs[k] \in 0 .. NBlock
  BY AddrsIs DEF InodeOK
<1>2. CASE ip.addrs[k] # 0
  <2>1. r = [ip |-> ip, d |-> d, b |-> ip.addrs[k]]
    BY <1>2 DEF InodeAddr
  <2>2. r \in MappedT
    BY <1>1, <2>1 DEF MappedT
  <2> QED
    BY <2>1, <2>2
<1>3. CASE ip.addrs[k] = 0
  <2>1. PICK a : a = Balloc(d)
    OBVIOUS
  <2>2. /\ a.b \in 0 .. NBlock /\ a.d \in DiskT /\ a.d.di = d.di /\ a.d.ents = d.ents
        /\ a.b = 0 => a.d = d
        /\ a.b # 0 => /\ a.b \in Block \ d.used
                      /\ a.d.used = d.used \cup {a.b}
                      /\ a.d.ind = [d.ind EXCEPT ![a.b] = Zero]
    BY <1>1, <2>1, BallocIs
  <2> DEFINE ip1 == [ip EXCEPT !.addrs[k] = a.b]
  <2>3. r = [ip |-> ip1, d |-> a.d, b |-> a.b]
    BY <1>3, <2>1 DEF InodeAddr, Filled
  <2>4. /\ ip1 \in DinodeT /\ ip1.type = ip.type /\ ip1.addrs = [ip.addrs EXCEPT ![k] = a.b]
        /\ ip1.addrs[k] = a.b
    BY <1>1, <2>2 DEF DinodeT
  <2>5. r \in MappedT
    BY <2>2, <2>3, <2>4 DEF MappedT
  <2> HIDE DEF ip1
  <2>6. SlotsExact(With(a.d, i, ip1))
    <3> DEFINE c == With(d, i, ip)
               c1 == With(a.d, i, ip1)
    <3>1. /\ c \in DiskT /\ c.di[i] = ip /\ c.used = d.used /\ c.ind = d.ind
          /\ \A j \in Inode \ {i} : c.di[j] = d.di[j]
      BY <1>1, WithIs
    <3>2. /\ c1 \in DiskT /\ c1.di[i] = ip1 /\ c1.used = a.d.used /\ c1.ind = a.d.ind
          /\ \A j \in Inode \ {i} : c1.di[j] = d.di[j]
      <4>1. a.d \in DiskT /\ a.d.di = d.di
        BY <2>2
      <4>2. /\ c1 \in DiskT /\ c1.di[i] = ip1 /\ c1.used = a.d.used /\ c1.ind = a.d.ind
            /\ \A j \in Inode \ {i} : c1.di[j] = a.d.di[j]
        BY <2>4, <4>1, WithIs
      <4> HIDE DEF c1
      <4> QED
        BY <4>1, <4>2
    <3>3. SlotsExact(c)
      BY <1>1
    <3> HIDE DEF c, c1
    <3>4. CASE a.b = 0
      <4>1. ip1.addrs = ip.addrs
        BY <1>1, <1>3, <2>4, <3>4
      <4>2. \A j \in Inode : c1.di[j].addrs = c.di[j].addrs /\ c1.di[j].type = c.di[j].type
        BY <2>4, <3>1, <3>2, <4>1
      <4>3. c1.used = c.used /\ c1.ind = c.ind
        BY <2>2, <3>1, <3>2, <3>4
      <4> QED
        BY <3>3, <4>2, <4>3, SlotsSame DEF c1
    <3>5. CASE a.b # 0
      <4>1. k \in Slot /\ k <= NDIRECT
        BY Sizes DEF Slot
      <4>2. Addr(c.di[i], c.ind, k) = 0 /\ Addr(c1.di[i], c1.ind, k) = a.b
        BY <1>3, <2>4, <3>1, <3>2, <4>1 DEF Addr
      <4>3. \A j \in Inode : c.di[j].addrs[NDIRECT] # 0 =>
              /\ c.di[j].addrs[NDIRECT] \in Block
              /\ c1.ind[c.di[j].addrs[NDIRECT]] = c.ind[c.di[j].addrs[NDIRECT]]
        <5> TAKE j \in Inode
        <5> HAVE c.di[j].addrs[NDIRECT] # 0
        <5>1. c.di[j].addrs[NDIRECT] \in c.used /\ c.di[j].addrs[NDIRECT] \in Block
          BY <3>1, <3>3, IndirectUsed
        <5>2. c.di[j].addrs[NDIRECT] # a.b
          BY <2>2, <3>1, <3>5, <5>1
        <5> QED
          BY <1>1, <2>2, <3>1, <3>2, <3>5, <5>1, <5>2, DiskIs
      <4>4. ASSUME NEW j \in Inode, NEW l \in Slot, ~(j = i /\ l = k)
            PROVE  Addr(c1.di[j], c1.ind, l) = Addr(c.di[j], c.ind, l)
        <5>1. CASE j # i
          <6>1. c1.di[j] = c.di[j]
            BY <3>1, <3>2, <5>1
          <6> QED
            BY <4>3, <6>1 DEF Addr
        <5>2. CASE j = i /\ l <= NDIRECT
          <6>1. l \in 0 .. NDIRECT /\ l # k
            BY <4>4, <5>2, Sizes DEF Slot
          <6>2. ip1.addrs[l] = ip.addrs[l]
            BY <1>1, <2>4, <6>1
          <6> QED
            BY <3>1, <3>2, <5>2, <6>2 DEF Addr
        <5>3. CASE j = i /\ ~(l <= NDIRECT) /\ k # NDIRECT
          <6>1. ip1.addrs[NDIRECT] = ip.addrs[NDIRECT]
            BY <1>1, <2>4, <5>3, Sizes
          <6> QED
            BY <3>1, <3>2, <4>3, <5>3, <6>1 DEF Addr
        <5>4. CASE j = i /\ ~(l <= NDIRECT) /\ k = NDIRECT
          <6>1. ip.addrs[NDIRECT] = 0 /\ ip1.addrs[NDIRECT] = a.b
            BY <1>3, <2>4, <5>4
          <6>2. l - NDIRECT - 1 \in 0 .. NINDIRECT - 1
            BY <5>4, Sizes DEF Slot
          <6>3. c1.ind[a.b] = Zero
            BY <1>1, <2>2, <3>2, <3>5, DiskIs
          <6>4. c1.ind[a.b][l - NDIRECT - 1] = 0
            BY <6>2, <6>3, ZeroType
          <6> QED
            BY <3>1, <3>2, <3>5, <5>4, <6>1, <6>4 DEF Addr
        <5> QED
          BY <5>1, <5>2, <5>3, <5>4
      <4>5. c1.di[i].type # "free" /\ \A j \in Inode \ {i} : c1.di[j] = c.di[j]
        BY <1>1, <2>4, <3>1, <3>2
      <4>6. c1.used = c.used \cup {a.b} /\ a.b \in Block \ c.used
        BY <2>2, <3>1, <3>2, <3>5
      <4> QED
        BY <3>1, <3>2, <3>3, <4>1, <4>2, <4>4, <4>5, <4>6, SlotsFill DEF c1
    <3> QED
      BY <3>4, <3>5
  <2> QED
    BY <1>1, <2>2, <2>3, <2>4, <2>5, <2>6 DEF InodeOK
<1> QED
  BY <1>2, <1>3

LEMMA IndirectAddrIs ==
    ASSUME NEW i \in Inode, NEW h \in MappedT, InodeOK(i, h.ip, h.d),
           h.b = h.ip.addrs[NDIRECT], NEW j \in 0 .. NINDIRECT - 1,
           NEW r, r = IndirectAddr(h, j)
    PROVE  /\ r \in MappedT /\ InodeOK(i, r.ip, r.d) /\ r.ip = h.ip
           /\ r.d.di = h.d.di /\ r.d.ents = h.d.ents
           /\ r.b # 0 => r.b = Addr(r.ip, r.d.ind, NDIRECT + 1 + j)
<1>1. PICK ip \in DinodeT, d \in DiskT, b \in 0 .. NBlock : h = [ip |-> ip, d |-> d, b |-> b]
  BY DEF MappedT
<1>2. h.ip = ip /\ h.d = d /\ h.b = b /\ b = ip.addrs[NDIRECT]
  BY <1>1
<1>3. ip.type # "free" /\ SlotsExact(With(d, i, ip))
  BY <1>2 DEF InodeOK
<1>4. /\ ~(NDIRECT + 1 + j <= NDIRECT) /\ (NDIRECT + 1 + j) - NDIRECT - 1 = j
      /\ NDIRECT + 1 + j \in Slot
  BY Sizes DEF Slot
<1>5. CASE b = 0
  BY <1>1, <1>2, <1>5 DEF IndirectAddr
<1>6. CASE b # 0
  <2>1. b \in Block
    BY <1>6, Sizes DEF Block
  <2>2. d.ind \in [Block -> IndT] /\ d.ind[b] \in IndT /\ d.ind[b][j] \in 0 .. NBlock
    BY <2>1, DiskIs, ZenonT(30) DEF IndT
  <2>3. CASE d.ind[b][j] # 0
    <3>1. r = [ip |-> ip, d |-> d, b |-> d.ind[b][j]]
      BY <1>1, <1>6, <2>3 DEF IndirectAddr
    <3>2. r \in MappedT
      BY <2>2, <3>1 DEF MappedT
    <3>3. Addr(ip, d.ind, NDIRECT + 1 + j) = d.ind[b][j]
      BY <1>2, <1>4, <1>6 DEF Addr
    <3> QED
      BY <1>2, <3>1, <3>2, <3>3
  <2>4. CASE d.ind[b][j] = 0
    <3>1. PICK a : a = Balloc(d)
      OBVIOUS
    <3>2. /\ a.b \in 0 .. NBlock /\ a.d \in DiskT /\ a.d.di = d.di /\ a.d.ents = d.ents
          /\ a.b = 0 => a.d = d
          /\ a.b # 0 => /\ a.b \in Block \ d.used
                        /\ a.d.used = d.used \cup {a.b}
                        /\ a.d.ind = [d.ind EXCEPT ![a.b] = Zero]
      BY <3>1, BallocIs
    <3> DEFINE d1 == [a.d EXCEPT !.ind[b][j] = a.b]
    <3>3. r = [ip |-> ip, d |-> d1, b |-> a.b]
      BY <1>1, <1>6, <2>4, <3>1 DEF IndirectAddr
    <3>4. a.d.ind \in [Block -> IndT] /\ a.d.ind[b] \in IndT
      BY <2>1, <3>2, DiskIs
    <3>5. [a.d.ind[b] EXCEPT ![j] = a.b] \in IndT
      BY <3>2, <3>4 DEF IndT
    <3> DEFINE n1 == [a.d.ind EXCEPT ![b] = [a.d.ind[b] EXCEPT ![j] = a.b]]
    <3>6. n1 \in [Block -> IndT]
      BY <3>4, <3>5
    <3>7. d1 = [a.d EXCEPT !.ind = n1]
      OBVIOUS
    <3>8. /\ n1[b][j] = a.b
          /\ \A l \in 0 .. NINDIRECT - 1 : l # j => n1[b][l] = a.d.ind[b][l]
          /\ \A x \in Block : x # b => n1[x] = a.d.ind[x]
      BY <2>1, <3>4 DEF IndT
    <3> HIDE DEF d1, n1
    <3>9. /\ d1 \in DiskT /\ d1.ind = n1 /\ d1.di = d.di /\ d1.ents = d.ents
          /\ d1.used = a.d.used
      BY <3>2, <3>6, <3>7 DEF DiskT
    <3>10. r \in MappedT
      BY <3>2, <3>3, <3>9 DEF MappedT
    <3>11. Addr(ip, d1.ind, NDIRECT + 1 + j) = a.b
      BY <1>2, <1>4, <1>6, <3>8, <3>9 DEF Addr
    <3> DEFINE c == With(d, i, ip)
               c1 == With(d1, i, ip)
    <3>12. /\ c \in DiskT /\ c.di[i] = ip /\ c.used = d.used /\ c.ind = d.ind
           /\ \A m \in Inode \ {i} : c.di[m] = d.di[m]
      BY WithIs
    <3>13. /\ c1 \in DiskT /\ c1.di[i] = ip /\ c1.used = d1.used /\ c1.ind = d1.ind
           /\ \A m \in Inode \ {i} : c1.di[m] = d1.di[m]
      BY <3>9, WithIs
    <3>14. SlotsExact(c)
      BY <1>3
    <3> HIDE DEF c, c1
    <3>15. \A m \in Inode : c1.di[m] = c.di[m]
      BY <3>9, <3>12, <3>13
    <3>16. SlotsExact(c1)
      <4>1. CASE a.b = 0
        <5>1. a.d.ind = d.ind /\ a.d.used = d.used
          BY <3>2, <4>1
        <5>2. n1 = d.ind
          <6>1. [d.ind[b] EXCEPT ![j] = 0] = d.ind[b]
            BY <2>2, <2>4 DEF IndT
          <6>2. n1 = [d.ind EXCEPT ![b] = [d.ind[b] EXCEPT ![j] = 0]]
            BY <4>1, <5>1 DEF n1
          <6> QED
            BY <2>2, <6>1, <6>2
        <5>3. c1.used = c.used /\ c1.ind = c.ind
          BY <3>9, <3>12, <3>13, <5>1, <5>2
        <5> QED
          BY <3>14, <3>15, <5>3, SlotsSame
      <4>2. CASE a.b # 0
        <5> DEFINE k == NDIRECT + 1 + j
        <5>1. b \in d.used /\ b # a.b
          <6>1. c.di[i].addrs[NDIRECT] # 0
            BY <1>2, <1>6, <3>12
          <6>2. b \in c.used
            BY <1>2, <3>12, <3>14, <6>1, IndirectUsed
          <6> QED
            BY <3>2, <3>12, <4>2, <6>2
        <5>2. \A x \in Block : x # b /\ x # a.b => n1[x] = d.ind[x]
          BY <2>2, <3>2, <3>8, <4>2
        <5>3. a.d.ind[b] = d.ind[b]
          BY <2>1, <2>2, <3>2, <4>2, <5>1
        <5>4. ASSUME NEW m \in Inode \ {i}, c.di[m].addrs[NDIRECT] # 0
              PROVE  n1[c.di[m].addrs[NDIRECT]] = d.ind[c.di[m].addrs[NDIRECT]]
          <6>1. c.di[m].addrs[NDIRECT] \in c.used /\ c.di[m].addrs[NDIRECT] \in Block
            BY <3>12, <3>14, <5>4, IndirectUsed
          <6>2. NDIRECT \in Slot /\ NDIRECT <= NDIRECT
            BY Sizes DEF Slot
          <6>3. Map(c)[m][NDIRECT] = c.di[m].addrs[NDIRECT] /\ Map(c)[i][NDIRECT] = b
            BY <1>2, <3>12, <6>2, MapIs DEF Addr
          <6>4. c.di[m].addrs[NDIRECT] # b
            BY <3>14, <5>4, <6>2, <6>3 DEF SlotsExact, Exact
          <6>5. c.di[m].addrs[NDIRECT] # a.b
            BY <3>2, <3>12, <4>2, <6>1
          <6> QED
            BY <5>2, <6>1, <6>4, <6>5
        <5>5. ASSUME NEW m \in Inode, NEW l \in Slot, ~(m = i /\ l = k)
              PROVE  Addr(c1.di[m], c1.ind, l) = Addr(c.di[m], c.ind, l)
          <6>1. CASE m # i
            BY <3>9, <3>12, <3>13, <3>15, <5>4, <6>1 DEF Addr
          <6>2. CASE m = i /\ l <= NDIRECT
            BY <3>15, <6>2 DEF Addr
          <6>3. CASE m = i /\ ~(l <= NDIRECT)
            <7>1. l - NDIRECT - 1 \in 0 .. NINDIRECT - 1 /\ l - NDIRECT - 1 # j
              BY <5>5, <6>3, Sizes DEF Slot
            <7>2. n1[b][l - NDIRECT - 1] = d.ind[b][l - NDIRECT - 1]
              BY <3>8, <5>3, <7>1
            <7> QED
              BY <1>2, <1>6, <3>9, <3>12, <3>13, <6>3, <7>2 DEF Addr
          <6> QED
            BY <6>1, <6>2, <6>3
        <5>6. Addr(c.di[i], c.ind, k) = 0
          BY <1>2, <1>4, <1>6, <2>4, <3>12 DEF Addr
        <5>7. Addr(c1.di[i], c1.ind, k) = a.b
          BY <3>11, <3>13
        <5>8. c1.used = c.used \cup {a.b} /\ a.b \in Block \ c.used
          BY <3>2, <3>9, <3>12, <3>13, <4>2
        <5>9. c1.di[i].type # "free"
          BY <1>3, <3>13
        <5>10. k \in Slot
          BY <1>4
        <5> HIDE DEF k
        <5> QED
          BY <3>12, <3>13, <3>14, <3>15, <5>5, <5>6, <5>7, <5>8, <5>9, <5>10, SlotsFill
      <4> QED
        BY <4>1, <4>2
    <3> QED
      BY <1>2, <1>3, <3>3, <3>9, <3>10, <3>11, <3>16 DEF InodeOK, c1
  <2> QED
    BY <2>3, <2>4
<1> QED
  BY <1>5, <1>6

\* bmap(): the address is that of a place for data, never the indirect block.
LEMMA BmapIs ==
    ASSUME NEW i \in Inode, NEW ip, NEW d, InodeOK(i, ip, d), NEW bn \in Nat, bn < MAXFILE,
           NEW r, r = Bmap(ip, d, bn)
    PROVE  /\ r \in MappedT /\ InodeOK(i, r.ip, r.d) /\ r.ip.type = ip.type
           /\ r.d.di = d.di /\ r.d.ents = d.ents
           /\ r.b # 0 => \E k \in Slot \ {NDIRECT} : r.b = Addr(r.ip, r.d.ind, k)
<1>1. CASE bn < NDIRECT
  <2>1. bn \in 0 .. NDIRECT /\ bn \in Slot \ {NDIRECT} /\ bn <= NDIRECT
    BY <1>1, Sizes DEF Slot
  <2>2. r = InodeAddr(ip, d, bn)
    BY <1>1 DEF Bmap
  <2>3. /\ r \in MappedT /\ InodeOK(i, r.ip, r.d) /\ r.ip.type = ip.type
        /\ r.d.di = d.di /\ r.d.ents = d.ents /\ r.b = r.ip.addrs[bn]
    BY <2>1, <2>2, InodeAddrIs
  <2>4. r.b = Addr(r.ip, r.d.ind, bn)
    BY <2>1, <2>3 DEF Addr
  <2> QED
    BY <2>1, <2>3, <2>4
<1>2. CASE ~(bn < NDIRECT)
  <2>1. NDIRECT \in 0 .. NDIRECT
    BY Sizes
  <2>2. PICK h : h = InodeAddr(ip, d, NDIRECT)
    OBVIOUS
  <2>3. /\ h \in MappedT /\ InodeOK(i, h.ip, h.d) /\ h.ip.type = ip.type
        /\ h.d.di = d.di /\ h.d.ents = d.ents /\ h.b = h.ip.addrs[NDIRECT]
    BY <2>1, <2>2, InodeAddrIs
  <2>4. PICK j \in 0 .. NINDIRECT - 1 : j = bn - NDIRECT
    BY <1>2, Sizes DEF MAXFILE
  <2>5. r = IndirectAddr(h, j)
    BY <1>2, <2>2, <2>4 DEF Bmap
  <2>6. /\ r \in MappedT /\ InodeOK(i, r.ip, r.d) /\ r.ip = h.ip
        /\ r.d.di = h.d.di /\ r.d.ents = h.d.ents
        /\ r.b # 0 => r.b = Addr(r.ip, r.d.ind, NDIRECT + 1 + j)
    BY <2>3, <2>5, IndirectAddrIs
  <2>7. NDIRECT + 1 + j \in Slot \ {NDIRECT}
    BY Sizes DEF Slot
  <2> QED
    BY <2>3, <2>6, <2>7
<1> QED
  BY <1>1, <1>2

\* What writei() leaves of the disk d: the inode is written back, the others
\* are as they were, and what was written is in a place for data of the inode.
WriteT == [ok : BOOLEAN, ip : DinodeT, b : 0 .. NBlock, d : DiskT]
WritesTo(i, d, w) ==
    /\ w \in WriteT /\ SlotsExact(w.d)
    /\ w.d.di[i] = w.ip /\ w.ip.type = d.di[i].type
    /\ \A j \in Inode \ {i} : w.d.di[j] = d.di[j]

LEMMA DivNat ==
    ASSUME NEW m \in Nat, NEW n \in Nat \ {0} PROVE m \div n \in Nat
OBVIOUS

LEMMA WriteiIs ==
    ASSUME NEW i \in Inode, NEW d \in DiskT, SlotsExact(d), d.di[i].type # "free",
           NEW off \in Nat, NEW per \in Nat \ {0}, NEW good \in BOOLEAN,
           NEW w, w = Writei(i, d.di[i], d, off, per, good)
    PROVE  /\ WritesTo(i, d, w) /\ w.d.ents = d.ents
           /\ w.ok => w.b # 0 /\ \E k \in Slot \ {NDIRECT} : w.b = Addr(w.ip, w.d.ind, k)
<1>1. d.di[i] \in DinodeT
  BY DiskIs
<1>2. PICK ip \in DinodeT : ip = d.di[i]
  BY <1>1
<1>3. CASE off \div per >= MAXFILE
  <2>1. w = [ok |-> FALSE, ip |-> ip, d |-> d, b |-> 0]
    BY <1>2, <1>3 DEF Writei
  <2>2. 0 \in 0 .. NBlock
    BY Sizes
  <2>3. w \in WriteT
    BY <2>1, <2>2 DEF WriteT
  <2> QED
    BY <1>2, <2>1, <2>3 DEF WritesTo
<1>4. CASE ~(off \div per >= MAXFILE)
  <2>1. PICK bn \in Nat : bn = off \div per
    BY DivNat
  <2>2. bn < MAXFILE
    BY <1>4, <2>1, Sizes DEF MAXFILE
  <2>3. PICK r : r = Bmap(ip, d, bn)
    OBVIOUS
  <2>4. InodeOK(i, ip, d)
    <3> DEFINE c == With(d, i, ip)
    <3>1. /\ c.di[i] = ip /\ c.used = d.used /\ c.ind = d.ind
          /\ \A j \in Inode \ {i} : c.di[j] = d.di[j]
      BY WithIs
    <3> HIDE DEF c
    <3>2. \A j \in Inode : c.di[j] = d.di[j]
      BY <1>2, <3>1
    <3>3. SlotsExact(c)
      BY <3>1, <3>2, SlotsSame
    <3> QED
      BY <1>2, <3>3 DEF InodeOK, c
  <2>5. /\ r \in MappedT /\ InodeOK(i, r.ip, r.d) /\ r.ip.type = ip.type
        /\ r.d.di = d.di /\ r.d.ents = d.ents
        /\ r.b # 0 => \E k \in Slot \ {NDIRECT} : r.b = Addr(r.ip, r.d.ind, k)
    BY <2>2, <2>3, <2>4, BmapIs
  <2>6. /\ r.ip \in DinodeT /\ r.d \in DiskT /\ r.b \in 0 .. NBlock
        /\ SlotsExact(With(r.d, i, r.ip))
    BY <2>5 DEF MappedT, InodeOK
  <2> DEFINE ok == r.b # 0 /\ good
             new == IF ok /\ off >= ip.size THEN [r.ip EXCEPT !.size = off + 1] ELSE r.ip
             d1 == With(r.d, i, new)
  <2>7. w = [ok |-> ok, ip |-> new, b |-> r.b, d |-> d1]
    BY <1>2, <1>4, <2>1, <2>3 DEF Writei, Written, With
  <2>8. new \in DinodeT /\ new.addrs = r.ip.addrs /\ new.type = r.ip.type
    BY <2>6 DEF DinodeT
  <2>9. ok \in BOOLEAN
    OBVIOUS
  <2> HIDE DEF ok, new
  <2>10. /\ d1 \in DiskT /\ d1.di[i] = new /\ d1.used = r.d.used /\ d1.ind = r.d.ind
         /\ d1.ents = r.d.ents /\ \A j \in Inode \ {i} : d1.di[j] = r.d.di[j]
    BY <2>6, <2>8, WithIs, ZenonT(30)
  <2>11. SlotsExact(d1)
    <3> DEFINE c == With(r.d, i, r.ip)
    <3>1. /\ c.di[i] = r.ip /\ c.used = r.d.used /\ c.ind = r.d.ind
          /\ \A j \in Inode \ {i} : c.di[j] = r.d.di[j]
      BY <2>6, WithIs
    <3>2. SlotsExact(c)
      BY <2>6
    <3> HIDE DEF c, d1
    <3>3. \A j \in Inode : d1.di[j].addrs = c.di[j].addrs /\ d1.di[j].type = c.di[j].type
      BY <2>8, <2>10, <3>1
    <3> QED
      BY <2>10, <3>1, <3>2, <3>3, SlotsSame
  <2> HIDE DEF d1
  <2>12. w \in WriteT /\ w.ok = ok /\ w.ip = new /\ w.b = r.b /\ w.d = d1
    BY <2>6, <2>7, <2>8, <2>9, <2>10 DEF WriteT
  <2>13. WritesTo(i, d, w) /\ w.d.ents = d.ents
    BY <1>2, <2>5, <2>8, <2>10, <2>11, <2>12 DEF WritesTo
  <2>14. ASSUME w.ok PROVE w.b # 0 /\ \E k \in Slot \ {NDIRECT} : w.b = Addr(w.ip, w.d.ind, k)
    <3>1. r.b # 0
      BY <2>12, <2>14 DEF ok
    <3>2. PICK k \in Slot \ {NDIRECT} : r.b = Addr(r.ip, r.d.ind, k)
      BY <2>5, <3>1
    <3>3. Addr(new, d1.ind, k) = Addr(r.ip, r.d.ind, k)
      BY <2>8, <2>10 DEF Addr
    <3> QED
      BY <2>12, <3>1, <3>2, <3>3
  <2> QED
    BY <2>13, <2>14
<1> QED
  BY <1>3, <1>4

\* What a program writes into a data block is nobody's list of addresses.
LEMMA JunkWritten ==
    ASSUME NEW i \in Inode, NEW d \in DiskT, SlotsExact(d), NEW k \in Slot \ {NDIRECT},
           NEW b, b # 0, b = Addr(d.di[i], d.ind, k),
           NEW d1, d1 = [d EXCEPT !.ind[b] = Junk]
    PROVE  d1 \in DiskT /\ SlotsExact(d1) /\ d1.di = d.di /\ d1.ents = d.ents
<1>1. Map(d)[i][k] = b
  BY MapIs
<1>2. b \in d.used /\ b \in Block
  BY <1>1, DiskIs DEF SlotsExact, Exact
<1>3. d.ind \in [Block -> IndT] /\ [d.ind EXCEPT ![b] = Junk] \in [Block -> IndT]
  BY <1>2, DiskIs, ZeroType
<1>4. d1 = [d EXCEPT !.ind = [d.ind EXCEPT ![b] = Junk]]
  OBVIOUS
<1>5. /\ d1 \in DiskT /\ d1.di = d.di /\ d1.ents = d.ents /\ d1.used = d.used
      /\ d1.ind = [d.ind EXCEPT ![b] = Junk]
  BY <1>3, <1>4 DEF DiskT
<1>6. ASSUME NEW j \in Inode, d.di[j].addrs[NDIRECT] # 0
      PROVE  d1.ind[d.di[j].addrs[NDIRECT]] = d.ind[d.di[j].addrs[NDIRECT]]
  <2>1. NDIRECT \in Slot /\ NDIRECT <= NDIRECT
    BY Sizes DEF Slot
  <2>2. Map(d)[j][NDIRECT] = d.di[j].addrs[NDIRECT]
    BY <2>1, MapIs DEF Addr
  <2>3. d.di[j].addrs[NDIRECT] # b
    BY <1>1, <1>6, <2>1, <2>2 DEF SlotsExact, Exact
  <2>4. d.di[j].addrs[NDIRECT] \in Block
    BY <1>6, IndirectUsed
  <2> QED
    BY <1>3, <1>5, <2>3, <2>4
<1>7. PICK c \in DiskT : c = d1
  BY <1>5
<1>8. /\ c.used = d.used
      /\ \A j \in Inode : /\ c.di[j] = d.di[j]
                          /\ d.di[j].addrs[NDIRECT] # 0 =>
                               c.ind[d.di[j].addrs[NDIRECT]] = d.ind[d.di[j].addrs[NDIRECT]]
  BY <1>5, <1>6, <1>7
<1>9. SlotsExact(c)
  BY <1>8, SlotsKept
<1> QED
  BY <1>5, <1>7, <1>9

\* itrunc(): the inode has no blocks left.
LEMMA BlocksAre ==
    ASSUME NEW d \in DiskT, NEW i \in Inode
    PROVE  BlocksOf(d.di[i], d) = {Map(d)[i][l] : l \in Slot} \ {0}
<1> DEFINE ip == d.di[i]
           h == ip.addrs[NDIRECT]
           S == ({ip.addrs[k] : k \in 0 .. NDIRECT}
                   \cup (IF h = 0 THEN {} ELSE {d.ind[h][j] : j \in DOMAIN Zero})) \ {0}
<1>1. BlocksOf(ip, d) = S
  BY DEF BlocksOf
<1>2. DOMAIN Zero = 0 .. NINDIRECT - 1
  BY DEF Zero
<1>3. ASSUME NEW x \in S PROVE \E l \in Slot : x = Map(d)[i][l]
  <2>1. CASE \E k \in 0 .. NDIRECT : x = ip.addrs[k]
    <3>1. PICK k \in 0 .. NDIRECT : x = ip.addrs[k]
      BY <2>1
    <3>2. k \in Slot /\ k <= NDIRECT
      BY Sizes DEF Slot
    <3>3. Map(d)[i][k] = x
      BY <3>1, <3>2, MapIs DEF Addr
    <3> QED
      BY <3>2, <3>3
  <2>2. CASE h # 0 /\ \E j \in 0 .. NINDIRECT - 1 : x = d.ind[h][j]
    <3>1. PICK j \in 0 .. NINDIRECT - 1 : x = d.ind[h][j]
      BY <2>2
    <3>2. PICK l \in Slot : ~(l <= NDIRECT) /\ l - NDIRECT - 1 = j
      <4>1. /\ NDIRECT + 1 + j \in Slot /\ ~(NDIRECT + 1 + j <= NDIRECT)
            /\ (NDIRECT + 1 + j) - NDIRECT - 1 = j
        BY Sizes DEF Slot
      <4> QED
        BY <4>1
    <3>3. Map(d)[i][l] = x
      BY <2>2, <3>1, <3>2, MapIs DEF Addr
    <3> QED
      BY <3>3
  <2> QED
    BY <1>2, <1>3, <2>1, <2>2
<1>4. ASSUME NEW l \in Slot, Map(d)[i][l] # 0 PROVE Map(d)[i][l] \in S
  <2>1. Map(d)[i][l] = Addr(ip, d.ind, l)
    BY MapIs
  <2>2. CASE l <= NDIRECT
    <3>1. l \in 0 .. NDIRECT /\ Map(d)[i][l] = ip.addrs[l]
      BY <2>1, <2>2, Sizes DEF Slot, Addr
    <3> QED
      BY <1>4, <3>1
  <2>3. CASE ~(l <= NDIRECT)
    <3>1. l - NDIRECT - 1 \in 0 .. NINDIRECT - 1
      BY <2>3, Sizes DEF Slot
    <3>2. h # 0 /\ Map(d)[i][l] = d.ind[h][l - NDIRECT - 1]
      BY <1>4, <2>1, <2>3 DEF Addr
    <3> QED
      BY <1>2, <1>4, <3>1, <3>2
  <2> QED
    BY <2>2, <2>3
<1>5. \A x \in S : x # 0
  OBVIOUS
<1> HIDE DEF S
<1>6. S = {Map(d)[i][l] : l \in Slot} \ {0}
  BY <1>3, <1>4, <1>5
<1> QED
  BY <1>1, <1>6

LEMMA DinodeIs ==
    ASSUME NEW type \in TypeT, NEW nlink \in Int
    PROVE  /\ Dinode(type, nlink) \in DinodeT /\ Dinode(type, nlink).type = type
           /\ \A k \in 0 .. NDIRECT : Dinode(type, nlink).addrs[k] = 0
<1>1. [k \in 0 .. NDIRECT |-> 0] \in [0 .. NDIRECT -> 0 .. NBlock]
  BY Sizes
<1> QED
  BY <1>1 DEF Dinode, DinodeT

LEMMA ItruncIs ==
    ASSUME NEW i \in Inode, NEW d \in DiskT, SlotsExact(d), NEW type \in TypeT,
           NEW r, r = Itrunc(i, d.di[i], d, type)
    PROVE  /\ r.ip \in DinodeT /\ r.d \in DiskT /\ SlotsExact(r.d)
           /\ r.d.di[i] = r.ip /\ r.ip.type = type
           /\ \A j \in Inode \ {i} : r.d.di[j] = d.di[j]
<1>1. d.di[i] \in DinodeT /\ d.di[i].nlink \in Int
  BY DiskIs DEF DinodeT
<1> DEFINE e == Dinode(type, d.di[i].nlink)
           U == d.used \ BlocksOf(d.di[i], d)
           d1 == [d EXCEPT !.used = U]
           d2 == [d1 EXCEPT !.di[i] = e]
           d3 == [d2 EXCEPT !.ents[i] = << >>]
<1>2. e \in DinodeT /\ e.type = type /\ \A k \in 0 .. NDIRECT : e.addrs[k] = 0
  BY <1>1, DinodeIs
<1>3. r = [ip |-> e, d |-> d3]
  BY DEF Itrunc, Truncated
<1>4. U \in SUBSET Block
  BY DiskIs
<1> HIDE DEF e, U
<1>5. /\ d1 \in DiskT /\ d1.di = d.di /\ d1.ents = d.ents /\ d1.used = U /\ d1.ind = d.ind
  BY <1>4 DEF DiskT
<1> HIDE DEF d1
<1>6. /\ d2 \in DiskT /\ d2.di[i] = e /\ d2.used = U /\ d2.ind = d.ind
      /\ \A j \in Inode \ {i} : d2.di[j] = d.di[j]
  <2>1. d2 = With(d1, i, e)
    BY DEF With
  <2> HIDE DEF d2
  <2> QED
    BY <1>2, <1>5, <2>1, WithIs
<1> HIDE DEF d2
<1>7. d3 \in DiskT /\ d3.di = d2.di /\ d3.used = d2.used /\ d3.ind = d2.ind
  <2>1. << >> \in Seq(DirentT)
    OBVIOUS
  <2>2. d2.ents \in [Inode -> Seq(DirentT)] /\ [d2.ents EXCEPT ![i] = << >>] \in [Inode -> Seq(DirentT)]
    BY <1>6, <2>1, DiskIs
  <2>3. d3 = [d2 EXCEPT !.ents = [d2.ents EXCEPT ![i] = << >>]]
    OBVIOUS
  <2> HIDE DEF d3
  <2> QED
    BY <1>6, <2>2, <2>3 DEF DiskT
<1> HIDE DEF d3
<1>8. \A j \in Inode \ {i} : d3.di[j] = d.di[j]
  BY <1>6, <1>7
<1>9. d3.di[i] = e /\ d3.used = U /\ d3.ind = d.ind
  BY <1>6, <1>7
<1>10. SlotsExact(d3)
  <2>1. \A l \in Slot : Map(d3)[i][l] = 0
    <3> TAKE l \in Slot
    <3>1. l <= NDIRECT => l \in 0 .. NDIRECT
      BY Sizes DEF Slot
    <3>2. NDIRECT \in 0 .. NDIRECT
      BY Sizes
    <3> QED
      BY <1>2, <1>9, <3>1, <3>2, MapIs DEF Addr
  <2>2. \A j \in Inode \ {i}, l \in Slot : Map(d3)[j][l] = Map(d)[j][l]
    <3> TAKE j \in Inode \ {i}, l \in Slot
    <3>1. d3.di[j] = d.di[j]
      BY <1>8
    <3> QED
      BY <1>9, <3>1, MapIs DEF Addr
  <2>3. 0 \notin d.used
    BY DiskIs, Sizes DEF Block
  <2>4. U = d.used \ {Map(d)[i][l] : l \in Slot}
    BY <2>3, BlocksAre DEF U
  <2>5. Exact(Map(d), d.used)
    BY DEF SlotsExact
  <2>6. Exact(Map(d3), d.used \ {Map(d)[i][l] : l \in Slot})
    BY <2>1, <2>2, <2>3, <2>5, ExactClear
  <2>7. Exact(Map(d3), d3.used)
    BY <1>9, <2>4, <2>6
  <2>8. \A j \in Inode : d3.di[j].type = "free" => \A k \in 0 .. NDIRECT : d3.di[j].addrs[k] = 0
    BY <1>2, <1>8, <1>9 DEF SlotsExact
  <2> QED
    BY <2>7, <2>8 DEF SlotsExact
<1> QED
  BY <1>2, <1>3, <1>7, <1>8, <1>9, <1>10

\* dirlink(): an entry written into the directory, or nothing but a block taken.
LEMMA EntrySeq ==
    ASSUME NEW e \in Seq(DirentT), NEW k \in 1 .. Len(e) + 1, NEW de \in DirentT
    PROVE  [j \in 1 .. Len(e) \cup {k} |-> IF j = k THEN de ELSE e[j]] \in Seq(DirentT)
<1> DEFINE f == [j \in 1 .. Len(e) \cup {k} |-> IF j = k THEN de ELSE e[j]]
<1>1. PICK m \in Nat : m = IF k = Len(e) + 1 THEN k ELSE Len(e)
  OBVIOUS
<1>2. 1 .. Len(e) \cup {k} = 1 .. m
  BY <1>1
<1>3. \A j \in 1 .. Len(e) : e[j] \in DirentT
  OBVIOUS
<1>4. f \in [1 .. Len(e) \cup {k} -> DirentT]
  BY <1>3
<1>5. f \in [1 .. m -> DirentT]
  BY <1>2, <1>4
<1> HIDE DEF f
<1>6. f \in Seq(DirentT)
  BY <1>5
<1> QED
  BY <1>6 DEF f

LEMMA FirstEmptyIs ==
    ASSUME NEW e \in Seq(DirentT) PROVE FirstEmpty(e) \in 1 .. Len(e) + 1
<1> DEFINE S == {k \in 1 .. Len(e) : e[k].inum = 0} \cup {Len(e) + 1}
<1>1. Len(e) \in Nat
  OBVIOUS
<1>2. S \in SUBSET (1 .. Len(e) + 1) /\ S \in SUBSET Nat /\ S # {}
  BY <1>1
<1> HIDE DEF S
<1>3. Min(S) \in S
  BY <1>2, MinLeast
<1>4. FirstEmpty(e) = Min(S)
  BY DEF FirstEmpty, S
<1> QED
  BY <1>2, <1>3, <1>4

LEMMA DirLinkIs ==
    ASSUME NEW i \in Inode, NEW d \in DiskT, SlotsExact(d), d.di[i].type # "free",
           NEW name \in Elem, NEW inum \in 0 .. NInode,
           NEW w, w = DirLink(i, d.di[i], d, name, inum)
    PROVE  WritesTo(i, d, w)
<1>1. d.ents[i] \in Seq(DirentT)
  BY DiskIs
<1>2. PICK k \in 1 .. Len(d.ents[i]) + 1 : k = FirstEmpty(d.ents[i])
  BY <1>1, FirstEmptyIs
<1>3. k - 1 \in Nat
  BY <1>1
<1>4. PICK w0 : w0 = Writei(i, d.di[i], d, k - 1, DPB, TRUE)
  OBVIOUS
<1>5. WritesTo(i, d, w0) /\ w0.d.ents = d.ents
  <2>1. DPB \in Nat \ {0}
    BY Sizes
  <2>2. PICK off \in Nat : off = k - 1
    BY <1>3
  <2>3. PICK good \in BOOLEAN : good = TRUE
    OBVIOUS
  <2>4. w0 = Writei(i, d.di[i], d, off, DPB, good)
    BY <1>4, <2>2, <2>3
  <2> QED
    BY <2>1, <2>4, WriteiIs
<1>6. w = EntryWritten(i, De(name, inum), k, w0)
  BY <1>2, <1>4 DEF DirLink
<1>7. CASE ~w0.ok
  BY <1>5, <1>6, <1>7 DEF EntryWritten
<1>8. CASE w0.ok
  <2> DEFINE de == De(name, inum)
             E == [j \in 1 .. Len(d.ents[i]) \cup {k} |-> IF j = k THEN de ELSE d.ents[i][j]]
  <2>1. de \in DirentT
    BY DEF De, DirentT
  <2>2. w0 \in WriteT /\ w0.d \in DiskT
    BY <1>5 DEF WritesTo, WriteT
  <2>3. w0.d.ents[i] = d.ents[i]
    BY <1>5
  <2>4. w = [w0 EXCEPT !.d.ents[i] = E]
    BY <1>6, <1>8, <2>3 DEF EntryWritten
  <2> HIDE DEF de
  <2>5. E \in Seq(DirentT)
    BY <1>1, <2>1, EntrySeq
  <2> HIDE DEF E
  <2> DEFINE N == [w0.d.ents EXCEPT ![i] = E]
             d1 == [w0.d EXCEPT !.ents = N]
  <2>6. N \in [Inode -> Seq(DirentT)]
    BY <2>2, <2>5, DiskIs
  <2>7. w = [w0 EXCEPT !.d = d1]
    BY <2>4
  <2> HIDE DEF N
  <2>8. d1 \in DiskT /\ d1.di = w0.d.di /\ d1.used = w0.d.used /\ d1.ind = w0.d.ind
    BY <2>2, <2>6 DEF DiskT
  <2> HIDE DEF d1
  <2>9. w \in WriteT /\ w.d = d1 /\ w.ip = w0.ip
    BY <2>2, <2>7, <2>8 DEF WriteT
  <2>10. SlotsExact(d1)
    <3>1. SlotsExact(w0.d)
      BY <1>5 DEF WritesTo
    <3> QED
      BY <2>8, <3>1, SlotsSame
  <2> QED
    BY <1>5, <2>8, <2>9, <2>10 DEF WritesTo
<1> QED
  BY <1>7, <1>8

LEMMA DotsIs ==
    ASSUME NEW i \in Inode, NEW d \in DiskT, SlotsExact(d), d.di[i].type # "free",
           NEW up \in Inode, NEW w, w = Dots(i, d.di[i], d, up)
    PROVE  WritesTo(i, d, w)
<1>1. i \in 0 .. NInode /\ up \in 0 .. NInode
  BY Sizes DEF Inode
<1>2. "." \in Elem /\ ".." \in Elem
  BY DEF Elem
<1>3. PICK w0 : w0 = DirLink(i, d.di[i], d, ".", i)
  OBVIOUS
<1>4. WritesTo(i, d, w0)
  BY <1>1, <1>2, <1>3, DirLinkIs
<1>5. w = DotDot(i, up, w0)
  BY <1>3 DEF Dots
<1>6. CASE ~w0.ok
  BY <1>4, <1>5, <1>6 DEF DotDot
<1>7. CASE w0.ok
  <2>1. PICK c \in DiskT : c = w0.d
    BY <1>4 DEF WritesTo, WriteT
  <2>2. SlotsExact(c) /\ c.di[i] = w0.ip /\ w0.ip.type # "free"
    BY <1>4, <2>1 DEF WritesTo
  <2>3. w = DirLink(i, c.di[i], c, "..", up)
    BY <1>5, <1>7, <2>1, <2>2 DEF DotDot
  <2>4. WritesTo(i, c, w)
    BY <1>1, <1>2, <2>2, <2>3, DirLinkIs
  <2> QED
    BY <1>4, <2>1, <2>2, <2>4 DEF WritesTo
<1> QED
  BY <1>6, <1>7

-----------------------------------------------------------------------------
(* What the steps do to the inode table.                                   *)

\* The table is in order after a step of p, which has taken a reference to n
\* (0: to none).
TableGood(p) == itable' \in [Inode -> EntryT] /\ LockHyp(p) /\ MemHyp
Gains(n) == \A i \in Inode : itable'[i].ref = itable[i].ref + Is(n, i)

LEMMA GainsNone ==
    ASSUME itable' \in [Inode -> EntryT], \A j \in Inode : itable'[j].ref = itable[j].ref
    PROVE  Gains(0)
<1> SUFFICES ASSUME NEW j \in Inode PROVE itable'[j].ref = itable[j].ref + Is(0, j)
  BY DEF Gains
<1>1. Is(0, j) = 0
  BY Sizes DEF Is, Inode
<1>2. itable'[j].ref \in Int /\ itable'[j].ref = itable[j].ref
  BY DEF EntryT
<1> QED
  BY <1>1, <1>2

\* The inodes but these are on the disk as before, or have been free.
OthersOnDisk(S) ==
    \A j \in Inode \ S : disk'.di[j] = disk.di[j] \/ disk.di[j].type = "free"

\* One inode is locked and unlocked again, or stays locked.
LEMMA TableEntry ==
    ASSUME FSInv, NEW p \in Proc, NEW i \in Inode, itable[i].lock \in {None, p},
           NEW e \in DinodeT, NEW h \in {None, p}, itable' = Entry(itable, i, e, h),
           disk'.di[i] = e, e.type # "free", OthersOnDisk({i})
    PROVE  /\ TableGood(p) /\ Gains(0)
           /\ \A j \in Inode : j # i => itable'[j].lock = itable[j].lock
           /\ itable'[i].lock = h
<1>1. itable \in [Inode -> EntryT] /\ h \in Proc \cup {None}
  BY DEF FSInv, FSType
<1>2. /\ itable' \in [Inode -> EntryT]
      /\ \A j \in Inode : itable'[j].ref = itable[j].ref /\ (j # i => itable'[j] = itable[j])
      /\ itable'[i].valid /\ itable'[i].lock = h /\ itable'[i].d = e
  BY <1>1, EntryIs
<1>3. LockHyp(p)
  <2> SUFFICES ASSUME NEW j \in Inode
               PROVE  /\ \/ itable'[j].lock = itable[j].lock
                         \/ itable[j].lock \in {None, p} /\ itable'[j].lock \in {None, p}
                      /\ itable'[j].lock # None => itable'[j].valid
    BY DEF LockHyp
  <2>1. CASE j = i
    BY <1>2, <2>1
  <2>2. CASE j # i
    BY <1>2, <2>2 DEF FSInv, LocksExact
  <2> QED
    BY <2>1, <2>2
<1>4. MemHyp
  <2> SUFFICES ASSUME NEW j \in Inode, itable'[j].valid
               PROVE  \/ itable'[j].d = disk'.di[j] /\ disk'.di[j].type # "free"
                      \/ /\ itable[j].valid /\ itable'[j].d = itable[j].d
                         /\ disk'.di[j] = disk.di[j]
                      \/ itable[j].valid /\ disk.di[j].type = "free"
    BY DEF MemHyp
  <2>1. CASE j = i
    BY <1>2, <2>1
  <2>2. CASE j # i
    <3>1. itable'[j] = itable[j]
      BY <1>2, <2>2
    <3> QED
      BY <2>2, <3>1 DEF OthersOnDisk
  <2> QED
    BY <2>1, <2>2
<1>5. Gains(0)
  BY <1>2, GainsNone
<1> QED
  BY <1>2, <1>3, <1>4, <1>5 DEF TableGood

\* And iget() of another inode, or of the same.
LEMMA TableIget ==
    ASSUME FSInv, NEW p \in Proc, NEW i \in Inode, itable[i].lock \in {None, p},
           itable[i].ref >= 1, NEW n \in Inode,
           NEW e \in DinodeT, NEW h \in {None, p}, itable' = Iget(Entry(itable, i, e, h), n),
           disk'.di[i] = e, e.type # "free", OthersOnDisk({i})
    PROVE  /\ TableGood(p) /\ Gains(n)
           /\ \A j \in Inode : j # i => itable'[j].lock = itable[j].lock
           /\ itable'[i].lock = h
<1>1. itable \in [Inode -> EntryT] /\ h \in Proc \cup {None}
  BY DEF FSInv, FSType
<1>2. PICK t : t = Entry(itable, i, e, h)
  OBVIOUS
<1>3. /\ t \in [Inode -> EntryT]
      /\ \A j \in Inode : t[j].ref = itable[j].ref /\ (j # i => t[j] = itable[j])
      /\ t[i].valid /\ t[i].lock = h /\ t[i].d = e
  BY <1>1, <1>2, EntryIs
<1>4. t[n].ref >= 0
  <2>1. itable[n].ref \in Nat
    BY RefNat DEF FSInv
  <2> QED
    BY <1>3, <2>1
<1>5. /\ itable' \in [Inode -> EntryT]
      /\ \A j \in Inode : /\ itable'[j].ref = t[j].ref + Is(n, j)
                          /\ itable'[j].lock = t[j].lock
                          /\ itable'[j].d = t[j].d
                          /\ j # n \/ t[j].ref > 0 => (t[j].valid => itable'[j].valid)
                          /\ itable'[j].valid => t[j].valid
  BY <1>2, <1>3, <1>4, IgetIs
<1>6. \A j \in Inode : itable[j].lock # None => t[j].ref > 0
  <2> TAKE j \in Inode
  <2> HAVE itable[j].lock # None
  <2>1. itable[j].ref >= 1 /\ itable[j].ref \in Int
    BY <1>1, LockedRef DEF EntryT
  <2> QED
    BY <1>3, <2>1
<1>7. t[i].ref > 0
  <2>1. itable[i].ref \in Int
    BY <1>1 DEF EntryT
  <2> QED
    BY <1>3, <2>1
<1>8. LockHyp(p)
  <2> SUFFICES ASSUME NEW j \in Inode
               PROVE  /\ \/ itable'[j].lock = itable[j].lock
                         \/ itable[j].lock \in {None, p} /\ itable'[j].lock \in {None, p}
                      /\ itable'[j].lock # None => itable'[j].valid
    BY DEF LockHyp
  <2>1. CASE j = i
    BY <1>3, <1>5, <1>7, <2>1
  <2>2. CASE j # i
    <3>1. t[j] = itable[j] /\ itable'[j].lock = itable[j].lock
      BY <1>3, <1>5, <2>2
    <3>2. itable[j].lock # None => itable[j].valid
      BY DEF FSInv, LocksExact
    <3> QED
      BY <1>5, <1>6, <3>1, <3>2
  <2> QED
    BY <2>1, <2>2
<1>9. MemHyp
  <2> SUFFICES ASSUME NEW j \in Inode, itable'[j].valid
               PROVE  \/ itable'[j].d = disk'.di[j] /\ disk'.di[j].type # "free"
                      \/ /\ itable[j].valid /\ itable'[j].d = itable[j].d
                         /\ disk'.di[j] = disk.di[j]
                      \/ itable[j].valid /\ disk.di[j].type = "free"
    BY DEF MemHyp
  <2>1. CASE j = i
    BY <1>3, <1>5, <2>1
  <2>2. CASE j # i
    <3>1. itable[j].valid /\ itable'[j].d = itable[j].d
      BY <1>3, <1>5, <2>2
    <3> QED
      BY <2>2, <3>1 DEF OthersOnDisk
  <2> QED
    BY <2>1, <2>2
<1> QED
  BY <1>3, <1>5, <1>8, <1>9 DEF TableGood, Gains

\* iget() alone.
LEMMA TableDup ==
    ASSUME FSInv, NEW p \in Proc, NEW n \in Inode, itable' = Iget(itable, n), disk' = disk
    PROVE  /\ TableGood(p) /\ Gains(n)
           /\ \A j \in Inode : itable'[j].lock = itable[j].lock
<1>1. itable \in [Inode -> EntryT]
  BY DEF FSInv, FSType
<1>2. itable[n].ref >= 0
  <2>1. itable[n].ref \in Nat
    BY RefNat DEF FSInv
  <2> QED
    BY <2>1
<1>3. /\ itable' \in [Inode -> EntryT]
      /\ \A j \in Inode : /\ itable'[j].ref = itable[j].ref + Is(n, j)
                          /\ itable'[j].lock = itable[j].lock
                          /\ itable'[j].d = itable[j].d
                          /\ j # n \/ itable[j].ref > 0 => (itable[j].valid => itable'[j].valid)
                          /\ itable'[j].valid => itable[j].valid
  BY <1>1, <1>2, IgetIs
<1>4. \A j \in Inode : itable[j].lock # None => itable[j].ref > 0 /\ itable[j].valid
  <2> TAKE j \in Inode
  <2> HAVE itable[j].lock # None
  <2>1. itable[j].ref >= 1 /\ itable[j].ref \in Int
    BY <1>1, LockedRef DEF EntryT
  <2>2. itable[j].valid
    BY DEF FSInv, LocksExact
  <2> QED
    BY <2>1, <2>2
<1>5. LockHyp(p)
  BY <1>3, <1>4 DEF LockHyp
<1>6. MemHyp
  BY <1>3 DEF MemHyp
<1> QED
  BY <1>3, <1>5, <1>6 DEF TableGood, Gains

-----------------------------------------------------------------------------
(* The steps of a call that has no iunlock() or iput() left to do.         *)

\* The pointers in the local variables.
Ptr(l, i) == (IF l.fn = "write" THEN 0 ELSE Is(l.ip, i)) + Is(l.keep, i)

LEMMA PtrType == ASSUME NEW l, NEW i PROVE Ptr(l, i) \in Nat
<1>1. Is(l.ip, i) \in {0, 1} /\ Is(l.keep, i) \in {0, 1}
  BY IsType
<1> QED
  BY <1>1 DEF Ptr



LEMMA HeldIs ==
    ASSUME NEW p \in Proc, NEW i, todo[p] \in Seq(CallT)
    PROVE  Held(p, i) = Puts(todo[p], i) + Ptr(loc[p], i) + Is(cwd[p], i)
<1>1. Puts(todo[p], i) \in Nat
  BY PutsType
<1>2. Is(loc[p].ip, i) \in {0, 1} /\ Is(loc[p].keep, i) \in {0, 1} /\ Is(cwd[p], i) \in {0, 1}
  BY IsType
<1> QED
  BY <1>1, <1>2 DEF Held, Ptr

\* A step leaves p with the local variables l, the calls s and the directory c,
Goes(p, l, s, c) ==
    /\ l \in LocT /\ s \in Seq(CallT) /\ c \in 0 .. NInode
    /\ loc' = [loc EXCEPT ![p] = l] /\ todo' = [todo EXCEPT ![p] = s]
    /\ cwd' = [cwd EXCEPT ![p] = c]
    /\ StageOK(l, s, c, ofile'[p]) /\ CallsOK(s) /\ \A i \in Inode : ~Frees(s, i)

\* with the locks that l and s say,
LocksAre(p, l, s) ==
    \A i \in Inode : itable'[i].lock = p <=> Unlocks(s, i) \/ KeepsLocked(l, i)

\* with as many more references as pointers,
Counted(p, l, s, c) ==
    \A i \in Inode : itable'[i].ref + Ptr(loc[p], i) + Is(cwd[p], i)
                       = itable[i].ref + Puts(s, i) + Ptr(l, i) + Is(c, i)

\* and the disk and the open files in order.
DiskGood == disk' \in DiskT /\ SlotsExact(disk') /\ stable' = stable
FilesSame ==
    /\ file' \in [File -> FileT] /\ ofile' = ofile
    /\ \A f \in File : file'[f].ip = file[f].ip /\ file'[f].ref = file[f].ref

LEMMA CallStep ==
    ASSUME FSInv, NEW p \in Proc, todo[p] = << >>, NEW l, NEW s, NEW c, Goes(p, l, s, c),
           LocksAre(p, l, s), Counted(p, l, s, c), TableGood(p), DiskGood, FilesSame
    PROVE  FSInv'
<1>1. /\ l \in LocT /\ s \in Seq(CallT) /\ c \in 0 .. NInode
      /\ loc' = [loc EXCEPT ![p] = l] /\ todo' = [todo EXCEPT ![p] = s]
      /\ cwd' = [cwd EXCEPT ![p] = c]
  BY DEF Goes
<1>2. FSType'
  BY <1>1 DEF FSInv, FSType, TableGood, DiskGood, FilesSame
<1>3. loc'[p] = l /\ todo'[p] = s /\ cwd'[p] = c /\ ofile'[p] = ofile[p]
  BY <1>1 DEF FSInv, FSType, FilesSame
<1>4. Others(p)
  BY <1>1 DEF FSInv, FSType, Others, FilesSame
<1>5. Stage(p)' /\ CallsOK(todo'[p])
  BY <1>3 DEF Stage, Goes
<1>6. \A i \in Inode : itable'[i].lock = p <=> HasLocked(p, i)'
  BY <1>3 DEF HasLocked, LocksAre, Goes
<1>7. \A i \in Inode : ~Freed(todo[p], i)
  BY NoCalls
<1>8. FilesOK'
  BY DEF FSInv, FilesOK, FilesSame
<1>9. ASSUME NEW i \in Inode
      PROVE  itable'[i].ref + Held(p, i) = itable[i].ref + Held(p, i)'
  <2>1. Held(p, i) = Puts(todo[p], i) + Ptr(loc[p], i) + Is(cwd[p], i) /\ Puts(todo[p], i) = 0
    BY HeldIs, PutsEmpty DEF FSInv, FSType
  <2>2. Held(p, i)' = Puts(s, i) + (IF l.fn = "write" THEN 0 ELSE Is(l.ip, i)) + Is(l.keep, i)
                        + Is(c, i)
    BY <1>3 DEF Held
  <2>3. /\ Is(l.ip, i) \in {0, 1} /\ Is(l.keep, i) \in {0, 1} /\ Is(c, i) \in {0, 1}
        /\ Is(cwd[p], i) \in {0, 1}
    BY IsType
  <2>4. Puts(s, i) \in Nat /\ Ptr(loc[p], i) \in Nat /\ Ptr(l, i) \in Nat
    BY <1>1, PutsType, PtrType
  <2>5. itable'[i].ref \in Int /\ itable[i].ref \in Int
    BY DEF FSInv, FSType, TableGood, EntryT
  <2>6. PICK h1 \in Int : h1 = Held(p, i)'
    BY <2>2, <2>3, <2>4
  <2>7. h1 = Puts(s, i) + Ptr(l, i) + Is(c, i)
    <3>1. h1 = Puts(s, i) + (IF l.fn = "write" THEN 0 ELSE Is(l.ip, i)) + Is(l.keep, i) + Is(c, i)
      BY <2>2, <2>6
    <3>2. Ptr(l, i) = (IF l.fn = "write" THEN 0 ELSE Is(l.ip, i)) + Is(l.keep, i)
      BY DEF Ptr
    <3> QED
      BY <2>3, <2>4, <3>1, <3>2
  <2>8. PICK h \in Int : h = Held(p, i)
    BY <2>1, <2>3, <2>4
  <2>9. h = Ptr(loc[p], i) + Is(cwd[p], i)
    BY <2>1, <2>3, <2>4, <2>8
  <2>10. itable'[i].ref + h = itable[i].ref + h1
    <3>1. itable'[i].ref + Ptr(loc[p], i) + Is(cwd[p], i)
            = itable[i].ref + Puts(s, i) + Ptr(l, i) + Is(c, i)
      BY DEF Counted
    <3>2. Is(cwd[p], i) \in Int /\ Is(c, i) \in Int
      BY <2>3
    <3>3. PICK r \in Int, r1 \in Int : r = itable[i].ref /\ r1 = itable'[i].ref
      BY <2>5
    <3>4. PICK a \in Int, b \in Int : a = Ptr(loc[p], i) /\ b = Is(cwd[p], i)
      BY <2>4, <3>2
    <3>5. PICK n \in Int, q \in Int, k \in Int : n = Puts(s, i) /\ q = Ptr(l, i) /\ k = Is(c, i)
      BY <2>4, <3>2
    <3>6. r1 + a + b = r + n + q + k
      BY <3>1, <3>3, <3>4, <3>5
    <3>7. h = a + b /\ h1 = n + q + k
      BY <2>7, <2>9, <3>4, <3>5
    <3>8. r1 + h = r + h1
      BY <3>6, <3>7
    <3> QED
      BY <3>3, <3>8
  <2> QED
    BY <2>6, <2>8, <2>10
<1>10. RefExact'
  BY <1>2, <1>4, <1>9, RefStep DEF FSInv, FilesSame
<1>11. SlotsExact(stable') /\ SlotsExact(disk') /\ LockHyp(p) /\ MemHyp
  BY DEF FSInv, DiskGood, TableGood
<1> QED
  BY <1>2, <1>4, <1>5, <1>6, <1>7, <1>8, <1>10, <1>11, Assemble

\* A call locks the inode in loc[p].ip: what it has then.
LEMMA LocksIs ==
    ASSUME FSInv, NEW p \in Proc, NEW stage, stage \notin {"none", "end"}, Locks(p, stage)
    PROVE  /\ loc[p] \in LocT /\ loc[p].at = stage /\ todo[p] = << >>
           /\ loc[p].ip \in Inode /\ cwd[p] \in Inode
           /\ StageOK(loc[p], << >>, cwd[p], ofile[p])
           /\ itable[loc[p].ip].lock = None
           /\ Ilocked(loc[p].ip) = disk.di[loc[p].ip]
           /\ disk.di[loc[p].ip] \in DinodeT /\ disk.di[loc[p].ip].type # "free"
           /\ \A j \in Inode : itable[j].lock = p <=> KeepsLocked(loc[p], j)
           /\ stage # "write" => itable[loc[p].ip].ref >= 1
<1>1. loc[p] \in LocT /\ cwd[p] \in 0 .. NInode
  BY DEF FSInv, FSType
<1>2. /\ loc[p].at = stage /\ todo[p] = << >> /\ itable[loc[p].ip].lock = None
      /\ ~NoType(loc[p].ip)
  BY DEF Locks, At
<1>3. StageOK(loc[p], << >>, cwd[p], ofile[p])
  BY <1>2 DEF FSInv, Stage
<1>4. loc[p].ip \in Inode /\ cwd[p] # 0
  BY <1>2, <1>3 DEF StageOK
<1>5. cwd[p] \in Inode
  BY <1>1, <1>4, Sizes DEF Inode
<1>6. /\ Ilocked(loc[p].ip) = disk.di[loc[p].ip]
      /\ disk.di[loc[p].ip] \in DinodeT /\ disk.di[loc[p].ip].type # "free"
  BY <1>2, <1>4, LockedCopy
<1>7. \A j \in Inode : itable[j].lock = p <=> KeepsLocked(loc[p], j)
  <2> TAKE j \in Inode
  <2>1. ~Unlocks(todo[p], j) /\ ~Frees(todo[p], j)
    BY <1>2, NoCalls
  <2> QED
    BY <2>1 DEF FSInv, LocksExact, HasLocked
<1>8. ASSUME stage # "write" PROVE itable[loc[p].ip].ref >= 1
  <2> DEFINE i == loc[p].ip
  <2>1. loc[p].fn # "write"
    BY <1>2, <1>3, <1>8 DEF StageOK
  <2>2. Held(p, i) = Puts(todo[p], i) + Ptr(loc[p], i) + Is(cwd[p], i)
    BY HeldIs DEF FSInv, FSType
  <2>3. Puts(todo[p], i) = 0
    BY <1>2, PutsEmpty
  <2>4. Ptr(loc[p], i) = 1 + Is(loc[p].keep, i)
    BY <2>1 DEF Ptr, Is
  <2>5. Is(loc[p].keep, i) \in {0, 1} /\ Is(cwd[p], i) \in {0, 1}
    BY IsType
  <2>6. Held(p, i) >= 1
    BY <2>2, <2>3, <2>4, <2>5
  <2> QED
    BY <1>4, <2>6, RefOne DEF FSInv
<1> QED
  BY <1>1, <1>2, <1>3, <1>4, <1>5, <1>6, <1>7, <1>8

LEMMA GotoIs ==
    ASSUME NEW p \in Proc, loc \in [Proc -> LocT], NEW stage \in AtT,
           NEW ip \in 0 .. NInode, NEW keep \in 0 .. NInode, NEW s,
           Goto(p, stage, ip, keep, s)
    PROVE  /\ todo' = [todo EXCEPT ![p] = s]
           /\ \E l \in LocT : /\ loc' = [loc EXCEPT ![p] = l]
                              /\ l.at = stage /\ l.ip = ip /\ l.keep = keep
                              /\ l.fn = loc[p].fn /\ l.path = loc[p].path
<1>1. todo' = [todo EXCEPT ![p] = s]
  BY DEF Goto
<1>2. PICK m : m = [loc[p] EXCEPT !.at = stage]
  OBVIOUS
<1>3. m \in LocT /\ m.at = stage /\ m.fn = loc[p].fn /\ m.path = loc[p].path
  BY <1>2 DEF LocT
<1>4. PICK k : k = [m EXCEPT !.ip = ip]
  OBVIOUS
<1>5. k \in LocT /\ k.at = stage /\ k.ip = ip /\ k.fn = loc[p].fn /\ k.path = loc[p].path
  BY <1>3, <1>4 DEF LocT
<1>6. PICK l : l = [k EXCEPT !.keep = keep]
  OBVIOUS
<1>7. /\ l \in LocT /\ l.at = stage /\ l.ip = ip /\ l.keep = keep
      /\ l.fn = loc[p].fn /\ l.path = loc[p].path
  BY <1>5, <1>6 DEF LocT
<1>8. loc' = [loc EXCEPT ![p] = l]
  <2>1. loc' = [loc EXCEPT ![p] = [[[loc[p] EXCEPT !.at = stage] EXCEPT !.ip = ip] EXCEPT !.keep = keep]]
    BY DEF Goto
  <2> QED
    BY <1>2, <1>4, <1>6, <2>1
<1> QED
  BY <1>1, <1>7, <1>8

\* A call goes on at another stage, having taken a reference to n (0: to none).
StageNext(p, stage, ip, keep, s, c) ==
    \A l \in LocT : /\ l.at = stage /\ l.ip = ip /\ l.keep = keep
                    /\ l.fn = loc[p].fn /\ l.path = loc[p].path
                    => StageOK(l, s, c, ofile'[p])
LocksNext(p, stage, ip, keep, s) ==
    \A i \in Inode : itable'[i].lock = p <=>
                       \/ Unlocks(s, i)
                       \/ stage \in {"child", "new"} /\ keep = i
                       \/ stage \in {"unlinked", "opened"} /\ ip = i
CountNext(p, n, ip, keep, s, c) ==
    \A i \in Inode : Is(n, i) + Is(loc[p].ip, i) + Is(loc[p].keep, i) + Is(cwd[p], i)
                       = Puts(s, i) + Is(ip, i) + Is(keep, i) + Is(c, i)

LEMMA GotoStep ==
    ASSUME FSInv, NEW p \in Proc, todo[p] = << >>, loc[p].fn # "write", NEW stage \in AtT,
           NEW ip \in 0 .. NInode, NEW keep \in 0 .. NInode, NEW s, NEW n, NEW c \in 0 .. NInode,
           Goto(p, stage, ip, keep, s), Leaves(s), cwd' = [cwd EXCEPT ![p] = c],
           StageNext(p, stage, ip, keep, s, c), LocksNext(p, stage, ip, keep, s),
           Gains(n), CountNext(p, n, ip, keep, s, c), TableGood(p), DiskGood, FilesSame
    PROVE  FSInv'
<1>1. loc \in [Proc -> LocT]
  BY DEF FSInv, FSType
<1>2. todo' = [todo EXCEPT ![p] = s]
  BY <1>1, GotoIs
<1>3. PICK l \in LocT : /\ loc' = [loc EXCEPT ![p] = l]
                        /\ l.at = stage /\ l.ip = ip /\ l.keep = keep
                        /\ l.fn = loc[p].fn /\ l.path = loc[p].path
  BY <1>1, GotoIs
<1>4. Goes(p, l, s, c)
  BY <1>2, <1>3 DEF Goes, Leaves, StageNext
<1>5. LocksAre(p, l, s)
  BY <1>3 DEF KeepsLocked, LocksNext, LocksAre
<1>6. ASSUME NEW i \in Inode
      PROVE  itable'[i].ref + Ptr(loc[p], i) + Is(cwd[p], i)
               = itable[i].ref + Puts(s, i) + Ptr(l, i) + Is(c, i)
  <2>1. Ptr(loc[p], i) = Is(loc[p].ip, i) + Is(loc[p].keep, i)
    BY DEF Ptr
  <2>2. Ptr(l, i) = Is(ip, i) + Is(keep, i)
    BY <1>3 DEF Ptr
  <2>3. itable[i].ref \in Int /\ itable'[i].ref \in Int /\ Puts(s, i) \in Nat
    BY PutsType DEF FSInv, FSType, TableGood, EntryT, Leaves
  <2>4. /\ Is(n, i) \in Int /\ Is(loc[p].ip, i) \in Int /\ Is(loc[p].keep, i) \in Int
        /\ Is(cwd[p], i) \in Int /\ Is(ip, i) \in Int /\ Is(keep, i) \in Int /\ Is(c, i) \in Int
    BY DEF Is
  <2>5. PICK r \in Int, r1 \in Int : r = itable[i].ref /\ r1 = itable'[i].ref
    BY <2>3
  <2>6. PICK a0 \in Int, a1 \in Int, a2 \in Int, a3 \in Int :
          a0 = Is(n, i) /\ a1 = Is(loc[p].ip, i) /\ a2 = Is(loc[p].keep, i) /\ a3 = Is(cwd[p], i)
    BY <2>4
  <2>7. PICK b0 \in Int, b1 \in Int, b2 \in Int, b3 \in Int :
          b0 = Puts(s, i) /\ b1 = Is(ip, i) /\ b2 = Is(keep, i) /\ b3 = Is(c, i)
    BY <2>3, <2>4
  <2>8. r1 = r + a0
    BY <2>5, <2>6 DEF Gains
  <2>9. a0 + a1 + a2 + a3 = b0 + b1 + b2 + b3
    BY <2>6, <2>7 DEF CountNext
  <2>10. r1 + (a1 + a2) + a3 = r + b0 + (b1 + b2) + b3
    BY ONLY <2>8, <2>9
  <2>11. Ptr(loc[p], i) = a1 + a2 /\ Ptr(l, i) = b1 + b2
    BY <2>1, <2>2, <2>6, <2>7
  <2> QED
    BY <2>5, <2>6, <2>7, <2>10, <2>11
<1>7. Counted(p, l, s, c)
  BY <1>6 DEF Counted
<1> QED
  BY <1>4, <1>5, <1>7, CallStep

\* The call is over but for what is in s.
LEMMA EndStep ==
    ASSUME FSInv, NEW p \in Proc, todo[p] = << >>, loc[p].fn # "write", cwd[p] # 0,
           NEW s, NEW n, End(p, s), Leaves(s), cwd' = cwd, Gains(n), TableGood(p), DiskGood,
           FilesSame, \A j \in Inode : itable'[j].lock = p <=> Unlocks(s, j),
           \A j \in Inode : Is(n, j) + Is(loc[p].ip, j) + Is(loc[p].keep, j) = Puts(s, j)
    PROVE  FSInv'
<1>1. "end" \in AtT /\ 0 \in 0 .. NInode /\ cwd[p] \in 0 .. NInode
  <2>1. "end" \in AtT /\ 0 \in 0 .. NInode
    BY Sizes DEF AtT
  <2>2. cwd[p] \in 0 .. NInode
    BY DEF FSInv, FSType
  <2> QED
    BY <2>1, <2>2
<1>2. cwd' = [cwd EXCEPT ![p] = cwd[p]]
  BY DEF FSInv, FSType
<1>3. Goto(p, "end", 0, 0, s)
  BY DEF End
<1>4. StageNext(p, "end", 0, 0, s, cwd[p])
  BY DEF StageNext, StageOK
<1>5. LocksNext(p, "end", 0, 0, s)
  BY DEF LocksNext
<1>6. CountNext(p, n, 0, 0, s, cwd[p])
  <2> SUFFICES ASSUME NEW j \in Inode
               PROVE  Is(n, j) + Is(loc[p].ip, j) + Is(loc[p].keep, j) + Is(cwd[p], j)
                        = Puts(s, j) + Is(0, j) + Is(0, j) + Is(cwd[p], j)
    BY DEF CountNext
  <2>1. Is(0, j) = 0
    BY Sizes DEF Is, Inode
  <2>2. Puts(s, j) = Is(n, j) + Is(loc[p].ip, j) + Is(loc[p].keep, j)
    OBVIOUS
  <2> QED
    BY <2>1, <2>2 DEF Is
<1> QED
  BY <1>1, <1>2, <1>3, <1>4, <1>5, <1>6, GotoStep

\* namex() or dirlink() has failed.
LEMMA FailStep ==
    ASSUME FSInv, NEW p \in Proc, todo[p] = << >>, cwd[p] # 0, loc[p].at \in {"walk", "parent"},
           NEW s, NEW n, Fails(p, s), Leaves(s), cwd' = cwd, Gains(n), TableGood(p), DiskGood,
           FilesSame, \A j \in Inode : itable'[j].lock = p <=> Unlocks(s, j),
           \A j \in Inode : Is(n, j) + Is(loc[p].ip, j) = Puts(s, j)
    PROVE  FSInv'
<1>1. loc[p].fn # "write" /\ loc[p].keep \in 0 .. NInode
  BY DEF FSInv, FSType, Stage, StageOK, LocT
<1>2. CASE loc[p].keep = 0
  <2>1. End(p, s)
    BY <1>2 DEF Fails
  <2>2. \A j \in Inode : Is(n, j) + Is(loc[p].ip, j) + Is(loc[p].keep, j) = Puts(s, j)
    <3> TAKE j \in Inode
    <3>1. Is(loc[p].keep, j) = 0
      BY <1>2, Sizes DEF Is, Inode
    <3>2. Puts(s, j) = Is(n, j) + Is(loc[p].ip, j)
      OBVIOUS
    <3> QED
      BY <3>1, <3>2, IsType
  <2> QED
    BY <1>1, <2>1, <2>2, EndStep
<1>3. CASE loc[p].keep # 0
  <2>1. Goto(p, "bad", loc[p].keep, 0, s)
    BY <1>3 DEF Fails
  <2>2. "bad" \in AtT /\ 0 \in 0 .. NInode /\ cwd[p] \in 0 .. NInode
    <3>1. "bad" \in AtT /\ 0 \in 0 .. NInode
      BY Sizes DEF AtT
    <3>2. cwd[p] \in 0 .. NInode
      BY DEF FSInv, FSType
    <3> QED
      BY <3>1, <3>2
  <2>3. cwd' = [cwd EXCEPT ![p] = cwd[p]]
    BY DEF FSInv, FSType
  <2>4. loc[p].keep \in Inode
    BY <1>1, <1>3, Sizes DEF Inode
  <2>5. StageNext(p, "bad", loc[p].keep, 0, s, cwd[p])
    BY <1>1, <2>4 DEF StageNext, StageOK
  <2>6. LocksNext(p, "bad", loc[p].keep, 0, s)
    BY DEF LocksNext
  <2>7. CountNext(p, n, loc[p].keep, 0, s, cwd[p])
    <3> SUFFICES ASSUME NEW j \in Inode
                 PROVE  Is(n, j) + Is(loc[p].ip, j) + Is(loc[p].keep, j) + Is(cwd[p], j)
                          = Puts(s, j) + Is(loc[p].keep, j) + Is(0, j) + Is(cwd[p], j)
      BY DEF CountNext
    <3>1. Is(0, j) = 0
      BY Sizes DEF Is, Inode
    <3>2. Puts(s, j) = Is(n, j) + Is(loc[p].ip, j)
      OBVIOUS
    <3> QED
      BY <3>1, <3>2 DEF Is
  <2> QED
    BY <1>1, <2>1, <2>2, <2>3, <2>5, <2>6, <2>7, GotoStep
<1> QED
  BY <1>2, <1>3

\* The entry that dirlookup() finds names an inode.
LEMMA DirFound ==
    ASSUME NEW d \in DiskT, NEW i \in Inode, NEW name, NEW k, k = DirLookup(d, i, name), k # {}
    PROVE  d.ents[i][CHOOSE j \in k : TRUE].inum \in Inode
<1>1. PICK m : m = CHOOSE j \in k : TRUE
  OBVIOUS
<1>2. m \in k
  BY <1>1
<1>3. m \in 1 .. Len(d.ents[i]) /\ d.ents[i][m].inum # 0
  BY <1>2 DEF DirLookup
<1>4. d.ents[i] \in Seq(DirentT)
  BY DiskIs
<1>5. d.ents[i][m] \in DirentT
  BY <1>3, <1>4
<1>6. d.ents[i][m].inum \in 0 .. NInode
  BY <1>5 DEF DirentT
<1>7. d.ents[i][m].inum \in Inode
  BY <1>3, <1>6, Sizes DEF Inode
<1> QED
  BY <1>1, <1>7

-----------------------------------------------------------------------------
(* One lemma for each action.                                              *)

LEMMA SameDisk == ASSUME FSInv, disk' = disk, stable' = stable PROVE DiskGood /\ \A S : OthersOnDisk(S)
BY DEF FSInv, FSType, DiskGood, OthersOnDisk

\* iupdate() of an inode whose addresses are as they were.
LEMMA InodeWritten ==
    ASSUME FSInv, NEW i \in Inode, NEW e \in DinodeT, disk' = With(disk, i, e),
           e.addrs = disk.di[i].addrs, e.type = disk.di[i].type, stable' = stable
    PROVE  DiskGood /\ disk'.di[i] = e /\ OthersOnDisk({i})
<1>1. disk \in DiskT /\ SlotsExact(disk)
  BY DEF FSInv, FSType
<1>2. PICK d : d = With(disk, i, e)
  OBVIOUS
<1>3. /\ d \in DiskT /\ d.di[i] = e /\ \A j \in Inode \ {i} : d.di[j] = disk.di[j]
      /\ d.used = disk.used /\ d.ind = disk.ind
  BY <1>1, <1>2, WithIs
<1>4. \A j \in Inode : d.di[j].addrs = disk.di[j].addrs /\ d.di[j].type = disk.di[j].type
  BY <1>3
<1>5. SlotsExact(d)
  BY <1>1, <1>3, <1>4, SlotsSame
<1> QED
  BY <1>2, <1>3, <1>5 DEF DiskGood, OthersOnDisk

LEMMA SameFiles == ASSUME FSInv, file' = file, ofile' = ofile PROVE FilesSame
BY DEF FSInv, FSType, FilesSame

LEMMA SameTable ==
    ASSUME FSInv, NEW p \in Proc, itable' = itable, disk' = disk
    PROVE  TableGood(p) /\ Gains(0)
<1>1. itable' \in [Inode -> EntryT]
  BY DEF FSInv, FSType
<1>2. LockHyp(p) /\ MemHyp
  BY DEF FSInv, LocksExact, LockHyp, MemHyp
<1>3. Gains(0)
  BY <1>1, GainsNone
<1> QED
  BY <1>1, <1>2, <1>3 DEF TableGood

\* In these stages a call has nothing locked.
LEMMA NothingLocked ==
    ASSUME FSInv, NEW p \in Proc, todo[p] = << >>,
           loc[p].at \notin {"child", "new", "unlinked", "opened"}
    PROVE  \A j \in Inode : itable[j].lock # p
<1> TAKE j \in Inode
<1>1. ~Unlocks(todo[p], j) /\ ~Frees(todo[p], j)
  BY NoCalls
<1>2. ~KeepsLocked(loc[p], j)
  BY DEF KeepsLocked
<1> QED
  BY <1>1, <1>2 DEF FSInv, LocksExact, HasLocked

LEMMA WalkKeeps == ASSUME FSInv, NEW p \in Proc, Walk(p) PROVE FSInv'
<1>1. Locks(p, "walk") /\ loc[p].path # << >>
  BY DEF Walk
<1>2. /\ loc[p] \in LocT /\ loc[p].at = "walk" /\ todo[p] = << >>
      /\ loc[p].ip \in Inode /\ cwd[p] \in Inode
      /\ StageOK(loc[p], << >>, cwd[p], ofile[p])
      /\ itable[loc[p].ip].lock = None
      /\ Ilocked(loc[p].ip) = disk.di[loc[p].ip]
      /\ disk.di[loc[p].ip] \in DinodeT /\ disk.di[loc[p].ip].type # "free"
      /\ itable[loc[p].ip].ref >= 1
  BY <1>1, LocksIs
<1>3. \A j \in Inode : itable[j].lock # p
  BY <1>2, NothingLocked
<1>4. /\ disk' = disk /\ stable' = stable /\ file' = file /\ ofile' = ofile /\ cwd' = cwd
  BY DEF Walk, rest
<1>5. DiskGood /\ FilesSame /\ \A S : OthersOnDisk(S)
  BY <1>4, SameDisk, SameFiles
<1>6. PICK i \in Inode, e \in DinodeT : i = loc[p].ip /\ e = disk.di[i]
  BY <1>2
<1>7. cwd[p] # 0 /\ loc[p].fn # "write" /\ p # None
  BY <1>2, Sizes DEF StageOK, Inode
<1>8. ASSUME itable' = Entry(itable, i, e, None)
      PROVE  /\ TableGood(p) /\ Gains(0)
             /\ \A j \in Inode : itable'[j].lock # p
  <2>1. /\ TableGood(p) /\ Gains(0)
        /\ \A j \in Inode : j # i => itable'[j].lock = itable[j].lock
        /\ itable'[i].lock = None
    BY <1>2, <1>4, <1>5, <1>6, <1>8, TableEntry, ZenonT(30)
  <2> QED
    BY <1>3, <1>7, <2>1
<1>9. CASE itable' = Entry(itable, i, e, None) /\ Fails(p, << Put(i) >>)
  <2>1. PICK s : s = << Put(i) >>
    OBVIOUS
  <2>2. Leaves(s) /\ \A j \in Inode : Puts(s, j) = Is(i, j) /\ ~Unlocks(s, j)
    BY <2>1, LeavesOne
  <2>3. Fails(p, s)
    BY <1>9, <2>1
  <2>4. \A j \in Inode : itable'[j].lock = p <=> Unlocks(s, j)
    BY <1>8, <1>9, <2>2
  <2>5. \A j \in Inode : Is(0, j) + Is(loc[p].ip, j) = Puts(s, j)
    <3> TAKE j \in Inode
    <3>1. Is(0, j) = 0 /\ Puts(s, j) = Is(i, j)
      BY <2>2, Sizes DEF Is, Inode
    <3> QED
      BY <1>6, <3>1, IsType
  <2> QED
    BY <1>2, <1>4, <1>5, <1>7, <1>8, <1>9, <2>2, <2>3, <2>4, <2>5, FailStep
<1>10. CASE /\ itable' = Entry(itable, i, e, None) /\ WantsParent(p)
            /\ Goto(p, "parent", i, loc[p].keep, << >>)
  <2>1. "parent" \in AtT /\ i \in 0 .. NInode
    BY Sizes DEF AtT, Inode
  <2>2. loc[p].keep \in 0 .. NInode
    BY <1>2 DEF LocT
  <2>3. cwd' = [cwd EXCEPT ![p] = cwd[p]] /\ cwd[p] \in 0 .. NInode
    BY <1>4 DEF FSInv, FSType
  <2>4. StageNext(p, "parent", i, loc[p].keep, << >>, cwd[p])
    BY <1>1, <1>2, <1>4, <1>7, <1>10 DEF StageNext, StageOK, WantsParent
  <2>5. LocksNext(p, "parent", i, loc[p].keep, << >>)
    BY <1>8, <1>10, LeavesNone DEF LocksNext
  <2>6. CountNext(p, 0, i, loc[p].keep, << >>, cwd[p])
    BY <1>6, LeavesNone, Sizes DEF CountNext, Is, Inode
  <2> QED
    BY <1>2, <1>5, <1>7, <1>8, <1>10, <2>1, <2>2, <2>3, <2>4, <2>5, <2>6, LeavesNone, GotoStep
<1>11. CASE \E n \in Inode :
              /\ itable' = Iget(Entry(itable, i, e, None), n)
              /\ loc' = [loc EXCEPT ![p].ip = n, ![p].path = Tail(@)]
              /\ todo' = [todo EXCEPT ![p] = << Put(i) >>]
  <2>1. PICK n \in Inode :
              /\ itable' = Iget(Entry(itable, i, e, None), n)
              /\ loc' = [loc EXCEPT ![p].ip = n, ![p].path = Tail(@)]
              /\ todo' = [todo EXCEPT ![p] = << Put(i) >>]
    BY <1>11
  <2>2. /\ TableGood(p) /\ Gains(n)
        /\ \A j \in Inode : itable'[j].lock # p
    <3>1. /\ TableGood(p) /\ Gains(n)
          /\ \A j \in Inode : j # i => itable'[j].lock = itable[j].lock
          /\ itable'[i].lock = None
      <4>1. /\ itable[i].lock \in {None, p} /\ itable[i].ref >= 1 /\ None \in {None, p}
            /\ disk'.di[i] = e /\ e.type # "free" /\ OthersOnDisk({i})
        BY <1>2, <1>4, <1>5, <1>6
      <4>2. itable' = Iget(Entry(itable, i, e, None), n)
        BY <2>1
      <4> QED
        BY <4>1, <4>2, TableIget
    <3> QED
      BY <1>3, <1>7, <3>1
  <2>3. PICK s : s = << Put(i) >>
    OBVIOUS
  <2>4. Leaves(s) /\ \A j \in Inode : Puts(s, j) = Is(i, j) /\ ~Unlocks(s, j)
    BY <2>3, LeavesOne
  <2>5. PICK l \in LocT : /\ loc' = [loc EXCEPT ![p] = l]
                          /\ l.at = "walk" /\ l.ip = n /\ l.keep = loc[p].keep
                          /\ l.fn = loc[p].fn
    <3>1. PICK m : m = [loc[p] EXCEPT !.ip = n]
      OBVIOUS
    <3>2. n \in 0 .. NInode
      BY Sizes DEF Inode
    <3>3. /\ m \in LocT /\ m.at = "walk" /\ m.ip = n /\ m.keep = loc[p].keep
          /\ m.fn = loc[p].fn /\ m.path = loc[p].path
      BY <1>2, <3>1, <3>2 DEF LocT
    <3>4. PICK t \in Seq(Elem) : t = Tail(loc[p].path)
      <4>1. loc[p].path \in Seq(Elem)
        BY <1>2 DEF LocT
      <4>2. PICK q \in Seq(Elem) : q = loc[p].path
        BY <4>1
      <4>3. Tail(q) \in Seq(Elem)
        BY <1>1, <4>2, HeadTailProperties
      <4> QED
        BY <4>2, <4>3
    <3>5. PICK l : l = [m EXCEPT !.path = t]
      OBVIOUS
    <3>6. l \in LocT /\ l.at = "walk" /\ l.ip = n /\ l.keep = loc[p].keep /\ l.fn = loc[p].fn
      BY <3>3, <3>5 DEF LocT
    <3>7. loc' = [loc EXCEPT ![p] = l]
      BY <2>1, <3>1, <3>3, <3>4, <3>5
    <3> QED
      BY <3>6, <3>7
  <2>6. Goes(p, l, s, cwd[p])
    <3>1. cwd' = [cwd EXCEPT ![p] = cwd[p]] /\ cwd[p] \in 0 .. NInode
      BY <1>4 DEF FSInv, FSType
    <3>2. StageOK(l, s, cwd[p], ofile'[p])
      BY <1>2, <1>4, <1>7, <2>5 DEF StageOK
    <3> QED
      BY <2>1, <2>3, <2>4, <2>5, <3>1, <3>2 DEF Goes, Leaves
  <2>7. LocksAre(p, l, s)
    BY <2>2, <2>4, <2>5 DEF LocksAre, KeepsLocked
  <2>8. Counted(p, l, s, cwd[p])
    <3> SUFFICES ASSUME NEW j \in Inode
                 PROVE  itable'[j].ref + Ptr(loc[p], j) + Is(cwd[p], j)
                          = itable[j].ref + Puts(s, j) + Ptr(l, j) + Is(cwd[p], j)
      BY DEF Counted
    <3>1. Ptr(loc[p], j) = Is(i, j) + Is(loc[p].keep, j)
      BY <1>6, <1>7 DEF Ptr
    <3>2. Ptr(l, j) = Is(n, j) + Is(loc[p].keep, j)
      BY <1>7, <2>5 DEF Ptr
    <3>3. itable'[j].ref = itable[j].ref + Is(n, j) /\ Puts(s, j) = Is(i, j)
      BY <2>2, <2>4 DEF Gains
    <3>4. PICK r \in Int : r = itable[j].ref
      BY DEF FSInv, FSType, EntryT
    <3>5. /\ Is(i, j) \in Int /\ Is(n, j) \in Int /\ Is(loc[p].keep, j) \in Int
          /\ Is(cwd[p], j) \in Int
      BY DEF Is
    <3>6. (r + Is(n, j)) + (Is(i, j) + Is(loc[p].keep, j)) + Is(cwd[p], j)
            = r + Is(i, j) + (Is(n, j) + Is(loc[p].keep, j)) + Is(cwd[p], j)
      BY ONLY <3>5
    <3> QED
      BY <3>1, <3>2, <3>3, <3>4, <3>6
  <2> QED
    BY <1>2, <1>5, <2>2, <2>6, <2>7, <2>8, CallStep
<1>12. QED
  <2> DEFINE k == DirLookup(disk, i, Head(loc[p].path))
             n == disk.ents[i][CHOOSE j \in k : TRUE].inum
  <2>1. k # {} => n \in Inode
    BY DirFound DEF FSInv, FSType
  <2>2. Ilocked(i) = e
    BY <1>2, <1>6
  <2> HIDE DEF n
  <2> QED
    BY <1>6, <1>9, <1>10, <1>11, <2>1, <2>2 DEF Walk, Found, n

\* A call that has nothing else locked has locked i = loc[p].ip, which is e.
Ready(p, i, e) ==
    /\ loc[p] \in LocT /\ todo[p] = << >> /\ cwd[p] \in Inode /\ cwd[p] # 0
    /\ loc[p].fn # "write" /\ StageOK(loc[p], << >>, cwd[p], ofile[p])
    /\ i = loc[p].ip /\ e = disk.di[i] /\ Ilocked(i) = e /\ e.type # "free"
    /\ itable[i].lock \in {None, p} /\ itable[i].ref >= 1 /\ p # None
    /\ \A j \in Inode : j # i => itable[j].lock # p

LEMMA ReadyIs ==
    ASSUME FSInv, NEW p \in Proc, NEW stage \in {"walk", "parent", "exists", "bad"},
           Locks(p, stage)
    PROVE  loc[p].at = stage /\ \E i \in Inode, e \in DinodeT : Ready(p, i, e)
<1>1. /\ loc[p] \in LocT /\ loc[p].at = stage /\ todo[p] = << >>
      /\ loc[p].ip \in Inode /\ cwd[p] \in Inode
      /\ StageOK(loc[p], << >>, cwd[p], ofile[p])
      /\ itable[loc[p].ip].lock = None
      /\ Ilocked(loc[p].ip) = disk.di[loc[p].ip]
      /\ disk.di[loc[p].ip] \in DinodeT /\ disk.di[loc[p].ip].type # "free"
      /\ itable[loc[p].ip].ref >= 1
  BY LocksIs
<1>2. \A j \in Inode : itable[j].lock # p
  BY <1>1, NothingLocked
<1>3. cwd[p] # 0 /\ p # None
  BY <1>1, Sizes DEF Inode
<1>4. loc[p].fn # "write"
  BY <1>1 DEF StageOK
<1>5. PICK i \in Inode, e \in DinodeT : i = loc[p].ip /\ e = disk.di[i]
  BY <1>1
<1>6. Ready(p, i, e)
  BY <1>1, <1>2, <1>3, <1>4, <1>5 DEF Ready
<1> QED
  BY <1>1, <1>6

\* It unlocks the inode, with e1 in it;
LEMMA ReadyEntry ==
    ASSUME FSInv, NEW p \in Proc, NEW i \in Inode, NEW e \in DinodeT, Ready(p, i, e),
           NEW e1 \in DinodeT, e1.type # "free", NEW h \in {None, p},
           itable' = Entry(itable, i, e1, h), disk'.di[i] = e1, OthersOnDisk({i})
    PROVE  /\ TableGood(p) /\ Gains(0)
           /\ \A j \in Inode : itable'[j].lock = p <=> h = p /\ j = i
<1>1. itable[i].lock \in {None, p}
  BY DEF Ready
<1>2. /\ TableGood(p) /\ Gains(0)
      /\ \A j \in Inode : j # i => itable'[j].lock = itable[j].lock
      /\ itable'[i].lock = h
  BY <1>1, TableEntry
<1> QED
  BY <1>2 DEF Ready

\* and may have taken a reference to another one.
LEMMA ReadyIget ==
    ASSUME FSInv, NEW p \in Proc, NEW i \in Inode, NEW e \in DinodeT, Ready(p, i, e),
           NEW e1 \in DinodeT, e1.type # "free", NEW h \in {None, p}, NEW n \in Inode,
           itable' = Iget(Entry(itable, i, e1, h), n), disk'.di[i] = e1, OthersOnDisk({i})
    PROVE  /\ TableGood(p) /\ Gains(n)
           /\ \A j \in Inode : itable'[j].lock = p <=> h = p /\ j = i
<1>1. itable[i].lock \in {None, p} /\ itable[i].ref >= 1
  BY DEF Ready
<1>2. /\ TableGood(p) /\ Gains(n)
      /\ \A j \in Inode : j # i => itable'[j].lock = itable[j].lock
      /\ itable'[i].lock = h
  BY <1>1, TableIget
<1> QED
  BY <1>2 DEF Ready

\* iunlockput() and the end of the call.
LEMMA ReadyPut ==
    ASSUME FSInv, NEW p \in Proc, NEW i \in Inode, NEW e \in DinodeT, Ready(p, i, e),
           NEW e1 \in DinodeT, e1.type # "free", loc[p].keep = 0,
           itable' = Entry(itable, i, e1, None), disk'.di[i] = e1, OthersOnDisk({i}),
           DiskGood, FilesSame, cwd' = cwd, End(p, << Put(i) >>)
    PROVE  FSInv'
<1>1. /\ TableGood(p) /\ Gains(0)
      /\ \A j \in Inode : itable'[j].lock # p
  BY ReadyEntry DEF Ready
<1>2. PICK s : s = << Put(i) >>
  OBVIOUS
<1>3. Leaves(s) /\ \A j \in Inode : Puts(s, j) = Is(i, j) /\ ~Unlocks(s, j)
  BY <1>2, LeavesOne
<1>4. End(p, s)
  BY <1>2
<1>5. \A j \in Inode : itable'[j].lock = p <=> Unlocks(s, j)
  BY <1>1, <1>3
<1>6. \A j \in Inode : Is(0, j) + Is(loc[p].ip, j) + Is(loc[p].keep, j) = Puts(s, j)
  <2> TAKE j \in Inode
  <2>1. Is(0, j) = 0 /\ Puts(s, j) = Is(i, j) /\ Is(loc[p].keep, j) = 0
    BY <1>3, Sizes DEF Is, Inode
  <2>2. Is(loc[p].ip, j) = Is(i, j)
    BY DEF Ready
  <2> QED
    BY <2>1, <2>2, IsType
<1>7. todo[p] = << >> /\ loc[p].fn # "write" /\ cwd[p] # 0
  BY DEF Ready
<1> QED
  BY <1>1, <1>3, <1>4, <1>5, <1>6, <1>7, EndStep

LEMMA WalkNoNameKeeps == ASSUME FSInv, NEW p \in Proc, WalkNoName(p) PROVE FSInv'
<1>1. loc[p].at = "walk" /\ todo[p] = << >> /\ Fails(p, << Put(loc[p].ip) >>)
  BY DEF WalkNoName, At
<1>2. /\ disk' = disk /\ itable' = itable /\ stable' = stable /\ file' = file /\ ofile' = ofile
      /\ cwd' = cwd
  BY DEF WalkNoName, rest
<1>3. loc[p].ip \in Inode /\ cwd[p] # 0
  BY <1>1 DEF FSInv, Stage, StageOK
<1>4. DiskGood /\ FilesSame /\ TableGood(p) /\ Gains(0)
  BY <1>2, SameDisk, SameFiles, SameTable
<1>5. PICK s : s = << Put(loc[p].ip) >>
  OBVIOUS
<1>6. Leaves(s) /\ \A j \in Inode : Puts(s, j) = Is(loc[p].ip, j) /\ ~Unlocks(s, j)
  BY <1>3, <1>5, LeavesOne
<1>7. \A j \in Inode : itable'[j].lock = p <=> Unlocks(s, j)
  BY <1>1, <1>2, <1>6, NothingLocked
<1>8. \A j \in Inode : Is(0, j) + Is(loc[p].ip, j) = Puts(s, j)
  <2> TAKE j \in Inode
  <2>1. Is(0, j) = 0 /\ Puts(s, j) = Is(loc[p].ip, j)
    BY <1>6, Sizes DEF Is, Inode
  <2> QED
    BY <2>1, IsType
<1>9. Fails(p, s)
  BY <1>1, <1>5
<1> QED
  BY <1>1, <1>2, <1>3, <1>4, <1>6, <1>7, <1>8, <1>9, FailStep

LEMMA LinkBadKeeps == ASSUME FSInv, NEW p \in Proc, LinkBad(p) PROVE FSInv'
<1>1. Locks(p, "bad")
  BY DEF LinkBad
<1>2. loc[p].at = "bad" /\ \E i \in Inode, e \in DinodeT : Ready(p, i, e)
  BY <1>1, ReadyIs
<1>3. PICK i \in Inode, e \in DinodeT : Ready(p, i, e)
  BY <1>2
<1>4. loc[p].keep = 0
  BY <1>2, <1>3 DEF Ready, StageOK
<1>5. PICK e1 : e1 = [e EXCEPT !.nlink = @ - 1]
  OBVIOUS
<1>6. e1 \in DinodeT /\ e1.type = e.type /\ e1.addrs = e.addrs
  BY <1>5 DEF DinodeT
<1>7. /\ itable' = Entry(itable, i, e1, None) /\ disk' = With(disk, i, e1)
      /\ End(p, << Put(i) >>)
  BY <1>3, <1>5 DEF LinkBad, With, Ready
<1>8. stable' = stable /\ file' = file /\ ofile' = ofile /\ cwd' = cwd
  BY DEF LinkBad, rest
<1>9. DiskGood /\ disk'.di[i] = e1 /\ OthersOnDisk({i})
  <2>1. e1.addrs = disk.di[i].addrs /\ e1.type = disk.di[i].type
    BY <1>3, <1>6 DEF Ready
  <2> QED
    BY <1>6, <1>7, <1>8, <2>1, InodeWritten
<1>10. FilesSame /\ e1.type # "free"
  BY <1>3, <1>6, <1>8, SameFiles DEF Ready
<1> QED
  BY <1>3, <1>4, <1>6, <1>7, <1>8, <1>9, <1>10, ReadyPut

-----------------------------------------------------------------------------
(* System calls begin and end.                                             *)

\* A process in no call has no pointers but its current directory.
LEMMA EntersIs ==
    ASSUME FSInv, NEW p \in Proc, At(p, "none")
    PROVE  /\ loc[p] \in LocT /\ todo[p] = << >> /\ loc[p].ip = 0 /\ loc[p].keep = 0
           /\ loc[p].fn # "write" /\ cwd[p] \in 0 .. NInode
           /\ \A j \in Inode : Ptr(loc[p], j) = 0 /\ itable[j].lock # p
<1>1. /\ loc[p] \in LocT /\ todo[p] = << >> /\ loc[p].at = "none" /\ cwd[p] \in 0 .. NInode
      /\ StageOK(loc[p], todo[p], cwd[p], ofile[p])
  BY DEF FSInv, FSType, At, Stage
<1>2. loc[p].ip = 0 /\ loc[p].keep = 0 /\ loc[p].fn # "write"
  BY <1>1 DEF StageOK
<1>3. \A j \in Inode : itable[j].lock # p
  BY <1>1, NothingLocked
<1>4. ASSUME NEW j \in Inode PROVE Ptr(loc[p], j) = 0
  <2>1. Is(0, j) = 0
    BY Sizes DEF Is, Inode
  <2> QED
    BY <1>2, <2>1 DEF Ptr
<1> QED
  BY <1>1, <1>2, <1>3, <1>4

PathFn == {"open", "creat", "mkdir", "mknod", "chdir", "unlink", "link"}

LEMMA PathCallKeeps ==
    ASSUME FSInv, NEW p \in Proc, NEW fn \in PathFn, NEW q \in PathT, NEW new \in PathT,
           PathCall(p, fn, q, new)
    PROVE  FSInv'
<1>1. At(p, "none") /\ cwd[p] # 0
  BY DEF PathCall, Enters
<1>2. /\ disk' = disk /\ stable' = stable /\ file' = file /\ ofile' = ofile
      /\ cwd' = cwd /\ todo' = todo
  BY DEF PathCall
<1>3. /\ loc[p] \in LocT /\ todo[p] = << >> /\ cwd[p] \in Inode
      /\ \A j \in Inode : Ptr(loc[p], j) = 0 /\ itable[j].lock # p
  BY <1>1, EntersIs, Sizes DEF Inode
<1>4. PICK n \in Inode : n = Start(q, p)
  BY <1>3, Sizes DEF Start, ROOTINO, Inode
<1>5. PICK l : l = [fn |-> fn, at |-> "walk", path |-> q.elem, new |-> new, ip |-> n, keep |-> 0]
  OBVIOUS
<1>6. l \in LocT
  BY <1>5, Sizes DEF LocT, FnT, AtT, PathT, PathFn, Inode
<1>7. /\ l.fn = fn /\ l.at = "walk" /\ l.ip = n /\ l.keep = 0
      /\ loc' = [loc EXCEPT ![p] = l] /\ itable' = Iget(itable, n)
  BY <1>4, <1>5 DEF PathCall
<1>8. /\ TableGood(p) /\ Gains(n) /\ \A j \in Inode : itable'[j].lock # p
  BY <1>2, <1>3, <1>7, TableDup
<1>9. DiskGood /\ FilesSame
  BY <1>2, SameDisk, SameFiles
<1>10. Goes(p, l, << >>, cwd[p])
  <2>1. StageOK(l, << >>, cwd[p], ofile'[p])
    BY <1>1, <1>7 DEF StageOK, PathFn
  <2>2. todo' = [todo EXCEPT ![p] = << >>] /\ cwd' = [cwd EXCEPT ![p] = cwd[p]]
    BY <1>2, <1>3 DEF FSInv, FSType
  <2>3. cwd[p] \in 0 .. NInode
    BY <1>3 DEF Inode
  <2> QED
    BY <1>6, <1>7, <2>1, <2>2, <2>3, LeavesNone DEF Goes, Leaves
<1>11. LocksAre(p, l, << >>)
  BY <1>7, <1>8, LeavesNone DEF LocksAre, KeepsLocked
<1>12. Counted(p, l, << >>, cwd[p])
  <2> SUFFICES ASSUME NEW j \in Inode
               PROVE  itable'[j].ref + Ptr(loc[p], j) + Is(cwd[p], j)
                        = itable[j].ref + Puts(<< >>, j) + Ptr(l, j) + Is(cwd[p], j)
    BY DEF Counted
  <2>1. Ptr(l, j) = Is(n, j) + Is(0, j) /\ Is(0, j) = 0
    BY <1>7, Sizes DEF Ptr, PathFn, Is, Inode
  <2>2. Ptr(loc[p], j) = 0 /\ Puts(<< >>, j) = 0 /\ itable'[j].ref = itable[j].ref + Is(n, j)
    BY <1>3, <1>8, LeavesNone DEF Gains
  <2>3. PICK r \in Int : r = itable[j].ref
    BY DEF FSInv, FSType, EntryT
  <2>4. Is(n, j) \in Int /\ Is(cwd[p], j) \in Int
    BY DEF Is
  <2>5. (r + Is(n, j)) + 0 + Is(cwd[p], j) = r + 0 + (Is(n, j) + 0) + Is(cwd[p], j)
    BY ONLY <2>4
  <2> QED
    BY <2>1, <2>2, <2>3, <2>5
<1> QED
  BY <1>3, <1>8, <1>9, <1>10, <1>11, <1>12, CallStep

LEMMA EndOpKeeps == ASSUME FSInv, NEW p \in Proc, EndOp(p) PROVE FSInv'
<1>1. At(p, "end") /\ loc' = [loc EXCEPT ![p] = Idle]
  BY DEF EndOp
<1>2. /\ disk' = disk /\ itable' = itable /\ file' = file /\ ofile' = ofile
      /\ cwd' = cwd /\ todo' = todo /\ (stable' = disk \/ stable' = stable)
  BY DEF EndOp
<1>3. /\ loc[p] \in LocT /\ todo[p] = << >> /\ loc[p].at = "end" /\ cwd[p] \in 0 .. NInode
      /\ StageOK(loc[p], todo[p], cwd[p], ofile[p])
  BY <1>1 DEF FSInv, FSType, At, Stage
<1>4. loc[p].ip = 0 /\ loc[p].keep = 0
  BY <1>3 DEF StageOK
<1>5. Idle \in LocT /\ Idle.at = "none" /\ Idle.ip = 0 /\ Idle.keep = 0 /\ Idle.fn = "none"
  BY Sizes DEF Idle, LocT, FnT, AtT, PathT
<1> HIDE DEF Idle
<1>6. FSType'
  BY <1>1, <1>2, <1>5 DEF FSInv, FSType
<1>7. Others(p)
  BY <1>1, <1>2 DEF Others, FSInv, FSType
<1>8. loc'[p] = Idle /\ todo'[p] = << >>
  BY <1>1, <1>2, <1>3 DEF FSInv, FSType
<1>9. Stage(p)' /\ CallsOK(todo'[p])
  <2>1. cwd[p] = 0 => ofile[p] = 0
    BY <1>3 DEF StageOK
  <2>2. StageOK(Idle, << >>, cwd[p], ofile[p])
    BY <1>5, <2>1 DEF StageOK
  <2> QED
    BY <1>2, <1>8, <2>2, NoCalls DEF Stage
<1>10. LockHyp(p) /\ MemHyp
  BY <1>2, SameTable DEF TableGood
<1>11. \A i \in Inode : itable'[i].lock = p <=> HasLocked(p, i)'
  <2> TAKE i \in Inode
  <2>1. itable'[i].lock # p
    BY <1>2, <1>3, NothingLocked
  <2>2. ~HasLocked(p, i)'
    BY <1>5, <1>8, NoCalls DEF HasLocked, KeepsLocked
  <2> QED
    BY <2>1, <2>2
<1>12. RefExact'
  <2>1. ASSUME NEW i \in Inode
        PROVE  itable'[i].ref + Held(p, i) = itable[i].ref + Held(p, i)'
    <3>1. Is(0, i) = 0
      BY Sizes DEF Is, Inode
    <3>2. Held(p, i) = Puts(<< >>, i) + 0 + 0 + Is(cwd[p], i)
      BY <1>3, <1>4, <3>1 DEF Held
    <3>3. Held(p, i)' = Puts(<< >>, i) + 0 + 0 + Is(cwd[p], i)
      BY <1>2, <1>5, <1>8, <3>1 DEF Held
    <3> QED
      BY <1>2, <3>2, <3>3
  <2>2. \A f \in File : file'[f].ip = file[f].ip /\ file'[f].ref = file[f].ref
    BY <1>2
  <2> QED
    BY <1>2, <1>6, <1>7, <2>1, <2>2, RefStep DEF FSInv
<1>13. FilesOK' /\ SlotsExact(disk') /\ SlotsExact(stable')
  BY <1>2 DEF FSInv, FilesOK
<1>14. \A i \in Inode : ~Freed(todo[p], i)
  BY <1>3, NoCalls
<1> QED
  BY <1>6, <1>7, <1>9, <1>10, <1>11, <1>12, <1>13, <1>14, Assemble

\* panic() and the end of everything change nothing that is in the invariant.
LEMMA SameKeeps ==
    ASSUME FSInv,
           UNCHANGED <<disk, stable, itable, file, ofile, cwd, loc, todo>>
    PROVE  FSInv'
<1>1. FSType' /\ FilesOK' /\ SlotsExact(disk') /\ SlotsExact(stable')
  BY DEF FSInv, FSType, FilesOK
<1>2. \A p \in Proc : Stage(p)' /\ CallsOK(todo[p])'
  BY DEF FSInv, Stage
<1>3. LocksExact'
  BY DEF FSInv, LocksExact, HasLocked
<1>4. MemoryExact'
  BY DEF FSInv, MemoryExact
<1>5. RefExact'
  <2>1. ASSUME NEW i \in Inode PROVE Pointers(i)' = Pointers(i) /\ OpenFiles(i)' = OpenFiles(i)
    <3>1. \A p \in Proc : Held(p, i)' = Held(p, i)
      BY DEF Held
    <3> QED
      BY <3>1 DEF Pointers, OpenFiles
  <2> QED
    BY <2>1 DEF FSInv, RefExact
<1> QED
  BY <1>1, <1>2, <1>3, <1>4, <1>5 DEF FSInv

-----------------------------------------------------------------------------
(* iput() and iunlock().                                                   *)

\* A step of p leaves the calls u to be made,
PutsTo(p, u) ==
    /\ u \in Seq(CallT) /\ CallsOK(u) /\ todo' = [todo EXCEPT ![p] = u]
    /\ \A i \in Inode : /\ Unlocks(u, i) => Unlocks(todo[p], i)
                        /\ Frees(u, i) => ~Unlocks(u, i) /\ ~KeepsLocked(loc[p], i)
    /\ loc' = loc /\ file' = file /\ ofile' = ofile /\ cwd' = cwd /\ stable' = stable

\* with the locks, the references and the copies in order.
PutLocks(p, u) ==
    /\ LockHyp(p)
    /\ \A i \in Inode : itable'[i].lock = p <=> Unlocks(u, i) \/ Frees(u, i) \/ KeepsLocked(loc[p], i)
PutRefs(p, u) ==
    \A i \in Inode : itable'[i].ref + Puts(todo[p], i) = itable[i].ref + Puts(u, i)
PutCopies(p, u) ==
    \A i \in Inode : itable'[i].valid =>
      \/ Freed(u, i)
      \/ /\ itable[i].valid /\ itable'[i].d = itable[i].d /\ disk'.di[i] = disk.di[i]
         /\ ~Freed(todo[p], i)

LEMMA PutStep ==
    ASSUME FSInv, NEW p \in Proc, todo[p] # << >>, NEW u, PutsTo(p, u), PutLocks(p, u),
           PutRefs(p, u), PutCopies(p, u), itable' \in [Inode -> EntryT], disk' \in DiskT,
           SlotsExact(disk')
    PROVE  FSInv'
<1>1. /\ u \in Seq(CallT) /\ CallsOK(u) /\ todo' = [todo EXCEPT ![p] = u]
      /\ loc' = loc /\ file' = file /\ ofile' = ofile /\ cwd' = cwd /\ stable' = stable
  BY DEF PutsTo
<1>2. FSType'
  BY <1>1 DEF FSInv, FSType
<1>3. todo'[p] = u /\ \A q \in Proc \ {p} : todo'[q] = todo[q]
  BY <1>1 DEF FSInv, FSType
<1>4. Others(p)
  BY <1>1, <1>3 DEF Others
<1>5. ASSUME NEW q \in Proc PROVE Stage(q)' /\ CallsOK(todo'[q])
  <2>1. Stage(q) /\ CallsOK(todo[q])
    BY DEF FSInv
  <2>2. CASE q # p
    BY <1>1, <1>3, <2>1, <2>2 DEF Stage
  <2>3. CASE q = p
    <3>1. StageOK(loc[p], u, cwd[p], ofile[p])
      BY <2>1, <2>3 DEF Stage, StageOK, PutsTo
    <3> QED
      BY <1>1, <1>3, <2>3, <3>1 DEF Stage, PutsTo
  <2> QED
    BY <2>2, <2>3
<1>6. LocksExact'
  <2>1. \A i \in Inode : itable'[i].lock = p <=> HasLocked(p, i)'
    BY <1>1, <1>3 DEF PutLocks, HasLocked
  <2> QED
    BY <1>2, <1>4, <2>1, LockStep DEF FSInv, PutLocks
<1>7. RefExact'
  <2>1. ASSUME NEW i \in Inode
        PROVE  itable'[i].ref + Held(p, i) = itable[i].ref + Held(p, i)'
    <3>1. Held(p, i) = Puts(todo[p], i) + Ptr(loc[p], i) + Is(cwd[p], i)
      BY HeldIs DEF FSInv, FSType
    <3>2. Held(p, i)' = Puts(u, i) + Ptr(loc[p], i) + Is(cwd[p], i)
      <4>1. Held(p, i)' = Puts(u, i) + (IF loc[p].fn = "write" THEN 0 ELSE Is(loc[p].ip, i))
                            + Is(loc[p].keep, i) + Is(cwd[p], i)
        BY <1>1, <1>3 DEF Held
      <4>2. PICK x \in Int : x = IF loc[p].fn = "write" THEN 0 ELSE Is(loc[p].ip, i)
        BY DEF Is
      <4>3. Puts(u, i) \in Int /\ Is(cwd[p], i) \in Int /\ Is(loc[p].keep, i) \in Int
        <5>1. Puts(u, i) \in Nat
          BY <1>1, PutsType
        <5> QED
          BY <5>1 DEF Is
      <4>4. Puts(u, i) + x + Is(loc[p].keep, i) + Is(cwd[p], i)
              = Puts(u, i) + (x + Is(loc[p].keep, i)) + Is(cwd[p], i)
        BY ONLY <4>3
      <4> QED
        BY <4>1, <4>2, <4>4 DEF Ptr
    <3>3. PICK a \in Int, b \in Int : a = Puts(todo[p], i) /\ b = Puts(u, i)
      <4>1. todo[p] \in Seq(CallT)
        BY DEF FSInv, FSType
      <4>2. Puts(todo[p], i) \in Nat /\ Puts(u, i) \in Nat
        BY <1>1, <4>1, PutsType
      <4> QED
        BY <4>2
    <3>4. PICK c \in Int, d \in Int : c = Ptr(loc[p], i) /\ d = Is(cwd[p], i)
      <4>1. Ptr(loc[p], i) \in Int /\ Is(cwd[p], i) \in Int
        BY DEF Ptr, Is
      <4> QED
        BY <4>1
    <3>5. PICK r \in Int, r1 \in Int : r = itable[i].ref /\ r1 = itable'[i].ref
      BY <1>2 DEF FSInv, FSType, EntryT
    <3>6. r1 + a = r + b
      BY <3>3, <3>5 DEF PutRefs
    <3>7. r1 + (a + c + d) = r + (b + c + d)
      BY ONLY <3>6
    <3> QED
      BY <3>1, <3>2, <3>3, <3>4, <3>5, <3>7
  <2>2. \A f \in File : file'[f].ip = file[f].ip /\ file'[f].ref = file[f].ref
    BY <1>1
  <2> QED
    BY <1>1, <1>2, <1>4, <2>1, <2>2, RefStep DEF FSInv
<1>8. MemoryExact'
  <2> SUFFICES ASSUME NEW i \in Inode, itable'[i].valid
               PROVE  \/ itable'[i].d = disk'.di[i] /\ disk'.di[i].type # "free"
                      \/ \E q \in Proc : Freed(todo'[q], i)
    BY DEF MemoryExact
  <2>1. CASE Freed(u, i)
    BY <1>3, <2>1
  <2>2. CASE ~Freed(u, i)
    <3>1. /\ itable[i].valid /\ itable'[i].d = itable[i].d /\ disk'.di[i] = disk.di[i]
          /\ ~Freed(todo[p], i)
      BY <2>2 DEF PutCopies
    <3>2. \/ itable[i].d = disk.di[i] /\ disk.di[i].type # "free"
          \/ \E q \in Proc : Freed(todo[q], i)
      BY <3>1 DEF FSInv, MemoryExact
    <3>3. CASE itable[i].d = disk.di[i] /\ disk.di[i].type # "free"
      BY <3>1, <3>3
    <3>4. CASE \E q \in Proc : Freed(todo[q], i)
      <4>1. PICK q \in Proc : Freed(todo[q], i)
        BY <3>4
      <4> QED
        BY <1>3, <3>1, <4>1
    <3> QED
      BY <3>2, <3>3, <3>4
  <2> QED
    BY <2>1, <2>2
<1>9. FilesOK' /\ SlotsExact(stable')
  BY <1>1 DEF FSInv, FilesOK
<1> QED
  BY <1>2, <1>5, <1>6, <1>7, <1>8, <1>9 DEF FSInv

\* The process makes the first of its calls, an op of inode i.
LEMMA DoingIs ==
    ASSUME FSInv, NEW p \in Proc, NEW op, Doing(p, op)
    PROVE  /\ todo[p] \in Seq(CallT) /\ todo[p] # << >> /\ CallsOK(todo[p])
           /\ Head(todo[p]) = todo[p][1] /\ todo[p][1] \in CallT /\ todo[p][1].i \in Inode
           /\ todo[p][1].op = op /\ Stage(p)
           /\ \A j \in Inode : itable[j].lock = p <=> HasLocked(p, j)
<1>1. /\ todo[p] \in Seq(CallT) /\ todo[p] # << >> /\ CallsOK(todo[p]) /\ Head(todo[p]).op = op
      /\ Stage(p) /\ \A j \in Inode : itable[j].lock = p <=> HasLocked(p, j)
  BY DEF FSInv, FSType, Doing, LocksExact
<1>2. Head(todo[p]) = todo[p][1] /\ todo[p][1] \in CallT
  BY <1>1
<1> QED
  BY <1>1, <1>2 DEF CallT

LEMMA IUnlockKeeps == ASSUME FSInv, NEW p \in Proc, IUnlock(p) PROVE FSInv'
<1>1. Doing(p, "unlock")
  BY DEF IUnlock
<1>2. PICK s \in Seq(CallT), i \in Inode, u \in {Tail(todo[p])} :
        /\ s = todo[p] /\ s # << >> /\ CallsOK(s) /\ s[1] \in CallT /\ s[1].op = "unlock"
        /\ i = s[1].i /\ Head(s) = s[1] /\ u = Tail(s)
  <2>1. /\ todo[p] \in Seq(CallT) /\ todo[p] # << >> /\ CallsOK(todo[p])
        /\ Head(todo[p]) = todo[p][1] /\ todo[p][1] \in CallT /\ todo[p][1].i \in Inode
        /\ todo[p][1].op = "unlock"
    BY <1>1, DoingIs
  <2> QED
    BY <2>1
<1>3. s[1] = Unlock(i) /\ \A j \in Inode : s[1] = Unlock(j) <=> j = i
  BY <1>2 DEF CallT, Unlock
<1>4. \A j \in Inode : /\ u \in Seq(CallT) /\ CallsOK(u)
                       /\ Puts(s, j) = Weight(s[1], j) + Puts(u, j)
                       /\ Unlocks(u, j) => Unlocks(s, j)
                       /\ Unlocks(s, j) => s[1] = Unlock(j) \/ Unlocks(u, j)
                       /\ s[1] = Unlock(j) => Unlocks(s, j) /\ ~Unlocks(u, j)
                       /\ ~Frees(u, j) /\ ~Freed(u, j)
  BY <1>2, CallDone
<1>5. /\ itable' = [itable EXCEPT ![i].lock = None] /\ todo' = [todo EXCEPT ![p] = u]
      /\ disk' = disk /\ loc' = loc /\ file' = file /\ ofile' = ofile /\ cwd' = cwd
      /\ stable' = stable
  BY <1>2 DEF IUnlock, Finishes, rest
<1>6. /\ itable \in [Inode -> EntryT] /\ disk \in DiskT /\ SlotsExact(disk)
  BY DEF FSInv, FSType
<1>7. /\ itable' \in [Inode -> EntryT]
      /\ \A j \in Inode : /\ itable'[j].ref = itable[j].ref /\ itable'[j].valid = itable[j].valid
                          /\ itable'[j].d = itable[j].d
                          /\ itable'[j].lock = IF j = i THEN None ELSE itable[j].lock
  BY <1>5, <1>6 DEF EntryT
<1>8. \A j \in Inode : /\ itable[j].lock = p <=> HasLocked(p, j)
                       /\ itable[j].lock # None => itable[j].valid
  BY DEF FSInv, LocksExact
<1>9. ~KeepsLocked(loc[p], i)
  <2>1. Unlocks(todo[p], i)
    BY <1>2, <1>3, <1>4
  <2>2. loc[p].at \notin {"child", "new", "unlinked", "opened"}
    BY <2>1 DEF FSInv, Stage, StageOK
  <2> QED
    BY <2>2 DEF KeepsLocked
<1>10. PutsTo(p, u)
  BY <1>2, <1>4, <1>5 DEF PutsTo
<1>11. PutLocks(p, u)
  <2>1. LockHyp(p)
    <3>1. itable[i].lock = p
      BY <1>2, <1>3, <1>4, <1>8 DEF HasLocked
    <3> QED
      BY <1>7, <1>8, <3>1 DEF LockHyp
  <2>2. ASSUME NEW j \in Inode
        PROVE  itable'[j].lock = p <=> Unlocks(u, j) \/ Frees(u, j) \/ KeepsLocked(loc[p], j)
    <3>1. CASE j = i
      BY <1>3, <1>4, <1>7, <1>9, <3>1, Sizes
    <3>2. CASE j # i
      <4>1. Unlocks(s, j) <=> Unlocks(u, j)
        BY <1>3, <1>4, <3>2
      <4>2. ~Frees(s, j)
        BY <1>2 DEF Frees
      <4> QED
        BY <1>2, <1>4, <1>7, <1>8, <3>2, <4>1, <4>2 DEF HasLocked
    <3> QED
      BY <3>1, <3>2
  <2> QED
    BY <2>1, <2>2 DEF PutLocks
<1>12. PutRefs(p, u)
  <2> SUFFICES ASSUME NEW j \in Inode
               PROVE  itable'[j].ref + Puts(s, j) = itable[j].ref + Puts(u, j)
    BY <1>2 DEF PutRefs
  <2>1. Weight(s[1], j) = 0
    BY <1>2 DEF Weight
  <2>2. Puts(u, j) \in Nat
    BY <1>4, PutsType
  <2> QED
    BY <1>4, <1>7, <2>1, <2>2
<1>13. PutCopies(p, u)
  <2>1. \A j \in Inode : ~Freed(todo[p], j)
    BY <1>2 DEF Freed
  <2> QED
    BY <1>5, <1>7, <2>1 DEF PutCopies
<1> QED
  BY <1>2, <1>5, <1>6, <1>7, <1>10, <1>11, <1>12, <1>13, PutStep

\* The reference is given back.
LEMMA PutDone ==
    ASSUME FSInv, NEW p \in Proc, NEW op \in {"put", "drop"}, Doing(p, op),
           itable' = [itable EXCEPT ![Head(todo[p]).i].ref = @ - 1], Finishes(p),
           UNCHANGED <<disk, loc, rest>>
    PROVE  FSInv'
<1>1. PICK s \in Seq(CallT), i \in Inode, u \in {Tail(todo[p])} :
        /\ s = todo[p] /\ s # << >> /\ CallsOK(s) /\ s[1] \in CallT /\ s[1].op = op
        /\ i = s[1].i /\ Head(s) = s[1] /\ u = Tail(s)
  BY DoingIs
<1>2. \A j \in Inode : s[1] # Unlock(j)
  BY <1>1 DEF CallT, Unlock
<1>3. \A j \in Inode : /\ u \in Seq(CallT) /\ CallsOK(u)
                       /\ Puts(s, j) = Weight(s[1], j) + Puts(u, j)
                       /\ Unlocks(u, j) => Unlocks(s, j)
                       /\ Unlocks(s, j) => s[1] = Unlock(j) \/ Unlocks(u, j)
                       /\ ~Frees(u, j) /\ ~Freed(u, j)
  BY <1>1, CallDone
<1>4. /\ itable' = [itable EXCEPT ![i].ref = @ - 1] /\ todo' = [todo EXCEPT ![p] = u]
      /\ disk' = disk /\ loc' = loc /\ file' = file /\ ofile' = ofile /\ cwd' = cwd
      /\ stable' = stable
  BY <1>1 DEF Finishes, rest
<1>5. /\ itable \in [Inode -> EntryT] /\ disk \in DiskT /\ SlotsExact(disk)
  BY DEF FSInv, FSType
<1>6. /\ itable' \in [Inode -> EntryT]
      /\ \A j \in Inode : /\ itable'[j].lock = itable[j].lock /\ itable'[j].valid = itable[j].valid
                          /\ itable'[j].d = itable[j].d
                          /\ itable'[j].ref = IF j = i THEN itable[j].ref - 1 ELSE itable[j].ref
  <2>1. PICK e : e = [itable[i] EXCEPT !.ref = @ - 1]
    OBVIOUS
  <2>2. itable[i] \in EntryT
    BY <1>5
  <2>3. /\ e \in EntryT /\ e.ref = itable[i].ref - 1 /\ e.lock = itable[i].lock
        /\ e.valid = itable[i].valid /\ e.d = itable[i].d
    BY <2>1, <2>2, SMTT(30) DEF EntryT
  <2>4. itable' = [itable EXCEPT ![i] = e]
    BY <1>4, <2>1
  <2> QED
    BY <1>5, <2>3, <2>4
<1>7. \A j \in Inode : /\ itable[j].lock = p <=> HasLocked(p, j)
                       /\ itable[j].lock # None => itable[j].valid
  BY DEF FSInv, LocksExact
<1>8. PutsTo(p, u)
  BY <1>1, <1>3, <1>4 DEF PutsTo
<1>9. PutLocks(p, u)
  <2>1. LockHyp(p)
    BY <1>6, <1>7 DEF LockHyp
  <2>2. ASSUME NEW j \in Inode
        PROVE  itable'[j].lock = p <=> Unlocks(u, j) \/ Frees(u, j) \/ KeepsLocked(loc[p], j)
    <3>1. Unlocks(s, j) <=> Unlocks(u, j)
      BY <1>2, <1>3
    <3>2. ~Frees(s, j)
      BY <1>1 DEF Frees
    <3> QED
      BY <1>1, <1>3, <1>6, <1>7, <3>1, <3>2, SMTT(30) DEF HasLocked
  <2> QED
    BY <2>1, <2>2 DEF PutLocks
<1>10. PutRefs(p, u)
  <2> SUFFICES ASSUME NEW j \in Inode
               PROVE  itable'[j].ref + Puts(s, j) = itable[j].ref + Puts(u, j)
    BY <1>1 DEF PutRefs
  <2>1. Weight(s[1], j) = IF j = i THEN 1 ELSE 0
    BY <1>1 DEF Weight, Is
  <2>2. Puts(u, j) \in Nat
    BY <1>3, PutsType
  <2>3. itable[j].ref \in Int
    BY <1>5 DEF EntryT
  <2>4. PICK a \in Int, r \in Int : a = Puts(u, j) /\ r = itable[j].ref
    BY <2>2, <2>3
  <2>5. (r - 1) + (1 + a) = r + a /\ r + (0 + a) = r + a
    BY ONLY a \in Int, r \in Int
  <2>6. /\ itable'[j].ref = IF j = i THEN r - 1 ELSE r
        /\ Puts(s, j) = IF j = i THEN 1 + a ELSE 0 + a
    BY <1>3, <1>6, <2>1, <2>4
  <2> QED
    BY <2>4, <2>5, <2>6
<1>11. PutCopies(p, u)
  <2>1. \A j \in Inode : ~Freed(todo[p], j)
    BY <1>1 DEF Freed
  <2> QED
    BY <1>4, <1>6, <2>1 DEF PutCopies
<1> QED
  BY <1>1, <1>4, <1>5, <1>6, <1>8, <1>9, <1>10, <1>11, PutStep

LEMMA IPutDropKeeps == ASSUME FSInv, NEW p \in Proc, IPutDrop(p) PROVE FSInv'
BY PutDone DEF IPutDrop

\* The first call, an op of i, becomes a new one of i, and the others stay.
Turns(p, op, new, i, u) ==
    /\ Head(todo[p]).i = i /\ todo[p] # << >> /\ todo[p][1].op = op /\ todo[p][1].i = i
    /\ CallsOK(u) /\ todo' = [todo EXCEPT ![p] = u] /\ u # << >> /\ u[1].op = new /\ u[1].i = i
    /\ \A j \in Inode : Puts(u, j) = Puts(todo[p], j) /\ (Unlocks(u, j) <=> Unlocks(todo[p], j))

LEMMA BecomesIs ==
    ASSUME FSInv, NEW p \in Proc, NEW op, op # "unlock", NEW new \in {"free", "freed", "drop"},
           Doing(p, op), Becomes(p, new)
    PROVE  \E i \in Inode, u \in Seq(CallT) : Turns(p, op, new, i, u)
<1>1. /\ todo[p] \in Seq(CallT) /\ todo[p] # << >> /\ CallsOK(todo[p])
      /\ Head(todo[p]) = todo[p][1] /\ todo[p][1].i \in Inode /\ todo[p][1].op = op
  BY DoingIs
<1>2. PICK s \in Seq(CallT) : s = todo[p]
  BY <1>1
<1>3. PICK u : u = GoesOn(s, new)
  OBVIOUS
<1>4. todo' = [todo EXCEPT ![p] = u]
  BY <1>1, <1>2, <1>3 DEF Becomes, GoesOn
<1>5. s # << >> /\ CallsOK(s) /\ s[1].op # "unlock"
  BY <1>1, <1>2
<1>6. ASSUME NEW j
      PROVE  /\ u \in Seq(CallT) /\ CallsOK(u) /\ Puts(u, j) = Puts(s, j)
             /\ Unlocks(u, j) <=> Unlocks(s, j)
             /\ u # << >> /\ u[1].op = new /\ u[1].i = s[1].i
  <2>1. s # << >>
    BY <1>5
  <2>2. CallsOK(s)
    BY <1>5
  <2>3. s[1].op # "unlock"
    BY <1>5
  <2> QED
    BY <1>3, <2>1, <2>2, <2>3, CallGoesOn, ZenonT(30)
<1>7. s[1].i \in Inode
  BY <1>1, <1>2
<1>8. Turns(p, op, new, s[1].i, u) /\ u \in Seq(CallT)
  BY <1>1, <1>2, <1>4, <1>6, <1>7 DEF Turns
<1> QED
  BY <1>7, <1>8

\* The rest of the file system after a step that Turns().
LEMMA TurnsIs ==
    ASSUME FSInv, NEW p \in Proc, NEW op \in {"put", "free", "freed"},
           NEW new \in {"free", "freed", "drop"}, NEW i \in Inode, NEW u \in Seq(CallT),
           Turns(p, op, new, i, u), UNCHANGED <<loc, rest>>,
           new # "drop" => ~Unlocks(todo[p], i) /\ ~KeepsLocked(loc[p], i),
           itable' \in [Inode -> EntryT], \A j \in Inode : itable'[j].ref = itable[j].ref
    PROVE  PutsTo(p, u) /\ PutRefs(p, u) /\ todo[p] # << >>
<1>1. /\ loc' = loc /\ file' = file /\ ofile' = ofile /\ cwd' = cwd /\ stable' = stable
  BY DEF rest
<1>2. \A j \in Inode : Frees(u, j) => j = i /\ new # "drop"
  BY DEF Turns, Frees
<1>3. PutsTo(p, u)
  BY <1>1, <1>2 DEF PutsTo, Turns
<1>4. PutRefs(p, u)
  BY DEF PutRefs, Turns
<1> QED
  BY <1>3, <1>4 DEF Turns

LEMMA IPutKeeps == ASSUME FSInv, NEW p \in Proc, IPut(p) PROVE FSInv'
<1>1. Doing(p, "put") /\ UNCHANGED <<disk, loc, rest>>
  BY DEF IPut
<1>2. CASE /\ itable' = [itable EXCEPT ![Head(todo[p]).i].ref = @ - 1]
           /\ Finishes(p)
  BY <1>1, <1>2, PutDone
<1>3. CASE /\ LastPut(Head(todo[p]).i) /\ itable[Head(todo[p]).i].lock = None
           /\ itable' = [itable EXCEPT ![Head(todo[p]).i].lock = p] /\ Becomes(p, "free")
  <2>1. PICK i \in Inode, u \in Seq(CallT) : Turns(p, "put", "free", i, u)
    BY <1>1, <1>3, BecomesIs
  <2>2. /\ Head(todo[p]).i = i /\ todo[p] # << >> /\ todo[p][1].op = "put"
        /\ u # << >> /\ u[1].op = "free" /\ u[1].i = i
        /\ \A j \in Inode : Unlocks(u, j) <=> Unlocks(todo[p], j)
    BY <2>1 DEF Turns
  <2>3. /\ itable[i].valid /\ itable[i].lock = None /\ itable' = [itable EXCEPT ![i].lock = p]
        /\ itable \in [Inode -> EntryT] /\ disk' = disk /\ disk \in DiskT /\ SlotsExact(disk)
    BY <1>1, <1>3, <2>2 DEF LastPut, FSInv, FSType
  <2>4. /\ itable' \in [Inode -> EntryT]
        /\ \A j \in Inode : /\ itable'[j].ref = itable[j].ref /\ itable'[j].valid = itable[j].valid
                            /\ itable'[j].d = itable[j].d
                            /\ itable'[j].lock = IF j = i THEN p ELSE itable[j].lock
    BY <2>3 DEF EntryT
  <2>5. \A j \in Inode : /\ itable[j].lock = p <=> HasLocked(p, j)
                         /\ itable[j].lock # None => itable[j].valid
    BY DEF FSInv, LocksExact
  <2>6. ~Unlocks(todo[p], i) /\ ~KeepsLocked(loc[p], i)
    BY <2>3, <2>5, Sizes DEF HasLocked
  <2>7. PutsTo(p, u) /\ PutRefs(p, u)
    BY <1>1, <2>1, <2>4, <2>6, TurnsIs
  <2>8. PutLocks(p, u)
    <3>1. LockHyp(p)
      BY <2>3, <2>4, <2>5 DEF LockHyp
    <3>2. ASSUME NEW j \in Inode
          PROVE  itable'[j].lock = p <=> Unlocks(u, j) \/ Frees(u, j) \/ KeepsLocked(loc[p], j)
      <4>1. ~Frees(todo[p], j) /\ (Frees(u, j) <=> j = i)
        BY <2>2 DEF Frees
      <4> QED
        BY <2>2, <2>4, <2>5, <4>1 DEF HasLocked
    <3> QED
      BY <3>1, <3>2 DEF PutLocks
  <2>9. PutCopies(p, u)
    <3>1. \A j \in Inode : ~Freed(todo[p], j)
      BY <2>2 DEF Freed
    <3> QED
      BY <2>3, <2>4, <3>1 DEF PutCopies
  <2> QED
    BY <2>2, <2>3, <2>4, <2>7, <2>8, <2>9, PutStep
<1> QED
  BY <1>2, <1>3 DEF IPut

LEMMA IPutFreeKeeps == ASSUME FSInv, NEW p \in Proc, IPutFree(p) PROVE FSInv'
<1>1. Doing(p, "free") /\ UNCHANGED <<loc, rest>> /\ Becomes(p, "freed")
  BY DEF IPutFree
<1>2. PICK i \in Inode, u \in Seq(CallT) : Turns(p, "free", "freed", i, u)
  BY <1>1, BecomesIs
<1>3. /\ Head(todo[p]).i = i /\ todo[p] # << >> /\ todo[p][1].op = "free" /\ todo[p][1].i = i
      /\ u # << >> /\ u[1].op = "freed" /\ u[1].i = i
      /\ \A j \in Inode : Unlocks(u, j) <=> Unlocks(todo[p], j)
  BY <1>2 DEF Turns
<1>4. \A j \in Inode : /\ Frees(todo[p], j) <=> j = i
                       /\ Frees(u, j) <=> j = i
                       /\ ~Freed(todo[p], j) /\ (Freed(u, j) <=> j = i)
  BY <1>3 DEF Frees, Freed
<1>5. itable[i].d = disk.di[i]
  BY <1>4, KeptCopy DEF HasLocked
<1>6. disk \in DiskT /\ SlotsExact(disk) /\ itable \in [Inode -> EntryT] /\ "free" \in TypeT
  BY DEF FSInv, FSType, TypeT
<1>7. PICK r : r = Itrunc(i, disk.di[i], disk, "free")
  OBVIOUS
<1>8. /\ r.ip \in DinodeT /\ r.d \in DiskT /\ SlotsExact(r.d)
      /\ \A j \in Inode \ {i} : r.d.di[j] = disk.di[j]
  BY <1>6, <1>7, ItruncIs
<1>9. disk' = r.d /\ itable' = [itable EXCEPT ![i].d = r.ip]
  BY <1>3, <1>5, <1>7 DEF IPutFree
<1>10. /\ itable' \in [Inode -> EntryT]
       /\ \A j \in Inode : /\ itable'[j].ref = itable[j].ref /\ itable'[j].valid = itable[j].valid
                           /\ itable'[j].lock = itable[j].lock
                           /\ j # i => itable'[j].d = itable[j].d
  BY <1>6, <1>8, <1>9 DEF EntryT
<1>11. \A j \in Inode : /\ itable[j].lock = p <=> HasLocked(p, j)
                        /\ itable[j].lock # None => itable[j].valid
  BY DEF FSInv, LocksExact
<1>12. ~Unlocks(todo[p], i) /\ ~KeepsLocked(loc[p], i)
  BY <1>4 DEF FSInv, Stage
<1>13. PutsTo(p, u) /\ PutRefs(p, u)
  BY <1>1, <1>2, <1>10, <1>12, TurnsIs
<1>14. PutLocks(p, u)
  BY <1>3, <1>4, <1>10, <1>11 DEF PutLocks, LockHyp, HasLocked
<1>15. PutCopies(p, u)
  BY <1>4, <1>8, <1>9, <1>10 DEF PutCopies
<1> QED
  BY <1>3, <1>8, <1>9, <1>10, <1>13, <1>14, <1>15, PutStep

LEMMA IPutInvalidKeeps == ASSUME FSInv, NEW p \in Proc, IPutInvalid(p) PROVE FSInv'
<1>1. Doing(p, "freed") /\ UNCHANGED <<disk, loc, rest>> /\ Becomes(p, "drop")
  BY DEF IPutInvalid
<1>2. PICK i \in Inode, u \in Seq(CallT) : Turns(p, "freed", "drop", i, u)
  BY <1>1, BecomesIs
<1>3. /\ Head(todo[p]).i = i /\ todo[p] # << >> /\ todo[p][1].op = "freed" /\ todo[p][1].i = i
      /\ u # << >> /\ u[1].op = "drop" /\ u[1].i = i
      /\ \A j \in Inode : Unlocks(u, j) <=> Unlocks(todo[p], j)
  BY <1>2 DEF Turns
<1>4. \A j \in Inode : /\ Frees(todo[p], j) <=> j = i
                       /\ ~Frees(u, j) /\ (Freed(todo[p], j) <=> j = i)
  BY <1>3 DEF Frees, Freed
<1>5. disk \in DiskT /\ SlotsExact(disk) /\ itable \in [Inode -> EntryT] /\ disk' = disk
  BY <1>1 DEF FSInv, FSType
<1>6. itable' = [itable EXCEPT ![i].valid = FALSE, ![i].lock = None]
  BY <1>3 DEF IPutInvalid, Invalidated
<1>7. /\ itable' \in [Inode -> EntryT]
      /\ \A j \in Inode : /\ itable'[j].ref = itable[j].ref
                          /\ j # i => itable'[j] = itable[j]
      /\ ~itable'[i].valid /\ itable'[i].lock = None
  BY <1>5, <1>6 DEF EntryT
<1>8. \A j \in Inode : /\ itable[j].lock = p <=> HasLocked(p, j)
                       /\ itable[j].lock # None => itable[j].valid
  BY DEF FSInv, LocksExact
<1>9. ~Unlocks(todo[p], i) /\ ~KeepsLocked(loc[p], i)
  BY <1>4 DEF FSInv, Stage
<1>10. PutsTo(p, u) /\ PutRefs(p, u)
  BY <1>1, <1>2, <1>7, <1>9, TurnsIs
<1>11. PutLocks(p, u)
  <2>1. itable[i].lock = p
    BY <1>4, <1>8 DEF HasLocked
  <2>2. LockHyp(p)
    BY <1>7, <1>8, <2>1 DEF LockHyp
  <2>3. ASSUME NEW j \in Inode
        PROVE  itable'[j].lock = p <=> Unlocks(u, j) \/ Frees(u, j) \/ KeepsLocked(loc[p], j)
    <3>1. CASE j = i
      BY <1>3, <1>4, <1>7, <1>9, <3>1, Sizes
    <3>2. CASE j # i
      BY <1>3, <1>4, <1>7, <1>8, <3>2 DEF HasLocked
    <3> QED
      BY <3>1, <3>2
  <2> QED
    BY <2>2, <2>3 DEF PutLocks
<1>12. PutCopies(p, u)
  BY <1>4, <1>5, <1>7 DEF PutCopies
<1> QED
  BY <1>3, <1>5, <1>7, <1>10, <1>11, <1>12, PutStep

-----------------------------------------------------------------------------
(* Open files.                                                             *)

\* p's descriptor becomes x, and the counts of the open files follow.
FilesMoved(p, x) ==
    /\ file' \in [File -> FileT] /\ x \in 0 .. NFILE /\ ofile' = [ofile EXCEPT ![p] = x]
    /\ \A f \in File : file'[f].ip = 0 <=> file'[f].ref = 0
    /\ \A f \in File : file'[f].ref + Is(ofile[p], f) = file[f].ref + Is(x, f)

\* Pointers in open files are counted with those of p.
CountedFiles(p, l, s, c) ==
    \A i \in Inode : itable'[i].ref + Ptr(loc[p], i) + Is(cwd[p], i) + Cardinality(OpenFiles(i))
                       = itable[i].ref + Puts(s, i) + Ptr(l, i) + Is(c, i)
                           + Cardinality(OpenFiles(i)')

\* An open file is open in one process more, or one less.
LEMMA OfileStep ==
    ASSUME FSInv, NEW p \in Proc, NEW x, FilesMoved(p, x)
    PROVE  \A f \in File : file'[f].ref = Cardinality({q \in Proc : ofile'[q] = f})
<1> SUFFICES ASSUME NEW f \in File
             PROVE  file'[f].ref = Cardinality({q \in Proc : ofile'[q] = f})
  OBVIOUS
<1>1. /\ ofile \in [Proc -> 0 .. NFILE] /\ ofile' = [ofile EXCEPT ![p] = x]
      /\ file'[f].ref + Is(ofile[p], f) = file[f].ref + Is(x, f)
  BY DEF FSInv, FSType, FilesMoved
<1>2. PICK S \in SUBSET Proc : S = {q \in Proc : ofile[q] = f}
  OBVIOUS
<1>3. PICK T \in SUBSET Proc : T = {q \in Proc : ofile'[q] = f}
  OBVIOUS
<1>4. IsFiniteSet(S) /\ IsFiniteSet(T)
  BY Sizes, FS_Subset
<1>5. Cardinality(S) \in Int /\ Cardinality(T) \in Int
  BY <1>4, FS_CardinalityType
<1>6. S \ {p} = T \ {p} /\ (p \in S <=> ofile[p] = f) /\ (p \in T <=> x = f)
  BY <1>1, <1>2, <1>3
<1>7. /\ Cardinality(S \ {p}) = IF p \in S THEN Cardinality(S) - 1 ELSE Cardinality(S)
      /\ Cardinality(T \ {p}) = IF p \in T THEN Cardinality(T) - 1 ELSE Cardinality(T)
  BY <1>4, FS_RemoveElement
<1>8. file[f].ref = Cardinality(S)
  BY <1>2 DEF FSInv, RefExact
<1>9. PICK a \in Int, b \in Int, r \in Int : a = Cardinality(S) /\ b = Cardinality(T) /\ r = file'[f].ref
  BY <1>5 DEF FilesMoved, FileT
<1>10. PICK m \in Int, n \in Int : m = Is(ofile[p], f) /\ n = Is(x, f)
  BY DEF Is
<1>11. a - m = b - n /\ r + m = a + n
  <2>1. /\ Cardinality(S \ {p}) = a - m /\ Cardinality(T \ {p}) = b - n
    BY <1>6, <1>7, <1>9, <1>10 DEF Is
  <2> QED
    BY <1>1, <1>6, <1>8, <1>9, <1>10, <2>1
<1>12. r = b
  BY ONLY <1>11, a \in Int, b \in Int, r \in Int, m \in Int, n \in Int
<1> QED
  BY <1>3, <1>9, <1>12

LEMMA FileStep ==
    ASSUME FSInv, NEW p \in Proc, todo[p] = << >>, NEW l, NEW s, NEW c, Goes(p, l, s, c), NEW x,
           LocksAre(p, l, s), CountedFiles(p, l, s, c), TableGood(p), DiskGood, FilesMoved(p, x)
    PROVE  FSInv'
<1>1. /\ l \in LocT /\ s \in Seq(CallT) /\ c \in 0 .. NInode
      /\ loc' = [loc EXCEPT ![p] = l] /\ todo' = [todo EXCEPT ![p] = s]
      /\ cwd' = [cwd EXCEPT ![p] = c]
      /\ x \in 0 .. NFILE /\ ofile' = [ofile EXCEPT ![p] = x]
  BY DEF Goes, FilesMoved
<1>2. FSType'
  BY <1>1 DEF FSInv, FSType, TableGood, DiskGood, FilesMoved
<1>3. loc'[p] = l /\ todo'[p] = s /\ cwd'[p] = c
  BY <1>1 DEF FSInv, FSType
<1>4. Others(p)
  BY <1>1 DEF FSInv, FSType, Others
<1>5. Stage(p)' /\ CallsOK(todo'[p])
  BY <1>3 DEF Stage, Goes
<1>6. \A i \in Inode : itable'[i].lock = p <=> HasLocked(p, i)'
  BY <1>3 DEF HasLocked, LocksAre, Goes
<1>7. \A i \in Inode : ~Freed(todo[p], i)
  BY NoCalls
<1>8. FilesOK'
  BY DEF FilesOK, FilesMoved
<1>9. ASSUME NEW i \in Inode
      PROVE  itable'[i].ref = Cardinality(Pointers(i)') + Cardinality(OpenFiles(i)')
  <2>1. /\ Cardinality(Pointers(i)) \in Nat /\ Cardinality(Pointers(i)') \in Nat
        /\ Cardinality(Pointers(i)') = (Cardinality(Pointers(i)) - Held(p, i)) + Held(p, i)'
    <3>1. FSType /\ \A q \in Proc \ {p} : loc'[q] = loc[q] /\ todo'[q] = todo[q] /\ cwd'[q] = cwd[q]
      BY <1>4 DEF Others, FSInv
    <3> QED
      BY <1>2, <3>1, PointerStep
  <2>2. Held(p, i) = 0 + Ptr(loc[p], i) + Is(cwd[p], i)
    BY HeldIs, PutsEmpty DEF FSInv, FSType
  <2>3. Held(p, i)' = Puts(s, i) + (IF l.fn = "write" THEN 0 ELSE Is(l.ip, i)) + Is(l.keep, i)
                        + Is(c, i)
    BY <1>3 DEF Held
  <2>4. PICK w \in Int, k \in Int, d \in Int :
          /\ w = IF l.fn = "write" THEN 0 ELSE Is(l.ip, i)
          /\ k = Is(l.keep, i) /\ d = Is(c, i)
    BY DEF Is
  <2>5. PICK m \in Int : m = Puts(s, i)
    <3>1. Puts(s, i) \in Nat
      BY <1>1, PutsType
    <3> QED
      BY <3>1
  <2>6. PICK a \in Int, b \in Int : a = Ptr(loc[p], i) /\ b = Is(cwd[p], i)
    <3>1. Ptr(loc[p], i) \in Int /\ Is(cwd[p], i) \in Int
      BY DEF Ptr, Is
    <3> QED
      BY <3>1
  <2>7. PICK n \in Int, n1 \in Int :
          n = Cardinality(Pointers(i)) /\ n1 = Cardinality(Pointers(i)')
    BY <2>1
  <2>8. PICK f \in Int, f1 \in Int :
          f = Cardinality(OpenFiles(i)) /\ f1 = Cardinality(OpenFiles(i)')
    <3>1. IsFiniteSet(File)
      BY FileFinite
    <3>2. OpenFiles(i)' \subseteq File
      BY DEF OpenFiles
    <3>3. Cardinality(OpenFiles(i)) \in Nat /\ Cardinality(OpenFiles(i)') \in Nat
      BY <3>1, <3>2, FilesFinite, FS_Subset, FS_CardinalityType
    <3> QED
      BY <3>3
  <2>9. PICK r \in Int, r1 \in Int : r = itable[i].ref /\ r1 = itable'[i].ref
    BY DEF FSInv, FSType, TableGood, EntryT
  <2>10. Ptr(l, i) = w + k
    BY <2>4 DEF Ptr
  <2>11. r1 + a + b + f = r + m + (w + k) + d + f1
    BY <2>4, <2>5, <2>6, <2>8, <2>9, <2>10 DEF CountedFiles
  <2>12. n1 = (n - (0 + a + b)) + (m + w + k + d)
    BY <2>1, <2>2, <2>3, <2>4, <2>5, <2>6, <2>7
  <2>13. r = n + f
    BY <2>7, <2>8, <2>9 DEF FSInv, RefExact
  <2>14. r1 = n1 + f1
    BY ONLY <2>11, <2>12, <2>13, r \in Int, r1 \in Int, a \in Int, b \in Int, f \in Int,
            f1 \in Int, m \in Int, w \in Int, k \in Int, d \in Int, n \in Int, n1 \in Int
  <2> QED
    BY <2>7, <2>8, <2>9, <2>14
<1>10. RefExact'
  BY <1>9, OfileStep DEF RefExact
<1>11. SlotsExact(stable') /\ SlotsExact(disk') /\ LockHyp(p) /\ MemHyp
  BY DEF FSInv, DiskGood, TableGood
<1> QED
  BY <1>2, <1>4, <1>5, <1>6, <1>7, <1>8, <1>10, <1>11, Assemble

\* One entry of the table gets another inode.
LEMMA OpenFilesStep ==
    ASSUME NEW f \in File, \A g \in File \ {f} : file'[g].ip = file[g].ip, NEW j
    PROVE  /\ Cardinality(OpenFiles(j)) \in Int /\ Cardinality(OpenFiles(j)') \in Int
           /\ Cardinality(OpenFiles(j)') + Is(file[f].ip, j)
                = Cardinality(OpenFiles(j)) + Is(file'[f].ip, j)
<1>1. PICK S \in SUBSET File : S = OpenFiles(j)
  BY DEF OpenFiles
<1>2. PICK T \in SUBSET File : T = OpenFiles(j)'
  BY DEF OpenFiles
<1>3. IsFiniteSet(File)
  BY FileFinite
<1>4. IsFiniteSet(S) /\ IsFiniteSet(T)
  <2>1. IsFiniteSet(S)
    BY <1>3, FS_Subset
  <2>2. IsFiniteSet(T)
    BY <1>3, FS_Subset
  <2> QED
    BY <2>1, <2>2
<1>5. Cardinality(S) \in Int /\ Cardinality(T) \in Int
  BY <1>4, FS_CardinalityType
<1>6. S \ {f} = T \ {f} /\ (f \in S <=> file[f].ip = j) /\ (f \in T <=> file'[f].ip = j)
  BY <1>1, <1>2 DEF OpenFiles
<1>7. /\ Cardinality(S \ {f}) = IF f \in S THEN Cardinality(S) - 1 ELSE Cardinality(S)
      /\ Cardinality(T \ {f}) = IF f \in T THEN Cardinality(T) - 1 ELSE Cardinality(T)
  BY <1>4, FS_RemoveElement
<1>8. PICK a \in Int, b \in Int : a = Cardinality(S) /\ b = Cardinality(T)
  BY <1>5
<1>9. PICK m \in Int, n \in Int : m = Is(file[f].ip, j) /\ n = Is(file'[f].ip, j)
  BY DEF Is
<1>10. /\ Cardinality(S \ {f}) = a - m /\ Cardinality(T \ {f}) = b - n
  BY <1>6, <1>7, <1>8, <1>9 DEF Is
<1>11. a - m = b - n
  BY <1>6, <1>10
<1>12. b + m = a + n
  BY ONLY <1>11, a \in Int, b \in Int, m \in Int, n \in Int
<1> QED
  BY <1>1, <1>2, <1>5, <1>8, <1>9, <1>12

\* A call that has locked its inode in an earlier step.
LEMMA ReadyKept ==
    ASSUME FSInv, NEW p \in Proc, NEW stage \in {"unlinked", "opened"}, At(p, stage)
    PROVE  /\ loc[p].at = stage
           /\ \E i \in Inode, e \in DinodeT : Ready(p, i, e) /\ itable[i].d = e
<1>1. /\ loc[p] \in LocT /\ loc[p].at = stage /\ todo[p] = << >> /\ cwd[p] \in 0 .. NInode
      /\ StageOK(loc[p], << >>, cwd[p], ofile[p])
  BY DEF FSInv, FSType, Stage, At
<1>2. loc[p].ip \in Inode /\ cwd[p] # 0 /\ loc[p].fn # "write"
  BY <1>1 DEF StageOK
<1>3. \A j \in Inode : HasLocked(p, j) <=> j = loc[p].ip
  BY <1>1, NoCalls DEF HasLocked, KeepsLocked
<1>4. ~Freed(todo[p], loc[p].ip)
  BY <1>1, NoCalls
<1>5. PICK i \in Inode : i = loc[p].ip
  BY <1>2
<1>6. /\ itable[i].lock = p /\ itable[i].valid /\ itable[i].ref >= 1
      /\ itable[i].d = disk.di[i] /\ disk.di[i] \in DinodeT /\ disk.di[i].type # "free"
  BY <1>3, <1>4, <1>5, KeptCopy
<1>7. \A j \in Inode : j # i => itable[j].lock # p
  BY <1>3, <1>5 DEF FSInv, LocksExact
<1>8. cwd[p] \in Inode /\ p # None
  BY <1>1, <1>2, Sizes DEF Inode
<1>9. Ilocked(i) = disk.di[i]
  BY <1>6 DEF Ilocked
<1>10. Ready(p, i, disk.di[i])
  BY <1>1, <1>2, <1>5, <1>6, <1>7, <1>8, <1>9 DEF Ready
<1> QED
  BY <1>1, <1>6, <1>10

\* sys_open() has its inode.
LEMMA OpenInodeKeeps ==
    ASSUME FSInv, NEW p \in Proc, NEW i \in Inode, NEW e \in DinodeT, Ready(p, i, e),
           loc[p].keep = 0, OpenInode(p, i, e), stable' = stable, cwd' = cwd
    PROVE  FSInv'
<1>1. /\ loc \in [Proc -> LocT] /\ disk \in DiskT /\ SlotsExact(disk)
      /\ file \in [File -> FileT] /\ ofile \in [Proc -> 0 .. NFILE] /\ cwd \in [Proc -> 0 .. NInode]
  BY DEF FSInv, FSType
<1>2. /\ todo[p] = << >> /\ cwd[p] \in 0 .. NInode /\ cwd[p] # 0 /\ loc[p].fn # "write"
      /\ i = loc[p].ip /\ e = disk.di[i] /\ e.type # "free" /\ p # None
  BY <1>1 DEF Ready
<1>3. CASE /\ itable' = Entry(itable, i, e, None) /\ End(p, << Put(i) >>)
           /\ UNCHANGED <<disk, file, ofile>>
  <2>1. DiskGood /\ OthersOnDisk({i}) /\ FilesSame /\ disk'.di[i] = e
    BY <1>2, <1>3, SameDisk, SameFiles
  <2> QED
    BY <1>2, <1>3, <2>1, ReadyPut
<1>4. ASSUME NEW w \in BOOLEAN, NEW e1, NEW d1,
             \/ e1 = e /\ d1 = disk
             \/ \E r : r = Itrunc(i, e, disk, e.type) /\ e1 = r.ip /\ d1 = r.d,
             FreeFile # {}, ofile[p] = 0,
             file' = [file EXCEPT ![Min(FreeFile)] = [ref |-> 1, ip |-> i, off |-> 0, w |-> w]],
             ofile' = [ofile EXCEPT ![p] = Min(FreeFile)],
             itable' = Entry(itable, i, e1, None), disk' = d1, End(p, << >>)
      PROVE  FSInv'
  <2>1. DiskGood /\ disk'.di[i] = e1 /\ OthersOnDisk({i}) /\ e1 \in DinodeT /\ e1.type # "free"
    <3>1. CASE e1 = e /\ d1 = disk
      BY <1>2, <1>4, <3>1, SameDisk
    <3>2. CASE \E r : r = Itrunc(i, e, disk, e.type) /\ e1 = r.ip /\ d1 = r.d
      <4>1. PICK r : r = Itrunc(i, disk.di[i], disk, e.type) /\ e1 = r.ip /\ d1 = r.d
        BY <1>2, <3>2
      <4>2. e.type \in TypeT
        BY AddrsIs
      <4>3. /\ r.ip \in DinodeT /\ r.d \in DiskT /\ SlotsExact(r.d)
            /\ r.d.di[i] = r.ip /\ r.ip.type = e.type
            /\ \A j \in Inode \ {i} : r.d.di[j] = disk.di[j]
        BY <1>1, <4>1, <4>2, ItruncIs
      <4> QED
        BY <1>2, <1>4, <4>1, <4>3 DEF DiskGood, OthersOnDisk
    <3> QED
      BY <1>4, <3>1, <3>2
  <2>2. /\ TableGood(p) /\ Gains(0) /\ \A j \in Inode : itable'[j].lock # p
    BY <1>2, <1>4, <2>1, ReadyEntry
  <2>3. PICK f \in File : f = Min(FreeFile) /\ file[f].ref = 0
    <3>1. FreeFile \in SUBSET Nat
      BY DEF FreeFile, File
    <3>2. Min(FreeFile) \in FreeFile
      BY <1>4, <3>1, MinLeast
    <3> QED
      BY <3>2 DEF FreeFile
  <2>4. file[f].ip = 0
    BY <2>3 DEF FSInv, FilesOK
  <2>5. PICK nf : nf = [ref |-> 1, ip |-> i, off |-> 0, w |-> w]
    OBVIOUS
  <2>6. nf \in FileT /\ nf.ref = 1 /\ nf.ip = i
    BY <1>4, <2>5 DEF FileT, Inode
  <2>7. file' = [file EXCEPT ![f] = nf] /\ ofile' = [ofile EXCEPT ![p] = f]
    BY <1>4, <2>3, <2>5
  <2>8. file'[f] = nf /\ \A g \in File \ {f} : file'[g] = file[g]
    BY <1>1, <2>7
  <2>9. FilesMoved(p, f)
    <3>1. file' \in [File -> FileT] /\ f \in 0 .. NFILE
      BY <1>1, <2>6, <2>7 DEF File
    <3>2. \A g \in File : file'[g].ip = 0 <=> file'[g].ref = 0
      <4>1. i # 0
        BY Sizes DEF Inode
      <4> QED
        BY <2>6, <2>8, <4>1 DEF FSInv, FilesOK
    <3>3. ASSUME NEW g \in File PROVE file'[g].ref + Is(ofile[p], g) = file[g].ref + Is(f, g)
      <4>1. Is(ofile[p], g) = 0
        BY <1>4, Sizes DEF Is, File
      <4>2. file[g].ref \in Int
        BY <1>1 DEF FileT
      <4>3. CASE g = f
        BY <2>3, <2>6, <2>8, <4>1, <4>3 DEF Is
      <4>4. CASE g # f
        BY <2>8, <4>1, <4>2, <4>4 DEF Is
      <4> QED
        BY <4>3, <4>4
    <3> QED
      BY <2>7, <3>1, <3>2, <3>3 DEF FilesMoved
  <2>10. /\ todo' = [todo EXCEPT ![p] = << >>]
         /\ \E l \in LocT : /\ loc' = [loc EXCEPT ![p] = l]
                            /\ l.at = "end" /\ l.ip = 0 /\ l.keep = 0 /\ l.fn = loc[p].fn
    <3>1. "end" \in AtT /\ 0 \in 0 .. NInode /\ Goto(p, "end", 0, 0, << >>)
      BY <1>4, Sizes DEF AtT, End
    <3> QED
      BY <1>1, <3>1, GotoIs
  <2>11. PICK l \in LocT : /\ loc' = [loc EXCEPT ![p] = l]
                           /\ l.at = "end" /\ l.ip = 0 /\ l.keep = 0 /\ l.fn # "write"
    BY <1>2, <2>10
  <2>12. Goes(p, l, << >>, cwd[p])
    <3>1. StageOK(l, << >>, cwd[p], ofile'[p])
      BY <1>2, <2>11 DEF StageOK
    <3>2. cwd' = [cwd EXCEPT ![p] = cwd[p]]
      BY <1>1
    <3> QED
      BY <1>2, <2>10, <2>11, <3>1, <3>2, LeavesNone DEF Goes, Leaves
  <2>13. LocksAre(p, l, << >>)
    BY <2>2, <2>11, LeavesNone DEF LocksAre, KeepsLocked
  <2>14. CountedFiles(p, l, << >>, cwd[p])
    <3> SUFFICES ASSUME NEW j \in Inode
                 PROVE  itable'[j].ref + Ptr(loc[p], j) + Is(cwd[p], j) + Cardinality(OpenFiles(j))
                          = itable[j].ref + Puts(<< >>, j) + Ptr(l, j) + Is(cwd[p], j)
                              + Cardinality(OpenFiles(j)')
      BY DEF CountedFiles
    <3>1. Is(0, j) = 0
      BY Sizes DEF Is, Inode
    <3>2. Ptr(loc[p], j) = Is(i, j) + 0 /\ Ptr(l, j) = 0 + 0 /\ Puts(<< >>, j) = 0
      BY <1>2, <2>11, <3>1, LeavesNone DEF Ptr
    <3>3. /\ Cardinality(OpenFiles(j)) \in Int /\ Cardinality(OpenFiles(j)') \in Int
          /\ Cardinality(OpenFiles(j)') + Is(file[f].ip, j)
               = Cardinality(OpenFiles(j)) + Is(file'[f].ip, j)
      BY <2>8, OpenFilesStep
    <3>4. PICK n \in Int, n1 \in Int :
            n = Cardinality(OpenFiles(j)) /\ n1 = Cardinality(OpenFiles(j)')
      BY <3>3
    <3>5. PICK a \in Int, b \in Int : a = Is(i, j) /\ b = Is(cwd[p], j)
      BY DEF Is
    <3>6. n1 + 0 = n + a
      BY <2>4, <2>6, <2>8, <3>1, <3>3, <3>4, <3>5
    <3>7. PICK r \in Int : r = itable[j].ref
      BY DEF FSInv, FSType, EntryT
    <3>8. itable'[j].ref = r + 0
      BY <2>2, <3>1, <3>7 DEF Gains
    <3>9. (r + 0) + (a + 0) + b + n = r + 0 + (0 + 0) + b + n1
      BY ONLY <3>6, r \in Int, a \in Int, b \in Int, n \in Int, n1 \in Int
    <3> QED
      BY <3>2, <3>4, <3>5, <3>7, <3>8, <3>9
  <2> QED
    BY <1>2, <2>1, <2>2, <2>9, <2>12, <2>13, <2>14, FileStep
<1> QED
  BY <1>3, <1>4 DEF OpenInode

LEMMA OpenKeeps == ASSUME FSInv, NEW p \in Proc, Open(p) PROVE FSInv'
<1>1. /\ Locks(p, "walk") /\ loc[p].keep = 0 /\ stable' = stable /\ cwd' = cwd
      /\ OpenInode(p, loc[p].ip, Ilocked(loc[p].ip))
  BY DEF Open, Named, WantsParent
<1>2. PICK i \in Inode, e \in DinodeT : Ready(p, i, e)
  BY <1>1, ReadyIs
<1>3. OpenInode(p, i, e)
  BY <1>1, <1>2 DEF Ready
<1> QED
  BY <1>1, <1>2, <1>3, OpenInodeKeeps

LEMMA OpenCreatedKeeps == ASSUME FSInv, NEW p \in Proc, OpenCreated(p) PROVE FSInv'
<1>1. /\ At(p, "opened") /\ stable' = stable /\ cwd' = cwd
      /\ OpenInode(p, loc[p].ip, itable[loc[p].ip].d)
  BY DEF OpenCreated
<1>2. /\ loc[p].at = "opened"
      /\ \E i \in Inode, e \in DinodeT : Ready(p, i, e) /\ itable[i].d = e
  BY <1>1, ReadyKept
<1>3. PICK i \in Inode, e \in DinodeT : Ready(p, i, e) /\ itable[i].d = e
  BY <1>2
<1>4. OpenInode(p, i, e) /\ loc[p].keep = 0
  BY <1>1, <1>2, <1>3 DEF Ready, StageOK
<1> QED
  BY <1>1, <1>3, <1>4, OpenInodeKeeps

LEMMA CreateExistsKeeps == ASSUME FSInv, NEW p \in Proc, CreateExists(p) PROVE FSInv'
<1>1. Locks(p, "exists") /\ stable' = stable /\ cwd' = cwd
  BY DEF CreateExists
<1>2. loc[p].at = "exists" /\ \E i \in Inode, e \in DinodeT : Ready(p, i, e)
  BY <1>1, ReadyIs
<1>3. PICK i \in Inode, e \in DinodeT : Ready(p, i, e)
  BY <1>2
<1>4. /\ loc[p].keep = 0 /\ e = disk.di[i] /\ e.type # "free"
      /\ i = loc[p].ip /\ Ilocked(i) = e
  BY <1>2, <1>3 DEF Ready, StageOK
<1>5. CASE OpenInode(p, i, e)
  BY <1>1, <1>3, <1>4, <1>5, OpenInodeKeeps
<1>6. CASE /\ itable' = Entry(itable, i, e, None) /\ End(p, << Put(i) >>)
           /\ UNCHANGED <<disk, file, ofile>>
  <2>1. DiskGood /\ OthersOnDisk({i}) /\ FilesSame /\ disk'.di[i] = e
    BY <1>1, <1>4, <1>6, SameDisk, SameFiles
  <2> QED
    BY <1>1, <1>3, <1>4, <1>6, <2>1, ReadyPut
<1> QED
  BY <1>4, <1>5, <1>6 DEF CreateExists

LEMMA UnlinkedKeeps == ASSUME FSInv, NEW p \in Proc, Unlinked(p) PROVE FSInv'
<1>1. At(p, "unlinked")
  BY DEF Unlinked
<1>2. /\ loc[p].at = "unlinked"
      /\ \E i \in Inode, e \in DinodeT : Ready(p, i, e) /\ itable[i].d = e
  BY <1>1, ReadyKept
<1>3. PICK i \in Inode, e \in DinodeT : Ready(p, i, e) /\ itable[i].d = e
  BY <1>2
<1>4. /\ loc[p].keep = 0 /\ e = disk.di[i] /\ e.type # "free" /\ i = loc[p].ip
  BY <1>2, <1>3 DEF Ready, StageOK
<1>5. PICK e1 : e1 = [e EXCEPT !.nlink = @ - 1]
  OBVIOUS
<1>6. e1 \in DinodeT /\ e1.type = disk.di[i].type /\ e1.addrs = disk.di[i].addrs
  BY <1>4, <1>5 DEF DinodeT
<1>7. /\ itable' = Entry(itable, i, e1, None) /\ disk' = With(disk, i, e1)
      /\ End(p, << Put(i) >>)
  BY <1>3, <1>4, <1>5 DEF Unlinked, With
<1>8. stable' = stable /\ file' = file /\ ofile' = ofile /\ cwd' = cwd
  BY DEF Unlinked, rest
<1>9. DiskGood /\ disk'.di[i] = e1 /\ OthersOnDisk({i})
  BY <1>6, <1>7, <1>8, InodeWritten
<1>10. FilesSame /\ e1.type # "free"
  BY <1>4, <1>6, <1>8, SameFiles
<1> QED
  BY <1>3, <1>4, <1>6, <1>7, <1>8, <1>9, <1>10, ReadyPut

\* A directory becomes the current one in place of another.
LEMMA ChdirKeeps == ASSUME FSInv, NEW p \in Proc, Chdir(p) PROVE FSInv'
<1>1. /\ Locks(p, "walk") /\ loc[p].keep = 0 /\ disk' = disk /\ stable' = stable
      /\ file' = file /\ ofile' = ofile
  BY DEF Chdir, Named, WantsParent
<1>2. PICK i \in Inode, e \in DinodeT : Ready(p, i, e)
  BY <1>1, ReadyIs
<1>3. /\ e = disk.di[i] /\ e.type # "free" /\ i = loc[p].ip /\ Ilocked(i) = e
      /\ todo[p] = << >> /\ loc[p].fn # "write" /\ cwd[p] \in Inode /\ loc[p] \in LocT
  BY <1>2 DEF Ready
<1>4. itable' = Entry(itable, i, e, None) /\ disk'.di[i] = e
  BY <1>1, <1>3 DEF Chdir
<1>5. DiskGood /\ OthersOnDisk({i}) /\ FilesSame
  BY <1>1, SameDisk, SameFiles
<1>6. CASE End(p, << Put(i) >>) /\ cwd' = cwd
  BY <1>1, <1>2, <1>3, <1>4, <1>5, <1>6, ReadyPut
<1>7. CASE cwd' = [cwd EXCEPT ![p] = i] /\ End(p, << Put(cwd[p]) >>)
  <2>1. /\ TableGood(p) /\ Gains(0) /\ \A j \in Inode : itable'[j].lock # p
    <3>1. p # None
      BY Sizes
    <3> QED
      BY <1>2, <1>3, <1>4, <1>5, <3>1, ReadyEntry
  <2>2. PICK s : s = << Put(cwd[p]) >>
    OBVIOUS
  <2>3. Leaves(s) /\ \A j \in Inode : Puts(s, j) = Is(cwd[p], j) /\ ~Unlocks(s, j)
    BY <1>3, <2>2, LeavesOne
  <2>4. Goto(p, "end", 0, 0, s) /\ "end" \in AtT /\ 0 \in 0 .. NInode /\ i \in 0 .. NInode
    BY <1>7, <2>2, Sizes DEF End, AtT, Inode
  <2>5. i # 0
    BY Sizes DEF Inode
  <2>6. StageNext(p, "end", 0, 0, s, i)
    BY <1>3, <2>5 DEF StageNext, StageOK
  <2>7. LocksNext(p, "end", 0, 0, s)
    BY <2>1, <2>3 DEF LocksNext
  <2>8. CountNext(p, 0, 0, 0, s, i)
    <3> SUFFICES ASSUME NEW j \in Inode
                 PROVE  Is(0, j) + Is(loc[p].ip, j) + Is(loc[p].keep, j) + Is(cwd[p], j)
                          = Puts(s, j) + Is(0, j) + Is(0, j) + Is(i, j)
      BY DEF CountNext
    <3>1. Is(0, j) = 0 /\ Puts(s, j) = Is(cwd[p], j)
      BY <2>3, Sizes DEF Is, Inode
    <3>2. PICK a \in Int, b \in Int : a = Is(i, j) /\ b = Is(cwd[p], j)
      BY DEF Is
    <3>3. 0 + a + 0 + b = b + 0 + 0 + a
      BY ONLY a \in Int, b \in Int
    <3> QED
      BY <1>1, <1>3, <3>1, <3>2, <3>3
  <2> QED
    BY <1>3, <1>5, <1>7, <2>1, <2>3, <2>4, <2>6, <2>7, <2>8, GotoStep
<1> QED
  BY <1>3, <1>6, <1>7 DEF Chdir

-----------------------------------------------------------------------------
(* link, unlink and create().                                              *)

\* A call in this stage works in a directory, under a name.
LEMMA ParentIs ==
    ASSUME FSInv, NEW p \in Proc, Locks(p, "parent")
    PROVE  /\ loc[p].at = "parent" /\ loc[p].path # << >> /\ Head(loc[p].path) \in Elem
           /\ loc[p].keep \in 0 .. NInode /\ (loc[p].fn # "link" => loc[p].keep = 0)
           /\ (loc[p].fn = "link" => loc[p].keep \in Inode)
           /\ \E i \in Inode, e \in DinodeT : Ready(p, i, e)
<1>1. loc[p].at = "parent" /\ \E i \in Inode, e \in DinodeT : Ready(p, i, e)
  BY ReadyIs
<1>2. loc[p] \in LocT /\ StageOK(loc[p], << >>, cwd[p], ofile[p])
  BY <1>1 DEF Ready
<1>3. /\ loc[p].path # << >> /\ (loc[p].fn # "link" => loc[p].keep = 0)
      /\ (loc[p].fn = "link" => loc[p].keep # 0)
  BY <1>1, <1>2 DEF StageOK
<1>4. loc[p].path \in Seq(Elem) /\ loc[p].keep \in 0 .. NInode
  BY <1>2 DEF LocT
<1>5. Head(loc[p].path) \in Elem
  BY <1>3, <1>4
<1>6. loc[p].keep # 0 => loc[p].keep \in Inode
  BY <1>4, Sizes DEF Inode
<1> QED
  BY <1>1, <1>3, <1>4, <1>5, <1>6

\* The directory stays locked while the inode n is.
LEMMA ReadyChild ==
    ASSUME FSInv, NEW p \in Proc, NEW i \in Inode, NEW e \in DinodeT, Ready(p, i, e),
           NEW n \in Inode, NEW stage \in {"child", "new"}, loc[p].keep = 0,
           loc[p].path # << >>, itable' = Iget(Entry(itable, i, e, p), n), disk'.di[i] = e,
           OthersOnDisk({i}), DiskGood, FilesSame, cwd' = cwd, Goto(p, stage, n, i, << >>)
    PROVE  FSInv'
<1>1. /\ todo[p] = << >> /\ loc[p].fn # "write" /\ cwd[p] \in Inode /\ cwd[p] # 0
      /\ e.type # "free" /\ i = loc[p].ip
  BY DEF Ready
<1>2. /\ TableGood(p) /\ Gains(n) /\ \A j \in Inode : itable'[j].lock = p <=> j = i
  BY <1>1, ReadyIget
<1>3. PICK s : s = << >>
  OBVIOUS
<1>4. Leaves(s) /\ \A j \in Inode : Puts(s, j) = 0 /\ ~Unlocks(s, j)
  BY <1>3, LeavesNone
<1>5. StageNext(p, stage, n, i, s, cwd[p])
  BY <1>1, <1>3, <1>4 DEF StageNext, StageOK
<1>6. LocksNext(p, stage, n, i, s)
  BY <1>2, <1>4 DEF LocksNext
<1>7. CountNext(p, n, n, i, s, cwd[p])
  <2> SUFFICES ASSUME NEW j \in Inode
               PROVE  Is(n, j) + Is(loc[p].ip, j) + Is(loc[p].keep, j) + Is(cwd[p], j)
                        = Puts(s, j) + Is(n, j) + Is(i, j) + Is(cwd[p], j)
    BY DEF CountNext
  <2>1. Is(0, j) = 0 /\ Puts(s, j) = 0
    BY <1>4, Sizes DEF Is, Inode
  <2>2. PICK a \in Int, b \in Int, c \in Int : a = Is(i, j) /\ b = Is(cwd[p], j) /\ c = Is(n, j)
    BY DEF Is
  <2>3. c + a + 0 + b = 0 + c + a + b
    BY ONLY a \in Int, b \in Int, c \in Int
  <2> QED
    BY <1>1, <2>1, <2>2, <2>3
<1>8. /\ stage \in AtT /\ n \in 0 .. NInode /\ i \in 0 .. NInode /\ cwd[p] \in 0 .. NInode
      /\ Goto(p, stage, n, i, s) /\ cwd' = [cwd EXCEPT ![p] = cwd[p]]
  BY <1>1, <1>3 DEF AtT, Inode, FSInv, FSType
<1> QED
  BY <1>1, <1>2, <1>4, <1>5, <1>6, <1>7, <1>8, GotoStep

LEMMA UnlinkParentKeeps == ASSUME FSInv, NEW p \in Proc, UnlinkParent(p) PROVE FSInv'
<1>1. /\ loc[p].fn = "unlink" /\ Locks(p, "parent") /\ disk' = disk
      /\ stable' = stable /\ file' = file /\ ofile' = ofile /\ cwd' = cwd
  BY DEF UnlinkParent, rest
<1>2. loc[p].path # << >> /\ loc[p].keep = 0
  BY <1>1, ParentIs
<1>3. PICK i \in Inode, e \in DinodeT : Ready(p, i, e)
  BY <1>1, ParentIs
<1>4. e = disk.di[i] /\ e.type # "free" /\ i = loc[p].ip /\ Ilocked(i) = e
  BY <1>3 DEF Ready
<1>5. DiskGood /\ OthersOnDisk({i}) /\ FilesSame /\ disk'.di[i] = e
  BY <1>1, <1>4, SameDisk, SameFiles
<1>6. CASE itable' = Entry(itable, i, e, None) /\ End(p, << Put(i) >>)
  BY <1>1, <1>2, <1>3, <1>4, <1>5, <1>6, ReadyPut
<1>7. ASSUME NEW n \in Inode, itable' = Iget(Entry(itable, i, e, p), n),
             Goto(p, "child", n, i, << >>)
      PROVE  FSInv'
  BY <1>1, <1>2, <1>3, <1>5, <1>7, ReadyChild
<1> DEFINE k == DirLookup(disk, i, Head(loc[p].path))
           n == disk.ents[i][CHOOSE j \in k : TRUE].inum
<1>8. k # {} => n \in Inode
  BY DirFound DEF FSInv, FSType
<1> HIDE DEF n
<1> QED
  BY <1>4, <1>6, <1>7, <1>8 DEF UnlinkParent, n

LEMMA CreateParentKeeps == ASSUME FSInv, NEW p \in Proc, CreateParent(p) PROVE FSInv'
<1>1. /\ loc[p].fn \in DOMAIN TypeOf /\ Locks(p, "parent")
      /\ stable' = stable /\ file' = file /\ ofile' = ofile /\ cwd' = cwd
  BY DEF CreateParent, rest
<1>2. loc[p].path # << >> /\ loc[p].keep = 0
  <2>1. loc[p].fn # "link"
    BY <1>1 DEF TypeOf
  <2> QED
    BY <1>1, <2>1, ParentIs
<1>3. PICK i \in Inode, e \in DinodeT : Ready(p, i, e)
  BY <1>1, ParentIs
<1>4. /\ e = disk.di[i] /\ e.type # "free" /\ i = loc[p].ip /\ Ilocked(i) = e
      /\ todo[p] = << >> /\ loc[p].fn # "write" /\ cwd[p] \in Inode /\ cwd[p] # 0 /\ p # None
  BY <1>3 DEF Ready
<1>5. FilesSame
  BY <1>1, SameFiles
<1>6. CASE /\ itable' = Entry(itable, i, e, None) /\ End(p, << Put(i) >>) /\ disk' = disk
  <2>1. DiskGood /\ OthersOnDisk({i}) /\ disk'.di[i] = e
    BY <1>1, <1>4, <1>6, SameDisk
  <2> QED
    BY <1>1, <1>2, <1>3, <1>4, <1>5, <1>6, <2>1, ReadyPut
<1>7. ASSUME NEW n \in Inode, itable' = Iget(Entry(itable, i, e, None), n), disk' = disk,
             Goto(p, "exists", n, 0, << Put(i) >>)
      PROVE  FSInv'
  <2>1. DiskGood /\ OthersOnDisk({i}) /\ disk'.di[i] = e
    BY <1>1, <1>4, <1>7, SameDisk
  <2>2. /\ TableGood(p) /\ Gains(n) /\ \A j \in Inode : itable'[j].lock # p
    BY <1>3, <1>4, <1>7, <2>1, ReadyIget
  <2>3. PICK s : s = << Put(i) >>
    OBVIOUS
  <2>4. Leaves(s) /\ \A j \in Inode : Puts(s, j) = Is(i, j) /\ ~Unlocks(s, j)
    BY <2>3, LeavesOne
  <2>5. StageNext(p, "exists", n, 0, s, cwd[p])
    BY <1>4 DEF StageNext, StageOK
  <2>6. LocksNext(p, "exists", n, 0, s)
    BY <2>2, <2>4 DEF LocksNext
  <2>7. CountNext(p, n, n, 0, s, cwd[p])
    <3> SUFFICES ASSUME NEW j \in Inode
                 PROVE  Is(n, j) + Is(loc[p].ip, j) + Is(loc[p].keep, j) + Is(cwd[p], j)
                          = Puts(s, j) + Is(n, j) + Is(0, j) + Is(cwd[p], j)
      BY DEF CountNext
    <3>1. Is(0, j) = 0 /\ Puts(s, j) = Is(i, j)
      BY <2>4, Sizes DEF Is, Inode
    <3>2. PICK a \in Int, b \in Int, c \in Int : a = Is(i, j) /\ b = Is(cwd[p], j) /\ c = Is(n, j)
      BY DEF Is
    <3>3. c + a + 0 + b = a + c + 0 + b
      BY ONLY a \in Int, b \in Int, c \in Int
    <3> QED
      BY <1>2, <1>4, <3>1, <3>2, <3>3
  <2>8. /\ "exists" \in AtT /\ n \in 0 .. NInode /\ 0 \in 0 .. NInode /\ cwd[p] \in 0 .. NInode
        /\ Goto(p, "exists", n, 0, s) /\ cwd' = [cwd EXCEPT ![p] = cwd[p]]
    BY <1>1, <1>4, <1>7, <2>3, Sizes DEF AtT, Inode, FSInv, FSType
  <2> QED
    BY <1>4, <1>5, <2>1, <2>2, <2>4, <2>5, <2>6, <2>7, <2>8, GotoStep
<1>8. ASSUME FreeInodes # {}, NEW type \in TypeOf[loc[p].fn],
             disk' = [disk EXCEPT !.di[Min(FreeInodes)] = Dinode(type, 0)],
             itable' = Iget(Entry(itable, i, e, p), Min(FreeInodes)),
             Goto(p, "new", Min(FreeInodes), i, << >>)
      PROVE  FSInv'
  <2>1. PICK n \in Inode : n = Min(FreeInodes) /\ disk.di[n].type = "free"
    <3>1. FreeInodes \in SUBSET Nat
      BY DEF FreeInodes, Inode
    <3>2. Min(FreeInodes) \in FreeInodes
      BY <1>8, <3>1, MinLeast
    <3> QED
      BY <3>2 DEF FreeInodes
  <2>2. type \in TypeT /\ type # "free"
    BY <1>1, <1>8 DEF TypeOf, TypeT
  <2>3. PICK ip : ip = Dinode(type, 0)
    OBVIOUS
  <2>4. ip \in DinodeT /\ ip.type = type /\ \A k \in 0 .. NDIRECT : ip.addrs[k] = 0
    BY <2>2, <2>3, DinodeIs
  <2>5. disk' = With(disk, n, ip) /\ disk \in DiskT /\ SlotsExact(disk)
    BY <1>8, <2>1, <2>3 DEF With, FSInv, FSType
  <2>6. /\ disk' \in DiskT /\ disk'.di[n] = ip /\ disk'.used = disk.used /\ disk'.ind = disk.ind
        /\ \A j \in Inode \ {n} : disk'.di[j] = disk.di[j]
    BY <2>4, <2>5, WithIs, ZenonT(30)
  <2>7. SlotsExact(disk')
    <3>1. ip.addrs = disk.di[n].addrs
      <4>1. /\ ip.addrs \in [0 .. NDIRECT -> 0 .. NBlock]
            /\ disk.di[n].addrs \in [0 .. NDIRECT -> 0 .. NBlock]
        BY <2>4, <2>5, DiskIs, AddrsIs
      <4>2. \A k \in 0 .. NDIRECT : disk.di[n].addrs[k] = 0
        BY <2>1, <2>5 DEF SlotsExact
      <4>3. PICK S, T : S = 0 .. NDIRECT /\ T = 0 .. NBlock
        OBVIOUS
      <4>4. ip.addrs \in [S -> T] /\ disk.di[n].addrs \in [S -> T]
        BY <4>1, <4>3
      <4>5. \A k \in S : ip.addrs[k] = disk.di[n].addrs[k]
        BY <2>4, <4>2, <4>3
      <4> QED
        BY <4>4, <4>5, SameFun
    <3>2. \A j \in Inode : /\ disk'.di[j].addrs = disk.di[j].addrs
                           /\ disk'.di[j].type = "free" => disk.di[j].type = "free"
      BY <2>1, <2>6, <3>1
    <3> QED
      BY <2>5, <2>6, <3>2, SlotsSame
  <2>8. DiskGood /\ OthersOnDisk({i}) /\ disk'.di[i] = e
    BY <1>1, <1>4, <2>1, <2>6, <2>7 DEF DiskGood, OthersOnDisk
  <2>9. itable' = Iget(Entry(itable, i, e, p), n) /\ Goto(p, "new", n, i, << >>)
    BY <1>8, <2>1
  <2> QED
    BY <1>1, <1>2, <1>3, <1>5, <2>8, <2>9, ReadyChild
<1> DEFINE k == DirLookup(disk, i, Head(loc[p].path))
           n == disk.ents[i][CHOOSE j \in k : TRUE].inum
<1>9. k # {} => n \in Inode
  BY DirFound DEF FSInv, FSType
<1> HIDE DEF n
<1> QED
  BY <1>4, <1>6, <1>7, <1>8, <1>9 DEF CreateParent, n

LEMMA LinkOldKeeps == ASSUME FSInv, NEW p \in Proc, LinkOld(p) PROVE FSInv'
<1>1. /\ Locks(p, "walk") /\ loc[p].keep = 0 /\ loc[p].fn = "link"
      /\ stable' = stable /\ file' = file /\ ofile' = ofile /\ cwd' = cwd
  BY DEF LinkOld, Named, WantsParent, rest
<1>2. loc[p].at = "walk" /\ \E i \in Inode, e \in DinodeT : Ready(p, i, e)
  BY <1>1, ReadyIs
<1>3. PICK i \in Inode, e \in DinodeT : Ready(p, i, e)
  BY <1>2
<1>4. /\ e = disk.di[i] /\ e.type # "free" /\ i = loc[p].ip /\ Ilocked(i) = e
      /\ todo[p] = << >> /\ cwd[p] \in Inode /\ cwd[p] # 0 /\ loc[p] \in LocT /\ p # None
  BY <1>3 DEF Ready
<1>5. FilesSame
  BY <1>1, SameFiles
<1>6. CASE itable' = Entry(itable, i, e, None) /\ End(p, << Put(i) >>) /\ disk' = disk
  <2>1. DiskGood /\ OthersOnDisk({i}) /\ disk'.di[i] = e
    BY <1>1, <1>4, <1>6, SameDisk
  <2> QED
    BY <1>1, <1>3, <1>4, <1>5, <1>6, <2>1, ReadyPut
<1>7. PICK n \in Inode : n = Start(loc[p].new, p)
  BY <1>4, Sizes DEF Start, ROOTINO, Inode
<1>8. CASE /\ itable' = Iget(Entry(itable, i, Linked(e), None), n)
           /\ disk' = [disk EXCEPT !.di[i] = Linked(e)]
           /\ loc' = [loc EXCEPT ![p].path = loc[p].new.elem, ![p].ip = n, ![p].keep = i]
           /\ todo' = todo
  <2>1. PICK e1 : e1 = Linked(e)
    OBVIOUS
  <2>2. e1 \in DinodeT /\ e1.type = disk.di[i].type /\ e1.addrs = disk.di[i].addrs
    BY <1>4, <2>1 DEF DinodeT, Linked
  <2>3. itable' = Iget(Entry(itable, i, e1, None), n) /\ disk' = With(disk, i, e1)
    BY <1>8, <2>1 DEF With
  <2>4. DiskGood /\ disk'.di[i] = e1 /\ OthersOnDisk({i})
    BY <1>1, <2>2, <2>3, InodeWritten
  <2>5. e1.type # "free"
    BY <1>4, <2>2
  <2>6. /\ TableGood(p) /\ Gains(n) /\ \A j \in Inode : itable'[j].lock # p
    BY <1>3, <1>4, <2>2, <2>3, <2>4, <2>5, ReadyIget, SMTT(30)
  <2>7. PICK l : l = [loc[p] EXCEPT !.path = loc[p].new.elem, !.ip = n, !.keep = i]
    OBVIOUS
  <2>8. /\ l \in LocT /\ l.fn = "link" /\ l.at = "walk" /\ l.ip = n /\ l.keep = i
    <3>1. loc[p].new \in PathT /\ n \in 0 .. NInode /\ i \in 0 .. NInode
      BY <1>4 DEF LocT, Inode
    <3>2. loc[p].new.elem \in Seq(Elem)
      BY <3>1 DEF PathT
    <3> QED
      BY <1>1, <1>2, <1>4, <2>7, <3>1, <3>2 DEF LocT
  <2>9. loc' = [loc EXCEPT ![p] = l] /\ todo' = [todo EXCEPT ![p] = << >>]
        /\ cwd' = [cwd EXCEPT ![p] = cwd[p]] /\ cwd[p] \in 0 .. NInode
    BY <1>1, <1>4, <1>8, <2>7 DEF FSInv, FSType
  <2>10. Goes(p, l, << >>, cwd[p])
    <3>1. StageOK(l, << >>, cwd[p], ofile'[p])
      BY <1>4, <2>8 DEF StageOK
    <3> QED
      BY <2>8, <2>9, <3>1, LeavesNone DEF Goes, Leaves
  <2>11. LocksAre(p, l, << >>)
    BY <2>6, <2>8, LeavesNone DEF LocksAre, KeepsLocked
  <2>12. Counted(p, l, << >>, cwd[p])
    <3> SUFFICES ASSUME NEW j \in Inode
                 PROVE  itable'[j].ref + Ptr(loc[p], j) + Is(cwd[p], j)
                          = itable[j].ref + Puts(<< >>, j) + Ptr(l, j) + Is(cwd[p], j)
      BY DEF Counted
    <3>1. Is(0, j) = 0 /\ Puts(<< >>, j) = 0
      BY LeavesNone, Sizes DEF Is, Inode
    <3>2. Ptr(loc[p], j) = Is(i, j) + 0 /\ Ptr(l, j) = Is(n, j) + Is(i, j)
      BY <1>1, <1>4, <2>8, <3>1 DEF Ptr
    <3>3. PICK r \in Int : r = itable[j].ref
      BY DEF FSInv, FSType, EntryT
    <3>4. itable'[j].ref = r + Is(n, j)
      BY <2>6, <3>3 DEF Gains
    <3>5. PICK a \in Int, b \in Int, c \in Int : a = Is(i, j) /\ b = Is(n, j) /\ c = Is(cwd[p], j)
      BY DEF Is
    <3>6. (r + b) + (a + 0) + c = r + 0 + (b + a) + c
      BY ONLY r \in Int, a \in Int, b \in Int, c \in Int
    <3> QED
      BY <3>1, <3>2, <3>3, <3>4, <3>5, <3>6
  <2> QED
    BY <1>4, <1>5, <2>4, <2>6, <2>10, <2>11, <2>12, CallStep
<1> QED
  BY <1>4, <1>6, <1>7, <1>8 DEF LinkOld

\* What a write to the inode i leaves: w.d is the disk and w.ip the inode.
LEMMA WroteIs ==
    ASSUME NEW i \in Inode, NEW w, WritesTo(i, disk, w), disk' = w.d, stable' = stable
    PROVE  /\ DiskGood /\ disk'.di[i] = w.ip /\ OthersOnDisk({i})
           /\ w.ip \in DinodeT /\ w.ip.type = disk.di[i].type
BY DEF WritesTo, WriteT, DiskGood, OthersOnDisk

LEMMA LinkNewKeeps == ASSUME FSInv, NEW p \in Proc, LinkNew(p) PROVE FSInv'
<1>1. /\ loc[p].fn = "link" /\ Locks(p, "parent")
      /\ stable' = stable /\ file' = file /\ ofile' = ofile /\ cwd' = cwd
  BY DEF LinkNew
<1>2. loc[p].at = "parent" /\ loc[p].keep \in Inode /\ Head(loc[p].path) \in Elem
  BY <1>1, ParentIs
<1>3. PICK i \in Inode, e \in DinodeT : Ready(p, i, e)
  BY <1>1, ParentIs
<1>4. /\ e = disk.di[i] /\ e.type # "free" /\ i = loc[p].ip /\ Ilocked(i) = e
      /\ todo[p] = << >> /\ loc[p].fn # "write" /\ cwd[p] # 0 /\ p # None
  BY <1>3 DEF Ready
<1>5. FilesSame
  BY <1>1, SameFiles
<1>6. ASSUME NEW n \in Inode, itable' = Iget(Entry(itable, i, e, p), n),
             Fails(p, << Put(n), Unlock(i), Put(i) >>), disk' = disk
      PROVE  FSInv'
  <2>1. DiskGood /\ OthersOnDisk({i}) /\ disk'.di[i] = e
    BY <1>1, <1>4, <1>6, SameDisk
  <2>2. /\ TableGood(p) /\ Gains(n) /\ \A j \in Inode : itable'[j].lock = p <=> j = i
    BY <1>3, <1>4, <1>6, <2>1, ReadyIget
  <2>3. PICK s : s = << Put(n), Unlock(i), Put(i) >>
    OBVIOUS
  <2>4. /\ Leaves(s)
        /\ \A j \in Inode : Puts(s, j) = Is(n, j) + Is(i, j) /\ (Unlocks(s, j) <=> j = i)
    BY <2>3, LeavesThree
  <2>5. /\ \A j \in Inode : itable'[j].lock = p <=> Unlocks(s, j)
        /\ \A j \in Inode : Is(n, j) + Is(loc[p].ip, j) = Puts(s, j)
        /\ Fails(p, s)
    BY <1>4, <1>6, <2>2, <2>3, <2>4
  <2>6. loc[p].at \in {"walk", "parent"}
    BY <1>2
  <2> QED
    BY <1>1, <1>4, <1>5, <2>1, <2>2, <2>4, <2>5, <2>6, FailStep
<1>7. PICK w : w = DirLink(i, e, disk, Head(loc[p].path), loc[p].keep)
  OBVIOUS
<1>8. WritesTo(i, disk, w)
  <2>1. /\ disk \in DiskT /\ SlotsExact(disk) /\ disk.di[i].type # "free"
        /\ loc[p].keep \in 0 .. NInode
    BY <1>2, <1>4 DEF FSInv, FSType, Inode
  <2>2. w = DirLink(i, disk.di[i], disk, Head(loc[p].path), loc[p].keep)
    BY <1>4, <1>7
  <2> QED
    BY <1>2, <2>1, <2>2, DirLinkIs
<1>9. ASSUME disk' = w.d, itable' = Entry(itable, i, w.ip, None),
             IF w.ok THEN End(p, << Put(i), Put(loc[p].keep) >>) ELSE Fails(p, << Put(i) >>)
      PROVE  FSInv'
  <2>1. /\ DiskGood /\ disk'.di[i] = w.ip /\ OthersOnDisk({i})
        /\ w.ip \in DinodeT /\ w.ip.type = disk.di[i].type
    BY <1>1, <1>8, <1>9, WroteIs
  <2>2. PICK e1 \in DinodeT : e1 = w.ip /\ e1.type # "free"
    BY <1>4, <2>1
  <2>3. itable' = Entry(itable, i, e1, None) /\ disk'.di[i] = e1
    BY <1>9, <2>1, <2>2
  <2>4. /\ TableGood(p) /\ Gains(0) /\ \A j \in Inode : itable'[j].lock # p
    BY <1>3, <1>4, <2>1, <2>2, <2>3, ReadyEntry
  <2>5. CASE End(p, << Put(i), Put(loc[p].keep) >>)
    <3>1. PICK s : s = << Put(i), Put(loc[p].keep) >>
      OBVIOUS
    <3>2. /\ Leaves(s)
          /\ \A j \in Inode : Puts(s, j) = Is(i, j) + Is(loc[p].keep, j) /\ ~Unlocks(s, j)
      BY <1>2, <3>1, LeavesTwo
    <3>3. /\ \A j \in Inode : itable'[j].lock = p <=> Unlocks(s, j)
          /\ End(p, s)
      BY <2>4, <2>5, <3>1, <3>2
    <3>4. \A j \in Inode : Is(0, j) + Is(loc[p].ip, j) + Is(loc[p].keep, j) = Puts(s, j)
      <4> TAKE j \in Inode
      <4>1. Is(0, j) = 0 /\ Puts(s, j) = Is(i, j) + Is(loc[p].keep, j)
        BY <3>2, Sizes DEF Is, Inode
      <4>2. PICK a \in Int, b \in Int : a = Is(i, j) /\ b = Is(loc[p].keep, j)
        BY DEF Is
      <4>3. 0 + a + b = a + b
        BY ONLY a \in Int, b \in Int
      <4> QED
        BY <1>4, <4>1, <4>2, <4>3
    <3> QED
      BY <1>1, <1>4, <1>5, <2>1, <2>4, <3>2, <3>3, <3>4, EndStep
  <2>6. CASE Fails(p, << Put(i) >>)
    <3>1. PICK s : s = << Put(i) >>
      OBVIOUS
    <3>2. Leaves(s) /\ \A j \in Inode : Puts(s, j) = Is(i, j) /\ ~Unlocks(s, j)
      BY <3>1, LeavesOne
    <3>3. /\ \A j \in Inode : itable'[j].lock = p <=> Unlocks(s, j)
          /\ Fails(p, s) /\ loc[p].at \in {"walk", "parent"}
      BY <1>2, <2>4, <2>6, <3>1, <3>2
    <3>4. \A j \in Inode : Is(0, j) + Is(loc[p].ip, j) = Puts(s, j)
      <4> TAKE j \in Inode
      <4>1. Is(0, j) = 0 /\ Puts(s, j) = Is(i, j) /\ Is(i, j) \in {0, 1}
        BY <3>2, Sizes DEF Is, Inode
      <4> QED
        BY <1>4, <4>1
    <3> QED
      BY <1>1, <1>4, <1>5, <2>1, <2>4, <3>2, <3>3, <3>4, FailStep
  <2> QED
    BY <1>9, <2>5, <2>6
<1> DEFINE k == DirLookup(disk, i, Head(loc[p].path))
           n == disk.ents[i][CHOOSE j \in k : TRUE].inum
<1>10. k # {} => n \in Inode
  BY DirFound DEF FSInv, FSType
<1> HIDE DEF n
<1> QED
  BY <1>4, <1>6, <1>7, <1>9, <1>10 DEF LinkNew, n

\* unlink() or create() has the directory m locked, which is u, and locks i,
\* which is e.
Pair(p, i, e, m, u) ==
    /\ loc[p] \in LocT /\ todo[p] = << >> /\ cwd[p] \in Inode /\ cwd[p] # 0
    /\ loc[p].fn # "write" /\ Head(loc[p].path) \in Elem
    /\ i = loc[p].ip /\ m = loc[p].keep /\ i # m /\ p # None
    /\ e = disk.di[i] /\ Ilocked(i) = e /\ e.type # "free"
    /\ u = disk.di[m] /\ itable[m].d = u /\ u.type # "free"
    /\ itable[i].lock = None /\ itable[m].lock = p
    /\ \A j \in Inode : itable[j].lock = p <=> j = m

LEMMA PairIs ==
    ASSUME FSInv, NEW p \in Proc, NEW stage \in {"child", "new"}, Locks(p, stage)
    PROVE  /\ loc[p].at = stage
           /\ \E i \in Inode, m \in Inode, e \in DinodeT, u \in DinodeT : Pair(p, i, e, m, u)
<1>1. /\ loc[p] \in LocT /\ loc[p].at = stage /\ todo[p] = << >>
      /\ loc[p].ip \in Inode /\ cwd[p] \in Inode
      /\ StageOK(loc[p], << >>, cwd[p], ofile[p])
      /\ itable[loc[p].ip].lock = None
      /\ Ilocked(loc[p].ip) = disk.di[loc[p].ip]
      /\ disk.di[loc[p].ip] \in DinodeT /\ disk.di[loc[p].ip].type # "free"
      /\ \A j \in Inode : itable[j].lock = p <=> KeepsLocked(loc[p], j)
  BY LocksIs
<1>2. loc[p].keep \in Inode /\ loc[p].path # << >> /\ loc[p].fn # "write"
  BY <1>1 DEF StageOK
<1>3. PICK i \in Inode, m \in Inode, e \in DinodeT : i = loc[p].ip /\ m = loc[p].keep /\ e = disk.di[i]
  BY <1>1, <1>2
<1>4. \A j \in Inode : KeepsLocked(loc[p], j) <=> j = m
  BY <1>1, <1>3 DEF KeepsLocked
<1>5. HasLocked(p, m) /\ ~Freed(todo[p], m)
  BY <1>1, <1>4, NoCalls DEF HasLocked
<1>6. /\ itable[m].lock = p /\ itable[m].d = disk.di[m] /\ disk.di[m] \in DinodeT
      /\ disk.di[m].type # "free"
  BY <1>5, KeptCopy
<1>7. PICK u \in DinodeT : u = disk.di[m]
  BY <1>6
<1>8. cwd[p] # 0 /\ p # None /\ i # m
  BY <1>1, <1>3, <1>6, Sizes DEF Inode
<1>9. Head(loc[p].path) \in Elem
  <2>1. loc[p].path \in Seq(Elem)
    BY <1>1 DEF LocT
  <2> QED
    BY <1>2, <2>1
<1>10. Pair(p, i, e, m, u)
  BY <1>1, <1>2, <1>3, <1>4, <1>6, <1>7, <1>8, <1>9 DEF Pair
<1> QED
  BY <1>1, <1>10

\* Both inodes get another content, and are unlocked or not.
LEMMA PairTable ==
    ASSUME FSInv, NEW p \in Proc, NEW i \in Inode, NEW e \in DinodeT, NEW m \in Inode,
           NEW u \in DinodeT, Pair(p, i, e, m, u), NEW e1 \in DinodeT, NEW u1 \in DinodeT,
           e1.type # "free", u1.type # "free", NEW h \in {None, p}, NEW g \in {None, p},
           itable' = Entry(Entry(itable, i, e1, h), m, u1, g),
           disk'.di[i] = e1, disk'.di[m] = u1, OthersOnDisk({i, m})
    PROVE  /\ TableGood(p) /\ Gains(0)
           /\ \A j \in Inode : itable'[j].lock = p <=> (j = i /\ h = p) \/ (j = m /\ g = p)
<1>1. /\ i # m /\ itable[i].lock = None /\ itable[m].lock = p
      /\ \A j \in Inode : itable[j].lock = p <=> j = m
  BY DEF Pair
<1>2. itable \in [Inode -> EntryT] /\ h \in Proc \cup {None} /\ g \in Proc \cup {None}
  BY DEF FSInv, FSType
<1>3. PICK t : t = Entry(itable, i, e1, h)
  OBVIOUS
<1>4. /\ t \in [Inode -> EntryT]
      /\ \A j \in Inode : t[j].ref = itable[j].ref /\ (j # i => t[j] = itable[j])
      /\ t[i].valid /\ t[i].lock = h /\ t[i].d = e1
  BY <1>2, <1>3, EntryIs
<1>5. /\ itable' \in [Inode -> EntryT]
      /\ \A j \in Inode : itable'[j].ref = t[j].ref /\ (j # m => itable'[j] = t[j])
      /\ itable'[m].valid /\ itable'[m].lock = g /\ itable'[m].d = u1
  <2>1. itable' = Entry(t, m, u1, g)
    BY <1>3
  <2>2. t \in [Inode -> EntryT]
    BY <1>4
  <2> QED
    BY <1>2, <2>1, <2>2, EntryIs, SMTT(30)
<1>6. itable'[i].valid /\ itable'[i].lock = h /\ itable'[i].d = e1
  BY <1>1, <1>4, <1>5
<1>7. \A j \in Inode \ {i, m} : itable'[j] = itable[j]
  BY <1>4, <1>5
<1>8. LockHyp(p)
  <2> SUFFICES ASSUME NEW j \in Inode
               PROVE  /\ \/ itable'[j].lock = itable[j].lock
                         \/ itable[j].lock \in {None, p} /\ itable'[j].lock \in {None, p}
                      /\ itable'[j].lock # None => itable'[j].valid
    BY DEF LockHyp
  <2>1. CASE j = i
    BY <1>1, <1>6, <2>1
  <2>2. CASE j = m
    BY <1>1, <1>5, <2>2
  <2>3. CASE j \notin {i, m}
    BY <1>7, <2>3 DEF FSInv, LocksExact
  <2> QED
    BY <2>1, <2>2, <2>3
<1>9. MemHyp
  <2> SUFFICES ASSUME NEW j \in Inode, itable'[j].valid
               PROVE  \/ itable'[j].d = disk'.di[j] /\ disk'.di[j].type # "free"
                      \/ /\ itable[j].valid /\ itable'[j].d = itable[j].d
                         /\ disk'.di[j] = disk.di[j]
                      \/ itable[j].valid /\ disk.di[j].type = "free"
    BY DEF MemHyp
  <2>1. CASE j = i
    BY <1>6, <2>1
  <2>2. CASE j = m
    BY <1>5, <2>2
  <2>3. CASE j \notin {i, m}
    <3>1. itable'[j] = itable[j]
      BY <1>7, <2>3
    <3> QED
      BY <2>3, <3>1 DEF OthersOnDisk
  <2> QED
    BY <2>1, <2>2, <2>3
<1>10. Gains(0)
  BY <1>4, <1>5, GainsNone
<1>11. \A j \in Inode : itable'[j].lock = p <=> (j = i /\ h = p) \/ (j = m /\ g = p)
  BY <1>1, <1>5, <1>6, <1>7
<1> QED
  BY <1>5, <1>8, <1>9, <1>10, <1>11 DEF TableGood

\* The call ends with one of them still to be unlocked,
LEMMA PairEnd ==
    ASSUME FSInv, NEW p \in Proc, NEW i \in Inode, NEW e \in DinodeT, NEW m \in Inode,
           NEW u \in DinodeT, Pair(p, i, e, m, u), NEW x \in {i, m}, NEW y \in {i, m}, x # y,
           TableGood(p), Gains(0), \A j \in Inode : itable'[j].lock = p <=> j = y,
           DiskGood, FilesSame, cwd' = cwd, End(p, << Put(x), Unlock(y), Put(y) >>)
    PROVE  FSInv'
<1>1. /\ todo[p] = << >> /\ loc[p].fn # "write" /\ cwd[p] # 0 /\ i = loc[p].ip /\ m = loc[p].keep
  BY DEF Pair
<1>2. PICK s : s = << Put(x), Unlock(y), Put(y) >>
  OBVIOUS
<1>3. /\ Leaves(s)
      /\ \A j \in Inode : Puts(s, j) = Is(x, j) + Is(y, j) /\ (Unlocks(s, j) <=> j = y)
  <2>1. x \in Inode /\ y \in Inode
    OBVIOUS
  <2> QED
    BY <1>2, <2>1, LeavesThree
<1>4. \A j \in Inode : itable'[j].lock = p <=> Unlocks(s, j)
  BY <1>3
<1>5. \A j \in Inode : Is(0, j) + Is(loc[p].ip, j) + Is(loc[p].keep, j) = Puts(s, j)
  <2> TAKE j \in Inode
  <2>1. Is(0, j) = 0 /\ Puts(s, j) = Is(x, j) + Is(y, j)
    BY <1>3, Sizes DEF Is, Inode
  <2>2. PICK a \in Int, b \in Int : a = Is(i, j) /\ b = Is(m, j)
    BY DEF Is
  <2>3. 0 + a + b = a + b /\ 0 + a + b = b + a
    BY ONLY a \in Int, b \in Int
  <2>4. CASE x = i /\ y = m
    BY <1>1, <2>1, <2>2, <2>3, <2>4
  <2>5. CASE x = m /\ y = i
    BY <1>1, <2>1, <2>2, <2>3, <2>5
  <2> QED
    BY <2>4, <2>5
<1>6. End(p, s)
  BY <1>2
<1> QED
  BY <1>1, <1>3, <1>4, <1>5, <1>6, EndStep

\* or goes on with i locked, the directory to be put.
LEMMA PairGoto ==
    ASSUME FSInv, NEW p \in Proc, NEW i \in Inode, NEW e \in DinodeT, NEW m \in Inode,
           NEW u \in DinodeT, Pair(p, i, e, m, u), NEW stage \in {"unlinked", "opened"},
           TableGood(p), Gains(0), \A j \in Inode : itable'[j].lock = p <=> j = i,
           DiskGood, FilesSame, cwd' = cwd, Goto(p, stage, i, 0, << Put(m) >>)
    PROVE  FSInv'
<1>1. /\ todo[p] = << >> /\ loc[p].fn # "write" /\ cwd[p] # 0 /\ i = loc[p].ip /\ m = loc[p].keep
      /\ cwd[p] \in Inode
  BY DEF Pair
<1>2. PICK s : s = << Put(m) >>
  OBVIOUS
<1>3. Leaves(s) /\ \A j \in Inode : Puts(s, j) = Is(m, j) /\ ~Unlocks(s, j)
  BY <1>2, LeavesOne
<1>4. StageNext(p, stage, i, 0, s, cwd[p])
  BY <1>1, <1>3 DEF StageNext, StageOK
<1>5. LocksNext(p, stage, i, 0, s)
  BY <1>3 DEF LocksNext
<1>6. CountNext(p, 0, i, 0, s, cwd[p])
  <2> SUFFICES ASSUME NEW j \in Inode
               PROVE  Is(0, j) + Is(loc[p].ip, j) + Is(loc[p].keep, j) + Is(cwd[p], j)
                        = Puts(s, j) + Is(i, j) + Is(0, j) + Is(cwd[p], j)
    BY DEF CountNext
  <2>1. Is(0, j) = 0 /\ Puts(s, j) = Is(m, j)
    BY <1>3, Sizes DEF Is, Inode
  <2>2. PICK a \in Int, b \in Int, c \in Int : a = Is(i, j) /\ b = Is(cwd[p], j) /\ c = Is(m, j)
    BY DEF Is
  <2>3. 0 + a + c + b = c + a + 0 + b
    BY ONLY a \in Int, b \in Int, c \in Int
  <2> QED
    BY <1>1, <2>1, <2>2, <2>3
<1>7. /\ stage \in AtT /\ i \in 0 .. NInode /\ 0 \in 0 .. NInode /\ cwd[p] \in 0 .. NInode
      /\ Goto(p, stage, i, 0, s) /\ cwd' = [cwd EXCEPT ![p] = cwd[p]]
  BY <1>1, <1>2, Sizes DEF AtT, Inode, FSInv, FSType
<1> QED
  BY <1>1, <1>3, <1>4, <1>5, <1>6, <1>7, GotoStep

\* iupdate() of an inode whose addresses are as they were.
LEMMA WithSlots ==
    ASSUME NEW d \in DiskT, SlotsExact(d), NEW i \in Inode, NEW ip \in DinodeT,
           ip.addrs = d.di[i].addrs, ip.type = d.di[i].type, NEW d1, d1 = With(d, i, ip)
    PROVE  /\ d1 \in DiskT /\ SlotsExact(d1) /\ d1.di[i] = ip
           /\ \A j \in Inode \ {i} : d1.di[j] = d.di[j]
<1>1. /\ d1 \in DiskT /\ d1.di[i] = ip /\ d1.used = d.used /\ d1.ind = d.ind
      /\ \A j \in Inode \ {i} : d1.di[j] = d.di[j]
  BY WithIs
<1>2. \A j \in Inode : /\ d1.di[j].addrs = d.di[j].addrs
                       /\ d1.di[j].type = "free" => d.di[j].type = "free"
  BY <1>1
<1>3. SlotsExact(d1)
  BY <1>1, <1>2, SlotsSame
<1> QED
  BY <1>1, <1>3

LEMMA UnlinkChildKeeps == ASSUME FSInv, NEW p \in Proc, UnlinkChild(p) PROVE FSInv'
<1>1. /\ Locks(p, "child") /\ stable' = stable /\ file' = file /\ ofile' = ofile /\ cwd' = cwd
  BY DEF UnlinkChild, rest
<1>2. \E i \in Inode, m \in Inode, e \in DinodeT, u \in DinodeT : Pair(p, i, e, m, u)
  BY <1>1, PairIs
<1>3. PICK i \in Inode, m \in Inode, e \in DinodeT, u \in DinodeT : Pair(p, i, e, m, u)
  BY <1>2
<1>4. /\ i = loc[p].ip /\ m = loc[p].keep /\ i # m /\ p # None
      /\ e = disk.di[i] /\ Ilocked(i) = e /\ e.type # "free"
      /\ u = disk.di[m] /\ itable[m].d = u /\ u.type # "free"
      /\ itable[i].lock = None
      /\ \A j \in Inode : itable[j].lock = p <=> j = m
  BY <1>3 DEF Pair
<1>5. FilesSame
  BY <1>1, SameFiles
<1>6. CASE /\ itable' = Entry(itable, i, e, None) /\ disk' = disk
           /\ End(p, << Put(i), Unlock(m), Put(m) >>)
  <2>1. DiskGood /\ OthersOnDisk({i}) /\ disk'.di[i] = e
    BY <1>1, <1>4, <1>6, SameDisk
  <2>2. /\ TableGood(p) /\ Gains(0)
        /\ \A j \in Inode : j # i => itable'[j].lock = itable[j].lock
        /\ itable'[i].lock = None
    <3>1. itable[i].lock \in {None, p} /\ e.type # "free"
      BY <1>4
    <3>2. itable' = Entry(itable, i, e, None)
      BY <1>6
    <3>3. disk'.di[i] = e /\ OthersOnDisk({i})
      BY <2>1
    <3> QED
      BY <3>1, <3>2, <3>3, TableEntry
  <2>3. \A j \in Inode : itable'[j].lock = p <=> j = m
    BY <1>4, <2>2
  <2>4. i \in {i, m} /\ m \in {i, m} /\ i # m /\ DiskGood /\ TableGood(p) /\ Gains(0) /\ cwd' = cwd
    BY <1>1, <1>4, <2>1, <2>2
  <2>5. End(p, << Put(i), Unlock(m), Put(m) >>)
    BY <1>6
  <2> QED
    BY <1>3, <1>5, <2>3, <2>4, <2>5, PairEnd
<1>7. ASSUME NEW k, NEW nl \in Int, NEW up, up = [u EXCEPT !.nlink = nl],
             disk' = [disk EXCEPT !.ents[m][k] = NoDe, !.di[m] = up],
             itable' = Entry(Entry(itable, i, e, p), m, up, None),
             Goto(p, "unlinked", i, 0, << Put(m) >>)
      PROVE  FSInv'
  <2>1. up \in DinodeT /\ up.type = disk.di[m].type /\ up.addrs = disk.di[m].addrs
    BY <1>4, <1>7 DEF DinodeT
  <2>2. disk \in DiskT /\ SlotsExact(disk) /\ disk.ents \in [Inode -> Seq(DirentT)]
    BY DiskIs DEF FSInv, FSType
  <2>3. PICK s : s = [disk.ents[m] EXCEPT ![k] = NoDe]
    OBVIOUS
  <2>4. s \in Seq(DirentT)
    <3>1. NoDe \in DirentT
      BY Sizes DEF NoDe, De, DirentT
    <3>2. disk.ents[m] \in Seq(DirentT)
      BY <2>2
    <3>3. PICK q \in Seq(DirentT) : q = disk.ents[m]
      BY <3>2
    <3>4. q \in [1 .. Len(q) -> DirentT] /\ Len(q) \in Nat
      OBVIOUS
    <3>5. PICK r : r = [x \in 1 .. Len(q) |-> IF x = k THEN NoDe ELSE q[x]]
      OBVIOUS
    <3>6. DOMAIN q = 1 .. Len(q) /\ [q EXCEPT ![k] = NoDe] = r
      BY <3>4, <3>5
    <3>7. r \in [1 .. Len(q) -> DirentT]
      BY <3>1, <3>4, <3>5
    <3>8. r \in Seq(DirentT)
      BY <3>4, <3>7
    <3> QED
      BY <2>3, <3>3, <3>6, <3>8
  <2>5. PICK d : d = [disk EXCEPT !.ents[m] = s]
    OBVIOUS
  <2>6. d \in DiskT /\ d.di = disk.di /\ d.used = disk.used /\ d.ind = disk.ind
    BY <2>2, <2>4, <2>5 DEF DiskT
  <2>7. SlotsExact(d)
    <3>1. \A j \in Inode : /\ d.di[j].addrs = disk.di[j].addrs
                           /\ d.di[j].type = "free" => disk.di[j].type = "free"
      BY <2>6
    <3> QED
      BY <2>2, <2>6, <3>1, SlotsSame
  <2>8. disk' = With(d, m, up)
    BY <1>7, <2>2, <2>3, <2>5 DEF With, DiskT
  <2>9. up.addrs = d.di[m].addrs /\ up.type = d.di[m].type
    BY <2>1, <2>6
  <2>10. /\ disk' \in DiskT /\ SlotsExact(disk') /\ disk'.di[m] = up
         /\ \A j \in Inode \ {m} : disk'.di[j] = d.di[j]
    BY <2>1, <2>6, <2>7, <2>8, <2>9, WithSlots
  <2>11. DiskGood /\ disk'.di[i] = e /\ disk'.di[m] = up /\ OthersOnDisk({i, m})
    BY <1>1, <1>4, <2>6, <2>10 DEF DiskGood, OthersOnDisk
  <2>12. up.type # "free"
    BY <1>4, <2>1
  <2>13. /\ TableGood(p) /\ Gains(0)
         /\ \A j \in Inode : itable'[j].lock = p <=> (j = i /\ p = p) \/ (j = m /\ None = p)
    <3>1. p \in {None, p} /\ None \in {None, p} /\ e.type # "free"
      BY <1>4
    <3>2. itable' = Entry(Entry(itable, i, e, p), m, up, None)
      BY <1>7
    <3>3. up \in DinodeT
      BY <2>1
    <3> QED
      BY <1>3, <2>11, <2>12, <3>1, <3>2, <3>3, PairTable
  <2>14. \A j \in Inode : itable'[j].lock = p <=> j = i
    BY <1>4, <2>13
  <2> QED
    BY <1>1, <1>3, <1>5, <1>7, <2>11, <2>13, <2>14, PairGoto
<1>8. u.nlink \in Int /\ u.nlink - 1 \in Int
  BY DEF DinodeT
<1> DEFINE k == CHOOSE j \in DirLookup(disk, m, Head(loc[p].path)) : TRUE
           nl == IF e.type = "dir" THEN u.nlink - 1 ELSE u.nlink
           up == [u EXCEPT !.nlink = nl]
<1>9. nl \in Int
  BY <1>8
<1>10. \/ /\ itable' = Entry(itable, i, e, None) /\ disk' = disk
          /\ End(p, << Put(i), Unlock(m), Put(m) >>)
       \/ /\ disk' = [disk EXCEPT !.ents[m][k] = NoDe, !.di[m] = up]
          /\ itable' = Entry(Entry(itable, i, e, p), m, up, None)
          /\ Goto(p, "unlinked", i, 0, << Put(m) >>)
  BY <1>4 DEF UnlinkChild
<1> HIDE DEF k, nl
<1> QED
  BY <1>6, <1>7, <1>9, <1>10

\* A write to the inode i has left the disk w.d and the inode w.ip.
Wrote(i, d, w) ==
    /\ w.d \in DiskT /\ SlotsExact(w.d) /\ w.ip \in DinodeT
    /\ w.d.di[i] = w.ip /\ w.ip.type = d.di[i].type
    /\ \A j \in Inode \ {i} : w.d.di[j] = d.di[j]

LEMMA WritesWrote == ASSUME NEW i, NEW d, NEW w, WritesTo(i, d, w) PROVE Wrote(i, d, w)
  BY DEF WritesTo, WriteT, Wrote

LEMMA CreateNewKeeps == ASSUME FSInv, NEW p \in Proc, CreateNew(p) PROVE FSInv'
<1>1. Locks(p, "new") /\ stable' = stable /\ file' = file /\ ofile' = ofile /\ cwd' = cwd
  BY DEF CreateNew
<1>2. \E i \in Inode, m \in Inode, e \in DinodeT, u \in DinodeT : Pair(p, i, e, m, u)
  BY <1>1, PairIs
<1>3. PICK i \in Inode, m \in Inode, e \in DinodeT, u \in DinodeT : Pair(p, i, e, m, u)
  BY <1>2
<1>4. /\ i = loc[p].ip /\ m = loc[p].keep /\ i # m /\ p # None
      /\ e = disk.di[i] /\ Ilocked(i) = e /\ e.type # "free"
      /\ u = disk.di[m] /\ itable[m].d = u /\ u.type # "free" /\ Head(loc[p].path) \in Elem
  BY <1>3 DEF Pair
<1>5. FilesSame
  BY <1>1, SameFiles
<1>6. PICK e1 \in DinodeT : e1 = [e EXCEPT !.nlink = 1] /\ e1.type = e.type /\ e1.addrs = e.addrs
  <2>1. PICK x : x = [e EXCEPT !.nlink = 1]
    OBVIOUS
  <2>2. x \in DinodeT /\ x.type = e.type /\ x.addrs = e.addrs
    BY <2>1 DEF DinodeT
  <2> QED
    BY <2>1, <2>2
<1>7. PICK d0 : d0 = With(disk, i, e1)
  OBVIOUS
<1>8. /\ d0 \in DiskT /\ SlotsExact(d0) /\ d0.di[i] = e1
      /\ \A j \in Inode \ {i} : d0.di[j] = disk.di[j]
  <2>1. /\ disk \in DiskT /\ SlotsExact(disk) /\ e1.addrs = disk.di[i].addrs
        /\ e1.type = disk.di[i].type
    BY <1>4, <1>6 DEF FSInv, FSType
  <2> QED
    BY <1>7, <2>1, WithSlots
<1> DEFINE dir == loc[p].fn = "mkdir"
           up(ip) == [ip EXCEPT !.nlink = IF dir THEN @ + 1 ELSE @]
<1>9. PICK dots, w :
        /\ dots = IF dir THEN Dots(i, e1, d0, m) ELSE [ok |-> TRUE, ip |-> e1, d |-> d0]
        /\ w = IF dots.ok THEN DirLink(m, u, dots.d, Head(loc[p].path), i)
               ELSE [ok |-> FALSE, ip |-> u, d |-> dots.d]
        /\ \/ /\ disk' = With(w.d, m, up(w.ip))
              /\ itable' = Entry(Entry(itable, i, dots.ip, p), m, up(w.ip), None)
              /\ \/ Goto(p, "opened", i, 0, << Put(m) >>)
                 \/ End(p, << Put(m), Unlock(i), Put(i) >>)
           \/ /\ disk' = With(w.d, i, CreateFails(dots.ip))
              /\ itable' = Entry(Entry(itable, i, CreateFails(dots.ip), None), m, w.ip, p)
              /\ End(p, << Put(i), Unlock(m), Put(m) >>)
  <2> DEFINE ii == loc[p].ip
             mm == loc[p].keep
             ee == [Ilocked(ii) EXCEPT !.nlink = 1]
             dd == [disk EXCEPT !.di[ii] = ee]
             Ends(dots, w) ==
               \/ /\ disk' = [w.d EXCEPT !.di[mm] = up(w.ip)]
                  /\ itable' = Entry(Entry(itable, ii, dots.ip, p), mm, up(w.ip), None)
                  /\ \/ Goto(p, "opened", ii, 0, << Put(mm) >>)
                     \/ End(p, << Put(mm), Unlock(ii), Put(ii) >>)
               \/ /\ disk' = [w.d EXCEPT !.di[ii] = CreateFails(dots.ip)]
                  /\ itable' = Entry(Entry(itable, ii, CreateFails(dots.ip), None), mm, w.ip, p)
                  /\ End(p, << Put(ii), Unlock(mm), Put(mm) >>)
  <2>1. \E dots \in {IF dir THEN Dots(ii, ee, dd, mm) ELSE [ok |-> TRUE, ip |-> ee, d |-> dd]} :
        \E w \in {IF dots.ok THEN DirLink(mm, itable[mm].d, dots.d, Head(loc[p].path), ii)
                  ELSE [ok |-> FALSE, ip |-> itable[mm].d, d |-> dots.d]} : Ends(dots, w)
    BY DEF CreateNew
  <2> HIDE DEF Ends
  <2>2. PICK dots \in {IF dir THEN Dots(ii, ee, dd, mm) ELSE [ok |-> TRUE, ip |-> ee, d |-> dd]} :
        \E w \in {IF dots.ok THEN DirLink(mm, itable[mm].d, dots.d, Head(loc[p].path), ii)
                  ELSE [ok |-> FALSE, ip |-> itable[mm].d, d |-> dots.d]} : Ends(dots, w)
    BY <2>1
  <2>3. PICK w \in {IF dots.ok THEN DirLink(mm, itable[mm].d, dots.d, Head(loc[p].path), ii)
                    ELSE [ok |-> FALSE, ip |-> itable[mm].d, d |-> dots.d]} : Ends(dots, w)
    BY <2>2
  <2>4. ii = i /\ mm = m /\ ee = e1 /\ dd = d0 /\ itable[mm].d = u
    BY <1>4, <1>6, <1>7 DEF With
  <2>5. dots = IF dir THEN Dots(i, e1, d0, m) ELSE [ok |-> TRUE, ip |-> e1, d |-> d0]
    BY <2>2, <2>4
  <2>6. w = IF dots.ok THEN DirLink(m, u, dots.d, Head(loc[p].path), i)
            ELSE [ok |-> FALSE, ip |-> u, d |-> dots.d]
    BY <2>3, <2>4
  <2> HIDE DEF up, dir
  <2>7. \/ /\ disk' = With(w.d, m, up(w.ip))
           /\ itable' = Entry(Entry(itable, i, dots.ip, p), m, up(w.ip), None)
           /\ \/ Goto(p, "opened", i, 0, << Put(m) >>)
              \/ End(p, << Put(m), Unlock(i), Put(i) >>)
        \/ /\ disk' = With(w.d, i, CreateFails(dots.ip))
           /\ itable' = Entry(Entry(itable, i, CreateFails(dots.ip), None), m, w.ip, p)
           /\ End(p, << Put(i), Unlock(m), Put(m) >>)
    BY <2>3, <2>4 DEF With, Ends
  <2> QED
    BY <2>5, <2>6, <2>7
<1>10. Wrote(i, d0, dots)
  <2>1. CASE dir
    <3>1. dots = Dots(i, d0.di[i], d0, m) /\ d0.di[i].type # "free"
      BY <1>4, <1>6, <1>8, <1>9, <2>1
    <3> QED
      BY <1>8, <3>1, DotsIs, WritesWrote
  <2>2. CASE ~dir
    <3>1. dots.d = d0 /\ dots.ip = e1
      BY <1>9, <2>2
    <3> QED
      BY <1>8, <3>1 DEF Wrote
  <2> QED
    BY <2>1, <2>2
<1>11. PICK d1 \in DiskT, x \in DinodeT : d1 = dots.d /\ x = dots.ip
  BY <1>10 DEF Wrote
<1>12. /\ SlotsExact(d1) /\ d1.di[i] = x /\ x.type # "free" /\ d1.di[m] = u
       /\ \A j \in Inode \ {i, m} : d1.di[j] = disk.di[j]
  BY <1>4, <1>6, <1>8, <1>10, <1>11 DEF Wrote
<1>13. Wrote(m, d1, w)
  <2>1. CASE dots.ok
    <3>1. PICK name \in Elem : name = Head(loc[p].path)
      BY <1>4
    <3>2. d1.di[m].type # "free" /\ i \in 0 .. NInode
      BY <1>4, <1>12, Sizes DEF Inode
    <3>3. w = DirLink(m, u, dots.d, Head(loc[p].path), i)
      BY <1>9, <2>1
    <3>4. w = DirLink(m, d1.di[m], d1, name, i)
      BY <1>11, <1>12, <3>1, <3>3
    <3>5. WritesTo(m, d1, w)
      BY <1>12, <3>2, <3>4, DirLinkIs
    <3> QED
      BY <3>5, WritesWrote
  <2>2. CASE ~dots.ok
    <3>1. w.d = d1 /\ w.ip = u
      BY <1>9, <1>11, <2>2
    <3> QED
      BY <1>12, <3>1 DEF Wrote
  <2> QED
    BY <2>1, <2>2
<1>14. PICK d \in DiskT, y \in DinodeT : d = w.d /\ y = w.ip
  BY <1>13 DEF Wrote
<1>15. /\ SlotsExact(d) /\ d.di[m] = y /\ y.type # "free" /\ d.di[i] = x
       /\ \A j \in Inode \ {i, m} : d.di[j] = disk.di[j]
  BY <1>4, <1>12, <1>13, <1>14 DEF Wrote
<1>16. PICK y1 \in DinodeT, x1 \in DinodeT :
         /\ y1 = up(y) /\ y1.type = y.type /\ y1.addrs = y.addrs
         /\ x1 = CreateFails(x) /\ x1.type = x.type /\ x1.addrs = x.addrs
  <2>1. up(y) \in DinodeT /\ up(y).type = y.type /\ up(y).addrs = y.addrs
    BY SMTT(30) DEF DinodeT
  <2>2. CreateFails(x) \in DinodeT /\ CreateFails(x).type = x.type /\ CreateFails(x).addrs = x.addrs
    BY SMTT(30) DEF DinodeT, CreateFails
  <2> HIDE DEF up
  <2> QED
    BY <2>1, <2>2
<1>17. i \in {i, m} /\ m \in {i, m} /\ i # m /\ m # i /\ p \in {None, p} /\ None \in {None, p}
  BY <1>4
<1>18. CASE /\ disk' = With(d, m, y1) /\ itable' = Entry(Entry(itable, i, x, p), m, y1, None)
            /\ \/ Goto(p, "opened", i, 0, << Put(m) >>)
               \/ End(p, << Put(m), Unlock(i), Put(i) >>)
  <2>1. y1.type = d.di[m].type /\ y1.addrs = d.di[m].addrs /\ y1.type # "free"
    BY <1>15, <1>16
  <2>2. disk' = With(d, m, y1) /\ itable' = Entry(Entry(itable, i, x, p), m, y1, None)
    BY <1>18
  <2>3. /\ DiskGood /\ OthersOnDisk({i, m}) /\ disk'.di[m] = y1
        /\ \A j \in Inode \ {m} : disk'.di[j] = d.di[j]
    <3>1. SlotsExact(d) /\ disk' = With(d, m, y1)
      BY <1>15, <2>2
    <3>2. /\ disk' \in DiskT /\ SlotsExact(disk') /\ disk'.di[m] = y1
          /\ \A j \in Inode \ {m} : disk'.di[j] = d.di[j]
      BY <2>1, <3>1, WithSlots
    <3> QED
      BY <1>1, <1>15, <3>2 DEF DiskGood, OthersOnDisk
  <2>4. disk'.di[i] = x
    BY <1>4, <1>15, <2>3
  <2>5. /\ TableGood(p) /\ Gains(0)
        /\ \A j \in Inode : itable'[j].lock = p <=> (j = i /\ p = p) \/ (j = m /\ None = p)
    BY <1>3, <1>12, <1>17, <2>1, <2>2, <2>3, <2>4, PairTable
  <2>6. \A j \in Inode : itable'[j].lock = p <=> j = i
    BY <1>4, <2>5
  <2>7. CASE Goto(p, "opened", i, 0, << Put(m) >>)
    BY <1>1, <1>3, <1>5, <2>3, <2>5, <2>6, <2>7, PairGoto
  <2>8. CASE End(p, << Put(m), Unlock(i), Put(i) >>)
    BY <1>1, <1>3, <1>5, <1>17, <2>3, <2>5, <2>6, <2>8, PairEnd
  <2> QED
    BY <1>18, <2>7, <2>8
<1>19. CASE /\ disk' = With(d, i, x1) /\ itable' = Entry(Entry(itable, i, x1, None), m, y, p)
            /\ End(p, << Put(i), Unlock(m), Put(m) >>)
  <2>1. x1.type = d.di[i].type /\ x1.addrs = d.di[i].addrs /\ x1.type # "free"
    BY <1>12, <1>15, <1>16
  <2>2. disk' = With(d, i, x1) /\ itable' = Entry(Entry(itable, i, x1, None), m, y, p)
    BY <1>19
  <2>3. /\ DiskGood /\ OthersOnDisk({i, m}) /\ disk'.di[i] = x1
        /\ \A j \in Inode \ {i} : disk'.di[j] = d.di[j]
    <3>1. SlotsExact(d) /\ disk' = With(d, i, x1)
      BY <1>15, <2>2
    <3>2. /\ disk' \in DiskT /\ SlotsExact(disk') /\ disk'.di[i] = x1
          /\ \A j \in Inode \ {i} : disk'.di[j] = d.di[j]
      BY <2>1, <3>1, WithSlots
    <3> QED
      BY <1>1, <1>15, <3>2 DEF DiskGood, OthersOnDisk
  <2>4. disk'.di[m] = y /\ y.type # "free"
    BY <1>4, <1>15, <2>3
  <2>5. /\ TableGood(p) /\ Gains(0)
        /\ \A j \in Inode : itable'[j].lock = p <=> (j = i /\ None = p) \/ (j = m /\ p = p)
    BY <1>3, <1>17, <2>1, <2>2, <2>3, <2>4, PairTable
  <2>6. \A j \in Inode : itable'[j].lock = p <=> j = m
    BY <1>4, <2>5
  <2>7. DiskGood /\ TableGood(p) /\ Gains(0) /\ cwd' = cwd
    BY <1>1, <2>3, <2>5
  <2>8. End(p, << Put(i), Unlock(m), Put(m) >>)
    BY <1>19
  <2> QED
    BY <1>3, <1>5, <1>17, <2>6, <2>7, <2>8, PairEnd
<1> HIDE DEF up
<1> QED
  BY <1>9, <1>11, <1>14, <1>16, <1>18, <1>19

-----------------------------------------------------------------------------
(* Calls on open files, fork() and exit().                                 *)

\* A descriptor leads to an inode.
LEMMA OpenIs ==
    ASSUME FSInv, NEW p \in Proc, ofile[p] # 0
    PROVE  \E f \in File, i \in Inode : /\ f = ofile[p] /\ i = file[f].ip
                                        /\ file[f] \in FileT /\ file[f].ref >= 1
<1>1. PICK f \in File : f = ofile[p]
  BY Sizes DEF FSInv, FSType, File
<1>2. file[f] \in FileT
  BY DEF FSInv, FSType
<1>3. PICK S : S = {q \in Proc : ofile[q] = f}
  OBVIOUS
<1>4. IsFiniteSet(S)
  BY <1>3, Sizes, FS_Subset
<1>5. p \in S
  BY <1>1, <1>3
<1>6. file[f].ref >= 1
  BY <1>3, <1>4, <1>5, OneOrMore DEF FSInv, RefExact
<1>7. file[f].ip \in Inode
  BY <1>2, <1>6, Sizes DEF FSInv, FilesOK, FileT, Inode
<1> QED
  BY <1>1, <1>2, <1>6, <1>7

\* Only the offset of an open file changes.
LEMMA OffsetMoved ==
    ASSUME FSInv, NEW f \in File, NEW off \in Nat, ofile' = ofile,
           file' = [file EXCEPT ![f].off = off]
    PROVE  FilesSame
<1>1. file \in [File -> FileT]
  BY DEF FSInv, FSType
<1>2. file' \in [File -> FileT]
  BY <1>1 DEF FileT
<1>3. ASSUME NEW g \in File PROVE file'[g].ip = file[g].ip /\ file'[g].ref = file[g].ref
  BY <1>1 DEF FileT
<1> QED
  BY <1>2, <1>3 DEF FilesSame

LEMMA FileReadKeeps == ASSUME FSInv, NEW p \in Proc, FileRead(p) PROVE FSInv'
<1>1. /\ At(p, "none") /\ cwd[p] # 0 /\ ofile[p] # 0 /\ disk' = disk /\ stable' = stable
      /\ ofile' = ofile /\ cwd' = cwd /\ loc' = loc /\ todo' = todo
  BY DEF FileRead, Enters
<1>2. PICK f \in File, i \in Inode : /\ f = ofile[p] /\ i = file[f].ip
                                     /\ file[f] \in FileT /\ file[f].ref >= 1
  BY <1>1, OpenIs
<1>3. itable[i].lock = None /\ ~NoType(i)
  BY <1>2 DEF FileRead
<1>4. PICK e \in DinodeT : e = Ilocked(i) /\ e = disk.di[i] /\ e.type # "free"
  BY <1>3, LockedCopy
<1>5. /\ loc[p] \in LocT /\ todo[p] = << >> /\ loc[p].ip = 0 /\ loc[p].keep = 0
      /\ cwd[p] \in 0 .. NInode
      /\ \A j \in Inode : Ptr(loc[p], j) = 0 /\ itable[j].lock # p
  BY <1>1, EntersIs
<1>6. DiskGood /\ OthersOnDisk({i}) /\ disk'.di[i] = e
  BY <1>1, <1>4, SameDisk
<1>7. itable' = Entry(itable, i, e, None)
  BY <1>2, <1>4 DEF FileRead
<1>8. /\ TableGood(p) /\ Gains(0)
      /\ \A j \in Inode : j # i => itable'[j].lock = itable[j].lock
      /\ itable'[i].lock = None
  <2>1. itable[i].lock \in {None, p} /\ None \in {None, p}
    BY <1>3
  <2> QED
    BY <1>4, <1>6, <1>7, <2>1, TableEntry
<1>9. FilesSame
  <2>1. PICK off : off = file[f].off + Readi(e, file[f].off)
    OBVIOUS
  <2>2. off \in Nat
    BY <1>2, <2>1 DEF FileT, Readi
  <2>3. file' = [file EXCEPT ![f].off = off]
    BY <1>2, <1>4, <2>1 DEF FileRead
  <2> QED
    BY <1>1, <2>2, <2>3, OffsetMoved
<1>10. Goes(p, loc[p], << >>, cwd[p])
  <2>1. StageOK(loc[p], << >>, cwd[p], ofile'[p])
    BY <1>1, <1>5 DEF FSInv, Stage
  <2>2. /\ todo' = [todo EXCEPT ![p] = << >>] /\ cwd' = [cwd EXCEPT ![p] = cwd[p]]
        /\ loc' = [loc EXCEPT ![p] = loc[p]]
    BY <1>1, <1>5 DEF FSInv, FSType
  <2> QED
    BY <1>5, <2>1, <2>2, LeavesNone DEF Goes, Leaves
<1>11. LocksAre(p, loc[p], << >>)
  <2>1. \A j \in Inode : itable'[j].lock # p
    BY <1>5, <1>8, Sizes
  <2>2. loc[p].at = "none"
    BY <1>1 DEF At
  <2> QED
    BY <2>1, <2>2, LeavesNone DEF LocksAre, KeepsLocked
<1>12. Counted(p, loc[p], << >>, cwd[p])
  <2> SUFFICES ASSUME NEW j \in Inode
               PROVE  itable'[j].ref + Ptr(loc[p], j) + Is(cwd[p], j)
                        = itable[j].ref + Puts(<< >>, j) + Ptr(loc[p], j) + Is(cwd[p], j)
    BY DEF Counted
  <2>1. Is(0, j) = 0
    BY Sizes DEF Is, Inode
  <2>2. Puts(<< >>, j) = 0 /\ itable'[j].ref = itable[j].ref + 0 /\ Ptr(loc[p], j) = 0
    BY <1>5, <1>8, <2>1, LeavesNone DEF Gains
  <2>3. PICK r \in Int : r = itable[j].ref
    BY DEF FSInv, FSType, EntryT
  <2> QED
    BY <2>2, <2>3
<1> QED
  BY <1>5, <1>6, <1>8, <1>9, <1>10, <1>11, <1>12, CallStep

\* A process gets the local variables l, with no pointer in them or one that
\* has been counted elsewhere.
Begun(fn, at, i) == [Idle EXCEPT !.fn = fn, !.at = at, !.ip = i]

LEMMA BegunIs ==
    ASSUME NEW fn \in FnT, NEW at \in AtT, NEW i \in 0 .. NInode, NEW l, l = Begun(fn, at, i)
    PROVE  l \in LocT /\ l.fn = fn /\ l.at = at /\ l.ip = i /\ l.keep = 0
<1>1. PICK k : k = Idle
  OBVIOUS
<1>2. k \in LocT /\ k.keep = 0
  BY <1>1, Sizes DEF Idle, LocT, FnT, AtT, PathT
<1>3. l = [k EXCEPT !.fn = fn, !.at = at, !.ip = i]
  BY <1>1 DEF Begun
<1> QED
  BY <1>2, <1>3 DEF LocT

LEMMA FileWriteBeginKeeps == ASSUME FSInv, NEW p \in Proc, FileWriteBegin(p) PROVE FSInv'
<1>1. /\ At(p, "none") /\ cwd[p] # 0 /\ ofile[p] # 0 /\ disk' = disk /\ stable' = stable
      /\ ofile' = ofile /\ cwd' = cwd /\ itable' = itable /\ file' = file /\ todo' = todo
  BY DEF FileWriteBegin, Enters
<1>2. PICK f \in File, i \in Inode : /\ f = ofile[p] /\ i = file[f].ip
                                     /\ file[f] \in FileT /\ file[f].ref >= 1
  BY <1>1, OpenIs
<1>3. /\ todo[p] = << >> /\ cwd[p] \in 0 .. NInode
      /\ \A j \in Inode : Ptr(loc[p], j) = 0 /\ itable[j].lock # p
  BY <1>1, EntersIs
<1>4. PICK l : l = Begun("write", "write", i)
  OBVIOUS
<1>5. l \in LocT /\ l.fn = "write" /\ l.at = "write" /\ l.ip = i /\ l.keep = 0
  <2>1. "write" \in FnT /\ "write" \in AtT /\ i \in 0 .. NInode
    BY DEF FnT, AtT, Inode
  <2> QED
    BY <1>4, <2>1, BegunIs
<1>6. loc' = [loc EXCEPT ![p] = l]
  BY <1>2, <1>4 DEF FileWriteBegin, Begun
<1>7. DiskGood /\ FilesSame /\ TableGood(p) /\ Gains(0)
  BY <1>1, SameDisk, SameFiles, SameTable
<1>8. Goes(p, l, << >>, cwd[p])
  <2>1. StageOK(l, << >>, cwd[p], ofile'[p])
    BY <1>1, <1>5 DEF StageOK
  <2>2. todo' = [todo EXCEPT ![p] = << >>] /\ cwd' = [cwd EXCEPT ![p] = cwd[p]]
    BY <1>1, <1>3 DEF FSInv, FSType
  <2> QED
    BY <1>3, <1>5, <1>6, <2>1, <2>2, LeavesNone DEF Goes, Leaves
<1>9. LocksAre(p, l, << >>)
  BY <1>1, <1>3, <1>5, LeavesNone DEF LocksAre, KeepsLocked
<1>10. Counted(p, l, << >>, cwd[p])
  <2> SUFFICES ASSUME NEW j \in Inode
               PROVE  itable'[j].ref + Ptr(loc[p], j) + Is(cwd[p], j)
                        = itable[j].ref + Puts(<< >>, j) + Ptr(l, j) + Is(cwd[p], j)
    BY DEF Counted
  <2>1. Is(0, j) = 0
    BY Sizes DEF Is, Inode
  <2>2. Ptr(l, j) = 0 + 0
    BY <1>5, <2>1 DEF Ptr
  <2>3. Puts(<< >>, j) = 0 /\ Ptr(loc[p], j) = 0
    BY <1>3, LeavesNone
  <2>4. PICK r \in Int : r = itable[j].ref
    BY DEF FSInv, FSType, EntryT
  <2> QED
    BY <1>1, <2>2, <2>3, <2>4
<1> QED
  BY <1>3, <1>7, <1>8, <1>9, <1>10, CallStep

LEMMA FileWriteKeeps == ASSUME FSInv, NEW p \in Proc, FileWrite(p) PROVE FSInv'
<1>1. /\ Locks(p, "write") /\ stable' = stable /\ ofile' = ofile /\ cwd' = cwd
  BY DEF FileWrite
<1>2. /\ loc[p] \in LocT /\ loc[p].at = "write" /\ todo[p] = << >>
      /\ loc[p].ip \in Inode /\ cwd[p] \in Inode
      /\ StageOK(loc[p], << >>, cwd[p], ofile[p])
      /\ itable[loc[p].ip].lock = None
      /\ Ilocked(loc[p].ip) = disk.di[loc[p].ip]
      /\ disk.di[loc[p].ip] \in DinodeT /\ disk.di[loc[p].ip].type # "free"
      /\ \A j \in Inode : itable[j].lock = p <=> KeepsLocked(loc[p], j)
  BY <1>1, LocksIs
<1>3. PICK i \in Inode, e \in DinodeT :
        i = loc[p].ip /\ e = disk.di[i] /\ e = Ilocked(i) /\ e.type # "free"
  BY <1>2
<1>4. ofile[p] # 0 /\ loc[p].fn = "write" /\ loc[p].keep = 0
  BY <1>2 DEF StageOK
<1>5. PICK f \in File : f = ofile[p] /\ file[f] \in FileT
  BY <1>4, OpenIs
<1>6. disk \in DiskT /\ SlotsExact(disk) /\ file[f].off \in Nat
  BY <1>5 DEF FSInv, FSType, FileT
<1> DEFINE Does(good, w) ==
             /\ w = IF file[f].off > e.size THEN [ok |-> FALSE, ip |-> e, d |-> disk, b |-> 0]
                    ELSE Writei(i, e, disk, file[f].off, 1, good)
             /\ disk' = IF w.ok THEN [w.d EXCEPT !.ind[w.b] = Junk] ELSE w.d
             /\ itable' = Entry(itable, i, w.ip, None)
             /\ file' = [file EXCEPT ![f].off = IF w.ok THEN @ + 1 ELSE @]
             /\ End(p, << >>)
<1>7. PICK good \in BOOLEAN : \E w : Does(good, w)
  BY <1>3, <1>5 DEF FileWrite
<1>8. PICK w : Does(good, w)
  BY <1>7
<1>9. /\ Wrote(i, disk, w)
      /\ w.ok => w.b # 0 /\ \E k \in Slot \ {NDIRECT} : w.b = Addr(w.ip, w.d.ind, k)
  <2>1. CASE file[f].off > e.size
    <3>1. w.d = disk /\ w.ip = e /\ ~w.ok
      BY <1>8, <2>1
    <3> QED
      BY <1>3, <1>6, <3>1 DEF Wrote
  <2>2. CASE ~(file[f].off > e.size)
    <3>1. w = Writei(i, e, disk, file[f].off, 1, good)
      BY <1>8, <2>2
    <3>2. PICK off \in Nat, per \in Nat \ {0} : off = file[f].off /\ per = 1
      BY <1>6
    <3>3. w = Writei(i, disk.di[i], disk, off, per, good) /\ disk.di[i].type # "free"
      BY <1>3, <3>1, <3>2
    <3>4. /\ WritesTo(i, disk, w)
          /\ w.ok => w.b # 0 /\ \E k \in Slot \ {NDIRECT} : w.b = Addr(w.ip, w.d.ind, k)
      BY <1>6, <3>3, WriteiIs
    <3> QED
      BY <3>4, WritesWrote
  <2> QED
    BY <2>1, <2>2
<1>10. PICK d \in DiskT, y \in DinodeT, b \in {w.b} : d = w.d /\ y = w.ip /\ b = w.b
  BY <1>9 DEF Wrote
<1>11. /\ SlotsExact(d) /\ d.di[i] = y /\ y.type # "free"
       /\ \A j \in Inode \ {i} : d.di[j] = disk.di[j]
  BY <1>3, <1>9, <1>10 DEF Wrote
<1>12. disk' \in DiskT /\ SlotsExact(disk') /\ disk'.di = d.di
  <2>1. CASE w.ok
    <3>1. PICK k \in Slot \ {NDIRECT} : b = Addr(d.di[i], d.ind, k)
      BY <1>9, <1>10, <1>11, <2>1
    <3>2. PICK d1 : d1 = [d EXCEPT !.ind[b] = Junk]
      OBVIOUS
    <3>3. b # 0
      BY <1>9, <1>10, <2>1
    <3>4. d1 \in DiskT /\ SlotsExact(d1) /\ d1.di = d.di
      BY <1>11, <3>1, <3>2, <3>3, JunkWritten
    <3>5. disk' = d1
      BY <1>8, <1>10, <2>1, <3>2
    <3> QED
      BY <3>4, <3>5
  <2>2. CASE ~w.ok
    BY <1>8, <1>10, <1>11, <2>2
  <2> QED
    BY <2>1, <2>2
<1>13. DiskGood /\ disk'.di[i] = y /\ OthersOnDisk({i})
  BY <1>1, <1>11, <1>12 DEF DiskGood, OthersOnDisk
<1>14. /\ TableGood(p) /\ Gains(0)
       /\ \A j \in Inode : j # i => itable'[j].lock = itable[j].lock
       /\ itable'[i].lock = None
  <2>1. itable[i].lock \in {None, p} /\ None \in {None, p}
    BY <1>2, <1>3
  <2>2. itable' = Entry(itable, i, y, None)
    BY <1>8, <1>10
  <2> QED
    BY <1>11, <1>13, <2>1, <2>2, TableEntry
<1>15. FilesSame
  <2>1. PICK off : off = IF w.ok THEN file[f].off + 1 ELSE file[f].off
    OBVIOUS
  <2>2. off \in Nat
    BY <1>6, <2>1
  <2>3. file' = [file EXCEPT ![f].off = off]
    BY <1>8, <2>1
  <2> QED
    BY <1>1, <2>2, <2>3, OffsetMoved
<1>16. /\ todo' = [todo EXCEPT ![p] = << >>]
       /\ \E l \in LocT : /\ loc' = [loc EXCEPT ![p] = l]
                          /\ l.at = "end" /\ l.ip = 0 /\ l.keep = 0 /\ l.fn = loc[p].fn
  <2>1. /\ "end" \in AtT /\ 0 \in 0 .. NInode /\ Goto(p, "end", 0, 0, << >>)
        /\ loc \in [Proc -> LocT]
    BY <1>8, Sizes DEF AtT, End, FSInv, FSType
  <2> QED
    BY <2>1, GotoIs
<1>17. PICK l \in LocT : /\ loc' = [loc EXCEPT ![p] = l]
                         /\ l.at = "end" /\ l.ip = 0 /\ l.keep = 0 /\ l.fn = "write"
  BY <1>4, <1>16
<1>18. Goes(p, l, << >>, cwd[p])
  <2>1. cwd[p] # 0 /\ cwd[p] \in 0 .. NInode
    BY <1>2, Sizes DEF Inode
  <2>2. StageOK(l, << >>, cwd[p], ofile'[p])
    BY <1>17, <2>1 DEF StageOK
  <2>3. cwd' = [cwd EXCEPT ![p] = cwd[p]]
    BY <1>1 DEF FSInv, FSType
  <2> QED
    BY <1>16, <1>17, <2>1, <2>2, <2>3, LeavesNone DEF Goes, Leaves
<1>19. LocksAre(p, l, << >>)
  <2>1. \A j \in Inode : ~KeepsLocked(loc[p], j)
    BY <1>2 DEF KeepsLocked
  <2>2. \A j \in Inode : itable'[j].lock # p
    BY <1>2, <1>14, <2>1, Sizes
  <2> QED
    BY <1>17, <2>2, LeavesNone DEF LocksAre, KeepsLocked
<1>20. Counted(p, l, << >>, cwd[p])
  <2> SUFFICES ASSUME NEW j \in Inode
               PROVE  itable'[j].ref + Ptr(loc[p], j) + Is(cwd[p], j)
                        = itable[j].ref + Puts(<< >>, j) + Ptr(l, j) + Is(cwd[p], j)
    BY DEF Counted
  <2>1. Is(0, j) = 0
    BY Sizes DEF Is, Inode
  <2>2. Ptr(l, j) = 0 + 0 /\ Ptr(loc[p], j) = 0 + 0
    BY <1>4, <1>17, <2>1 DEF Ptr
  <2>3. Puts(<< >>, j) = 0 /\ itable'[j].ref = itable[j].ref + 0
    BY <1>14, <2>1, LeavesNone DEF Gains
  <2>4. PICK r \in Int : r = itable[j].ref
    BY DEF FSInv, FSType, EntryT
  <2> QED
    BY <2>2, <2>3, <2>4
<1> QED
  BY <1>2, <1>13, <1>14, <1>15, <1>18, <1>19, <1>20, CallStep

LEMMA FileClosePutKeeps == ASSUME FSInv, NEW p \in Proc, FileClosePut(p) PROVE FSInv'
<1>1. /\ At(p, "close") /\ End(p, << Put(loc[p].ip) >>) /\ disk' = disk /\ itable' = itable
      /\ stable' = stable /\ file' = file /\ ofile' = ofile /\ cwd' = cwd
  BY DEF FileClosePut, rest
<1>2. /\ todo[p] = << >> /\ loc[p].at = "close" /\ StageOK(loc[p], todo[p], cwd[p], ofile[p])
  BY <1>1 DEF At, FSInv, Stage
<1>3. loc[p].ip \in Inode /\ cwd[p] # 0 /\ loc[p].keep = 0 /\ loc[p].fn # "write"
  BY <1>2 DEF StageOK
<1>4. PICK i \in Inode, s \in {<< Put(loc[p].ip) >>} : i = loc[p].ip /\ s = << Put(i) >>
  BY <1>3
<1>5. Leaves(s) /\ \A j \in Inode : Puts(s, j) = Is(i, j) /\ ~Unlocks(s, j)
  BY <1>4, LeavesOne
<1>6. DiskGood /\ FilesSame /\ TableGood(p) /\ Gains(0)
  BY <1>1, SameDisk, SameFiles, SameTable
<1>7. \A j \in Inode : itable'[j].lock = p <=> Unlocks(s, j)
  BY <1>1, <1>2, <1>5, NothingLocked
<1>8. \A j \in Inode : Is(0, j) + Is(loc[p].ip, j) + Is(loc[p].keep, j) = Puts(s, j)
  <2> TAKE j \in Inode
  <2>1. Is(0, j) = 0 /\ Puts(s, j) = Is(i, j)
    BY <1>5, Sizes DEF Is, Inode
  <2>2. PICK a \in Int : a = Is(i, j)
    BY DEF Is
  <2>3. 0 + a + 0 = a
    BY ONLY a \in Int
  <2> QED
    BY <1>3, <1>4, <2>1, <2>2, <2>3
<1>9. End(p, s)
  BY <1>1, <1>4
<1> QED
  BY <1>1, <1>2, <1>3, <1>5, <1>6, <1>7, <1>8, <1>9, EndStep

LEMMA ExitKeeps == ASSUME FSInv, NEW p \in Proc, Exit(p) PROVE FSInv'
<1>1. /\ At(p, "none") /\ cwd[p] # 0 /\ ofile[p] = 0 /\ disk' = disk /\ stable' = stable
      /\ ofile' = ofile /\ itable' = itable /\ file' = file
      /\ cwd' = [cwd EXCEPT ![p] = 0] /\ todo' = [todo EXCEPT ![p] = << Put(cwd[p]) >>]
  BY DEF Exit, Enters
<1>2. /\ loc[p] \in LocT /\ todo[p] = << >> /\ cwd[p] \in Inode
      /\ \A j \in Inode : Ptr(loc[p], j) = 0 /\ itable[j].lock # p
  BY <1>1, EntersIs, Sizes DEF Inode
<1>3. PICK n \in Inode, s \in {<< Put(cwd[p]) >>} : n = cwd[p] /\ s = << Put(n) >>
  BY <1>2
<1>4. Leaves(s) /\ \A j \in Inode : Puts(s, j) = Is(n, j) /\ ~Unlocks(s, j)
  BY <1>3, LeavesOne
<1>5. PICK l : l = [Idle EXCEPT !.fn = "exit", !.at = "end"]
  OBVIOUS
<1>6. l \in LocT /\ l.fn = "exit" /\ l.at = "end" /\ l.ip = 0 /\ l.keep = 0
  <2>1. PICK k : k = Idle
    OBVIOUS
  <2>2. k \in LocT /\ k.keep = 0 /\ k.ip = 0
    BY <2>1, Sizes DEF Idle, LocT, FnT, AtT, PathT
  <2>3. l = [k EXCEPT !.fn = "exit", !.at = "end"]
    BY <1>5, <2>1
  <2> QED
    BY <2>2, <2>3 DEF LocT, FnT, AtT
<1>7. loc' = [loc EXCEPT ![p] = l]
  BY <1>5 DEF Exit
<1>8. DiskGood /\ FilesSame /\ TableGood(p)
  BY <1>1, SameDisk, SameFiles, SameTable
<1>9. Goes(p, l, s, 0)
  <2>1. StageOK(l, s, 0, ofile'[p])
    BY <1>1, <1>6 DEF StageOK
  <2>2. 0 \in 0 .. NInode
    BY Sizes
  <2> QED
    BY <1>1, <1>3, <1>4, <1>6, <1>7, <2>1, <2>2 DEF Goes, Leaves
<1>10. LocksAre(p, l, s)
  BY <1>1, <1>2, <1>4, <1>6 DEF LocksAre, KeepsLocked
<1>11. Counted(p, l, s, 0)
  <2> SUFFICES ASSUME NEW j \in Inode
               PROVE  itable'[j].ref + Ptr(loc[p], j) + Is(cwd[p], j)
                        = itable[j].ref + Puts(s, j) + Ptr(l, j) + Is(0, j)
    BY DEF Counted
  <2>1. Is(0, j) = 0
    BY Sizes DEF Is, Inode
  <2>2. Ptr(l, j) = 0 + 0 /\ Ptr(loc[p], j) = 0 /\ Puts(s, j) = Is(n, j)
    BY <1>2, <1>4, <1>6, <2>1 DEF Ptr
  <2>3. PICK r \in Int, a \in Int : r = itable[j].ref /\ a = Is(n, j)
    BY DEF FSInv, FSType, EntryT, Is
  <2>4. r + 0 + a = r + a + (0 + 0) + 0
    BY ONLY r \in Int, a \in Int
  <2> QED
    BY <1>1, <1>3, <2>1, <2>2, <2>3, <2>4
<1> QED
  BY <1>2, <1>8, <1>9, <1>10, <1>11, CallStep

\* close() of f by p, the entry of f becoming nf.
LEMMA Closed ==
    ASSUME FSInv, NEW p \in Proc, NEW f \in File, f = ofile[p], NEW nf \in FileT,
           nf.ref + 1 = file[f].ref, nf.ip = 0 <=> nf.ref = 0,
           file' = [file EXCEPT ![f] = nf], ofile' = [ofile EXCEPT ![p] = 0]
    PROVE  FilesMoved(p, 0) /\ file'[f] = nf /\ \A g \in File \ {f} : file'[g] = file[g]
<1>1. file \in [File -> FileT]
  BY DEF FSInv, FSType
<1>2. file'[f] = nf /\ \A g \in File \ {f} : file'[g] = file[g]
  BY <1>1
<1>3. file' \in [File -> FileT] /\ 0 \in 0 .. NFILE
  BY <1>1, Sizes
<1>4. \A g \in File : file'[g].ip = 0 <=> file'[g].ref = 0
  BY <1>2 DEF FSInv, FilesOK
<1>5. ASSUME NEW g \in File PROVE file'[g].ref + Is(ofile[p], g) = file[g].ref + Is(0, g)
  <2>1. Is(0, g) = 0
    BY Sizes DEF Is, File
  <2>2. file[g].ref \in Int /\ nf.ref \in Int
    BY <1>1 DEF FileT
  <2>3. CASE g = f
    BY <1>2, <2>1, <2>2, <2>3 DEF Is
  <2>4. CASE g # f
    BY <1>2, <2>1, <2>2, <2>4 DEF Is
  <2> QED
    BY <2>3, <2>4
<1> QED
  BY <1>2, <1>3, <1>4, <1>5 DEF FilesMoved

LEMMA FileCloseKeeps == ASSUME FSInv, NEW p \in Proc, FileClose(p) PROVE FSInv'
<1>1. /\ At(p, "none") /\ cwd[p] # 0 /\ ofile[p] # 0 /\ disk' = disk /\ stable' = stable
      /\ cwd' = cwd /\ itable' = itable /\ todo' = todo /\ ofile' = [ofile EXCEPT ![p] = 0]
  BY DEF FileClose, Enters
<1>2. PICK f \in File, i \in Inode : /\ f = ofile[p] /\ i = file[f].ip
                                     /\ file[f] \in FileT /\ file[f].ref >= 1
  BY <1>1, OpenIs
<1>3. /\ loc[p] \in LocT /\ todo[p] = << >> /\ cwd[p] \in 0 .. NInode
      /\ \A j \in Inode : Ptr(loc[p], j) = 0 /\ itable[j].lock # p
  BY <1>1, EntersIs
<1>4. DiskGood /\ TableGood(p)
  BY <1>1, SameDisk, SameTable
<1>5. ASSUME NEW l \in LocT, NEW nf \in FileT, loc' = [loc EXCEPT ![p] = l],
             file' = [file EXCEPT ![f] = nf], nf.ref + 1 = file[f].ref, nf.ip = 0 <=> nf.ref = 0,
             StageOK(l, << >>, cwd[p], 0), l.at \in {"none", "close"},
             \A j \in Inode : Is(i, j) = Ptr(l, j) + Is(nf.ip, j)
      PROVE  FSInv'
  <2>1. /\ FilesMoved(p, 0) /\ file'[f] = nf /\ \A g \in File \ {f} : file'[g] = file[g]
    <3>1. /\ f = ofile[p] /\ nf.ref + 1 = file[f].ref /\ (nf.ip = 0 <=> nf.ref = 0)
          /\ file' = [file EXCEPT ![f] = nf] /\ ofile' = [ofile EXCEPT ![p] = 0]
      BY <1>1, <1>2, <1>5
    <3> QED
      BY <3>1, Closed, ZenonT(30)
  <2>2. Goes(p, l, << >>, cwd[p])
    <3>1. ofile'[p] = 0
      BY <1>1 DEF FSInv, FSType
    <3>2. todo' = [todo EXCEPT ![p] = << >>] /\ cwd' = [cwd EXCEPT ![p] = cwd[p]]
      BY <1>1, <1>3 DEF FSInv, FSType
    <3> QED
      BY <1>3, <1>5, <3>1, <3>2, LeavesNone DEF Goes, Leaves
  <2>3. LocksAre(p, l, << >>)
    BY <1>1, <1>3, <1>5, LeavesNone DEF LocksAre, KeepsLocked
  <2>4. CountedFiles(p, l, << >>, cwd[p])
    <3> SUFFICES ASSUME NEW j \in Inode
                 PROVE  itable'[j].ref + Ptr(loc[p], j) + Is(cwd[p], j) + Cardinality(OpenFiles(j))
                          = itable[j].ref + Puts(<< >>, j) + Ptr(l, j) + Is(cwd[p], j)
                              + Cardinality(OpenFiles(j)')
      BY DEF CountedFiles
    <3>1. Ptr(loc[p], j) = 0 /\ Puts(<< >>, j) = 0
      BY <1>3, LeavesNone
    <3>2. /\ Cardinality(OpenFiles(j)) \in Int /\ Cardinality(OpenFiles(j)') \in Int
          /\ Cardinality(OpenFiles(j)') + Is(file[f].ip, j)
               = Cardinality(OpenFiles(j)) + Is(file'[f].ip, j)
      BY <2>1, OpenFilesStep
    <3>3. PICK n \in Int, n1 \in Int :
            n = Cardinality(OpenFiles(j)) /\ n1 = Cardinality(OpenFiles(j)')
      BY <3>2
    <3>4. PICK a \in Int, b \in Int, c \in Int, x \in Int :
            a = Is(i, j) /\ b = Is(cwd[p], j) /\ c = Is(nf.ip, j) /\ x = Ptr(l, j)
      BY DEF Is, Ptr
    <3>5. n1 + a = n + c /\ a = x + c
      BY <1>2, <1>5, <2>1, <3>2, <3>3, <3>4
    <3>6. PICK r \in Int : r = itable[j].ref
      BY DEF FSInv, FSType, EntryT
    <3>7. r + 0 + b + n = r + 0 + x + b + n1
      BY ONLY <3>5, r \in Int, a \in Int, b \in Int, c \in Int, x \in Int, n \in Int, n1 \in Int
    <3> QED
      BY <1>1, <3>1, <3>3, <3>4, <3>6, <3>7
  <2> QED
    BY <1>3, <1>4, <2>1, <2>2, <2>3, <2>4, FileStep
<1>6. CASE file[f].ref > 1 /\ file' = [file EXCEPT ![f].ref = @ - 1] /\ loc' = loc
  <2>1. PICK nf : nf = [file[f] EXCEPT !.ref = @ - 1]
    OBVIOUS
  <2>2. nf \in FileT /\ nf.ref = file[f].ref - 1 /\ nf.ip = i
    BY <1>2, <2>1 DEF FileT
  <2>3. file[f].ref \in Int /\ nf.ref \in Int
    BY <1>2, <2>2 DEF FileT
  <2>4. nf.ref + 1 = file[f].ref /\ nf.ref # 0
    BY <1>6, <2>2, <2>3
  <2>5. i # 0
    BY Sizes DEF Inode
  <2>6. file' = [file EXCEPT ![f] = nf] /\ loc' = [loc EXCEPT ![p] = loc[p]]
    BY <1>6, <2>1 DEF FSInv, FSType
  <2>7. loc[p].at = "none" /\ StageOK(loc[p], << >>, cwd[p], 0)
    BY <1>1, <1>3 DEF FSInv, Stage, StageOK, At
  <2>8. ASSUME NEW j \in Inode PROVE Is(i, j) = Ptr(loc[p], j) + Is(nf.ip, j)
    BY <1>3, <2>2 DEF Is
  <2>9. nf.ip = 0 <=> nf.ref = 0
    BY <2>2, <2>4, <2>5
  <2> QED
    BY <1>3, <1>5, <2>2, <2>4, <2>6, <2>7, <2>8, <2>9
<1>7. CASE /\ file[f].ref = 1 /\ file' = [file EXCEPT ![f] = NoFile]
           /\ loc' = [loc EXCEPT ![p] = [Idle EXCEPT !.fn = "close", !.at = "close", !.ip = i]]
  <2>1. PICK l, nf : l = Begun("close", "close", i) /\ nf = NoFile
    OBVIOUS
  <2>2. l \in LocT /\ l.fn = "close" /\ l.at = "close" /\ l.ip = i /\ l.keep = 0
    <3>1. "close" \in FnT /\ "close" \in AtT /\ i \in 0 .. NInode
      BY DEF FnT, AtT, Inode
    <3> QED
      BY <2>1, <3>1, BegunIs
  <2>3. nf \in FileT /\ nf.ref = 0 /\ nf.ip = 0
    BY <2>1, Sizes DEF NoFile, FileT
  <2>4. file' = [file EXCEPT ![f] = nf] /\ loc' = [loc EXCEPT ![p] = l]
    BY <1>7, <2>1 DEF Begun
  <2>5. StageOK(l, << >>, cwd[p], 0)
    BY <1>1, <2>2 DEF StageOK
  <2>6. ASSUME NEW j \in Inode PROVE Is(i, j) = Ptr(l, j) + Is(nf.ip, j)
    <3>1. Is(0, j) = 0
      BY Sizes DEF Is, Inode
    <3>2. Ptr(l, j) = Is(i, j) + 0 /\ Is(i, j) \in Int
      BY <2>2, <3>1 DEF Ptr, Is
    <3> QED
      BY <2>3, <3>1, <3>2
  <2>7. nf.ref + 1 = file[f].ref /\ (nf.ip = 0 <=> nf.ref = 0) /\ l.at \in {"none", "close"}
    BY <1>7, <2>2, <2>3
  <2> QED
    BY <1>5, <2>2, <2>3, <2>4, <2>5, <2>6, <2>7
<1> QED
  BY <1>2, <1>6, <1>7 DEF FileClose

LEMMA ForkKeeps == ASSUME FSInv, NEW p \in Proc, NEW q \in Proc, Fork(p, q) PROVE FSInv'
<1>1. /\ At(p, "none") /\ cwd[p] # 0 /\ cwd[q] = 0 /\ loc[q] = Idle /\ disk' = disk
      /\ stable' = stable /\ loc' = loc /\ todo' = todo /\ cwd' = [cwd EXCEPT ![q] = cwd[p]]
      /\ itable' = Iget(itable, cwd[p]) /\ ofile' = [ofile EXCEPT ![q] = ofile[p]]
      /\ file' = [f \in File |-> IF f = ofile[p] THEN [file[f] EXCEPT !.ref = @ + 1] ELSE file[f]]
  BY DEF Fork, Enters
<1>2. cwd[p] \in Inode
  BY <1>1, Sizes DEF FSInv, FSType, Inode
<1>3. Idle.at = "none"
  BY DEF Idle
<1>4. At(q, "none")
  <2>1. ~panic /\ loc[q].at = "none"
    BY <1>1, <1>3 DEF At
  <2>2. todo[q] = << >>
    BY <2>1 DEF FSInv, Stage, StageOK
  <2> QED
    BY <2>1, <2>2 DEF At
<1>5. /\ loc[q] \in LocT /\ todo[q] = << >>
      /\ \A j \in Inode : Ptr(loc[q], j) = 0 /\ itable[j].lock # q
  BY <1>4, EntersIs
<1>6. PICK n \in Inode : n = cwd[p]
  BY <1>2
<1>7. TableGood(q) /\ Gains(n) /\ \A j \in Inode : itable'[j].lock # q
  BY <1>1, <1>5, <1>6, TableDup
<1>8. DiskGood
  BY <1>1, SameDisk
<1>9. StageOK(loc[q], << >>, cwd[q], ofile[q]) /\ loc[q].at = "none"
  BY <1>4, <1>5 DEF FSInv, Stage, At
<1>10. ofile[q] = 0 /\ loc[q].ip = 0 /\ loc[q].keep = 0 /\ loc[q].fn # "write"
  BY <1>1, <1>9 DEF StageOK
<1>11. PICK x \in 0 .. NFILE : x = ofile[p]
  BY DEF FSInv, FSType
<1>12. ASSUME NEW f \in File
       PROVE  /\ file'[f] \in FileT /\ file'[f].ip = file[f].ip
              /\ file'[f].ref = file[f].ref + Is(x, f) /\ file[f].ref \in Int
  <2>1. file[f] \in FileT
    BY DEF FSInv, FSType
  <2>2. CASE f = x
    <3>1. file'[f] = [file[f] EXCEPT !.ref = @ + 1]
      BY <1>1, <1>11, <2>2
    <3> QED
      BY <2>1, <2>2, <3>1 DEF FileT, Is
  <2>3. CASE f # x
    <3>1. file'[f] = file[f]
      BY <1>1, <1>11, <2>3
    <3> QED
      BY <2>1, <2>3, <3>1 DEF FileT, Is
  <2> QED
    BY <2>2, <2>3
<1>13. FilesMoved(q, x)
  <2>1. file' \in [File -> FileT]
    <3>1. file' = [f \in File |-> file'[f]]
      BY <1>1
    <3> QED
      BY <1>12, <3>1
  <2>2. ASSUME NEW f \in File PROVE file'[f].ip = 0 <=> file'[f].ref = 0
    <3>1. CASE f = x
      <4>1. ofile[p] # 0
        BY <1>11, <3>1, Sizes DEF File
      <4>2. file[f].ref >= 1 /\ file[f].ip \in Inode
        BY <1>11, <3>1, <4>1, OpenIs
      <4>3. file[f].ip # 0
        BY <4>2, Sizes DEF Inode
      <4>4. file'[f].ref = file[f].ref + 1
        BY <1>12, <3>1 DEF Is
      <4> QED
        BY <1>12, <4>2, <4>3, <4>4
    <3>2. CASE f # x
      <4>1. file'[f].ref = file[f].ref + 0
        BY <1>12, <3>2 DEF Is
      <4> QED
        BY <1>12, <4>1 DEF FSInv, FilesOK
    <3> QED
      BY <3>1, <3>2
  <2>3. ASSUME NEW f \in File PROVE file'[f].ref + Is(ofile[q], f) = file[f].ref + Is(x, f)
    <3>1. Is(0, f) = 0
      BY Sizes DEF Is, File
    <3>2. Is(x, f) \in Int
      BY DEF Is
    <3> QED
      BY <1>10, <1>12, <3>1, <3>2
  <2> QED
    BY <1>1, <1>11, <2>1, <2>2, <2>3 DEF FilesMoved
<1>14. Goes(q, loc[q], << >>, n)
  <2>1. n # 0 /\ n \in 0 .. NInode
    BY Sizes DEF Inode
  <2>2. StageOK(loc[q], << >>, n, ofile'[q])
    BY <1>9, <1>10, <2>1 DEF StageOK
  <2>3. todo' = [todo EXCEPT ![q] = << >>] /\ loc' = [loc EXCEPT ![q] = loc[q]]
    BY <1>1, <1>5 DEF FSInv, FSType
  <2> QED
    BY <1>1, <1>5, <1>6, <2>1, <2>2, <2>3, LeavesNone DEF Goes, Leaves
<1>15. LocksAre(q, loc[q], << >>)
  BY <1>7, <1>9, LeavesNone DEF LocksAre, KeepsLocked
<1>16. CountedFiles(q, loc[q], << >>, n)
  <2> SUFFICES ASSUME NEW j \in Inode
               PROVE  itable'[j].ref + Ptr(loc[q], j) + Is(cwd[q], j) + Cardinality(OpenFiles(j))
                        = itable[j].ref + Puts(<< >>, j) + Ptr(loc[q], j) + Is(n, j)
                            + Cardinality(OpenFiles(j)')
    BY DEF CountedFiles
  <2>1. Is(0, j) = 0 /\ Ptr(loc[q], j) = 0 /\ Puts(<< >>, j) = 0
    BY <1>5, LeavesNone, Sizes DEF Is, Inode
  <2>2. OpenFiles(j)' = OpenFiles(j)
    BY <1>12 DEF OpenFiles
  <2>3. PICK r \in Int, a \in Int : r = itable[j].ref /\ a = Is(n, j)
    BY DEF FSInv, FSType, EntryT, Is
  <2>4. Cardinality(OpenFiles(j)) \in Nat
    BY FilesFinite
  <2>5. PICK c \in Int : c = Cardinality(OpenFiles(j))
    BY <2>4
  <2>6. itable'[j].ref = r + a
    BY <1>7, <2>3 DEF Gains
  <2>7. (r + a) + 0 + 0 + c = r + 0 + 0 + a + c
    BY ONLY r \in Int, a \in Int, c \in Int
  <2> QED
    BY <1>1, <2>1, <2>2, <2>3, <2>5, <2>6, <2>7
<1> QED
  BY <1>5, <1>7, <1>8, <1>13, <1>14, <1>15, <1>16, FileStep

-----------------------------------------------------------------------------
(* The first state, and the state after a crash.                           *)

\* Every process is in the directory c and in no call, and has the first open
\* file, on inode x, if o is 1; nothing has been read into memory.
FreshWith(c, o, x) ==
    /\ itable \in [Inode -> EntryT] /\ file \in [File -> FileT]
    /\ \A i \in Inode : /\ itable[i].ref = (IF i = c THEN Cardinality(Proc) ELSE 0)
                                             + (IF o = 1 /\ i = x THEN 1 ELSE 0)
                        /\ ~itable[i].valid /\ itable[i].lock = None
    /\ \A f \in File : IF o = 1 /\ f = 1 THEN file[f].ref = Cardinality(Proc) /\ file[f].ip = x
                       ELSE file[f].ref = 0 /\ file[f].ip = 0
    /\ ofile = [p \in Proc |-> o] /\ cwd = [p \in Proc |-> c]
    /\ loc = [p \in Proc |-> Idle] /\ todo = [p \in Proc |-> << >>]
    /\ disk \in DiskT /\ SlotsExact(disk) /\ stable = disk
Fresh == \E c \in Inode, o \in {0, 1}, x \in Inode : FreshWith(c, o, x)

LEMMA FreshGood == Fresh => FSInv
<1> SUFFICES ASSUME NEW c \in Inode, NEW o \in {0, 1}, NEW x \in Inode, FreshWith(c, o, x)
             PROVE  FSInv
  BY DEF Fresh
<1>1. /\ itable \in [Inode -> EntryT] /\ file \in [File -> FileT]
      /\ ofile = [p \in Proc |-> o] /\ cwd = [p \in Proc |-> c]
      /\ loc = [p \in Proc |-> Idle] /\ todo = [p \in Proc |-> << >>]
      /\ disk \in DiskT /\ SlotsExact(disk) /\ stable = disk
  BY DEF FreshWith
<1>2. /\ Idle \in LocT /\ Idle.at = "none" /\ Idle.ip = 0 /\ Idle.keep = 0 /\ Idle.fn = "none"
  BY Sizes DEF Idle, LocT, FnT, AtT, PathT
<1>3. PICK idle : idle = Idle
  OBVIOUS
<1>4. \A p \in Proc : loc[p] = idle /\ todo[p] = << >> /\ cwd[p] = c /\ ofile[p] = o
  BY <1>1, <1>3
<1>5. Cardinality(Proc) \in Nat /\ Cardinality(Proc) >= 1
  <2>1. PICK p : p \in Proc
    BY FSAssumption
  <2> QED
    BY <2>1, Sizes, OneOrMore, FS_CardinalityType
<1>6. c # 0 /\ x # 0 /\ c \in 0 .. NInode /\ o \in 0 .. NFILE
  BY Sizes DEF Inode
<1>7. FSType
  <2>1. ofile \in [Proc -> 0 .. NFILE] /\ cwd \in [Proc -> 0 .. NInode]
    BY <1>1, <1>6
  <2>2. loc \in [Proc -> LocT]
    BY <1>1, <1>2
  <2>3. todo \in [Proc -> Seq(CallT)]
    BY <1>1, NoCalls
  <2> QED
    BY <1>1, <2>1, <2>2, <2>3 DEF FSType
<1>8. ASSUME NEW p \in Proc PROVE Stage(p) /\ CallsOK(todo[p])
  <2>1. StageOK(idle, << >>, c, o)
    BY <1>2, <1>3, <1>6 DEF StageOK
  <2> QED
    BY <1>4, <2>1, NoCalls DEF Stage
<1>9. LocksExact /\ MemoryExact
  <2>1. \A i \in Inode : itable[i].lock = None /\ ~itable[i].valid
    BY DEF FreshWith
  <2>2. ASSUME NEW p \in Proc, NEW i \in Inode PROVE ~HasLocked(p, i)
    BY <1>2, <1>3, <1>4, NoCalls DEF HasLocked, KeepsLocked
  <2> QED
    BY <2>1, <2>2, Sizes DEF LocksExact, MemoryExact
<1>10. FilesOK
  BY <1>5, <1>6 DEF FreshWith, FilesOK
<1>11. ASSUME NEW i \in Inode
       PROVE  itable[i].ref = Cardinality(Pointers(i)) + Cardinality(OpenFiles(i))
  <2>1. PICK h : h = [q \in Proc |-> Held(q, i)]
    OBVIOUS
  <2>2. h \in [Proc -> Nat] /\ Pointers(i) = Tot(h, Proc)
    BY <1>7, <2>1, PointersTot
  <2>3. ASSUME NEW q \in Proc PROVE h[q] = Is(c, i)
    <3>1. Is(0, i) = 0 /\ Is(c, i) \in Int /\ Puts(<< >>, i) = 0
      BY Sizes, PutsEmpty DEF Is, Inode
    <3>2. Held(q, i) = 0 + 0 + 0 + Is(c, i)
      BY <1>2, <1>3, <1>4, <3>1 DEF Held
    <3> QED
      BY <2>1, <3>1, <3>2
  <2>4. Cardinality(Tot(h, Proc)) = IF i = c THEN Cardinality(Proc) ELSE 0
    <3>1. CASE i = c
      <4>1. \A q \in Proc : h[q] = 1
        BY <2>3, <3>1 DEF Is
      <4> QED
        BY <2>2, <3>1, <4>1, TotSame
    <3>2. CASE i # c
      <4>1. \A q \in Proc : h[q] = 0
        BY <2>3, <3>2 DEF Is
      <4> QED
        BY <2>2, <3>2, <4>1, TotSame
    <3> QED
      BY <3>1, <3>2
  <2>5. i # 0 /\ 1 \in File
    BY Sizes DEF Inode, File
  <2>6. Cardinality(OpenFiles(i)) = IF o = 1 /\ i = x THEN 1 ELSE 0
    <3>1. CASE o = 1 /\ i = x
      <4>1. OpenFiles(i) = {1}
        BY <2>5, <3>1 DEF OpenFiles, FreshWith
      <4> QED
        BY <3>1, <4>1, FS_Singleton
    <3>2. CASE ~(o = 1 /\ i = x)
      <4>1. OpenFiles(i) = {}
        BY <2>5, <3>2 DEF OpenFiles, FreshWith
      <4> QED
        BY <3>2, <4>1, FS_EmptySet
    <3> QED
      BY <3>1, <3>2
  <2> QED
    BY <2>2, <2>4, <2>6 DEF FreshWith
<1>12. ASSUME NEW f \in File PROVE file[f].ref = Cardinality({p \in Proc : ofile[p] = f})
  <2>1. f # 0
    BY Sizes DEF File
  <2>2. CASE o = 1 /\ f = 1
    <3>1. {p \in Proc : ofile[p] = f} = Proc
      BY <1>4, <2>2
    <3> QED
      BY <2>2, <3>1 DEF FreshWith
  <2>3. CASE ~(o = 1 /\ f = 1)
    <3>1. {p \in Proc : ofile[p] = f} = {}
      BY <1>4, <2>1, <2>3
    <3>2. file[f].ref = 0
      BY <2>3 DEF FreshWith
    <3> QED
      BY <3>1, <3>2, FS_EmptySet
  <2> QED
    BY <2>2, <2>3
<1>13. RefExact
  BY <1>11, <1>12 DEF RefExact
<1> QED
  BY <1>1, <1>7, <1>8, <1>9, <1>10, <1>13 DEF FSInv

LEMMA CrashKeeps == ASSUME FSInv, Crash PROVE FSInv'
<1>1. /\ disk' = stable /\ stable' = stable
      /\ itable' = [i \in Inode |-> [ref |-> IF i = ROOTINO THEN Cardinality(Proc) ELSE 0,
                                     valid |-> FALSE, lock |-> None, d |-> Dinode("free", 0)]]
      /\ file' = [f \in File |-> NoFile] /\ ofile' = [p \in Proc |-> 0]
      /\ cwd' = [p \in Proc |-> ROOTINO] /\ loc' = [p \in Proc |-> Idle]
      /\ todo' = [p \in Proc |-> << >>]
  BY DEF Crash
<1>2. Cardinality(Proc) \in Nat
  BY Sizes, FS_CardinalityType
<1>3. PICK d0 \in DinodeT : d0 = Dinode("free", 0)
  <2>1. "free" \in TypeT /\ 0 \in Int
    BY DEF TypeT
  <2> QED
    BY <2>1, DinodeIs
<1>4. PICK r \in Inode : r = ROOTINO
  BY Sizes DEF ROOTINO, Inode
<1>5. itable' = [i \in Inode |-> [ref |-> IF i = r THEN Cardinality(Proc) ELSE 0,
                                  valid |-> FALSE, lock |-> None, d |-> d0]]
  BY <1>1, <1>3, <1>4
<1>6. itable' \in [Inode -> EntryT]
  BY <1>2, <1>5 DEF EntryT
<1>7. \A i \in Inode : /\ itable'[i].ref = (IF i = r THEN Cardinality(Proc) ELSE 0)
                                             + (IF 0 = 1 /\ i = r THEN 1 ELSE 0)
                       /\ ~itable'[i].valid /\ itable'[i].lock = None
  BY <1>2, <1>5
<1>8. NoFile \in FileT /\ NoFile.ref = 0 /\ NoFile.ip = 0
  BY Sizes DEF NoFile, FileT
<1>9. /\ file' \in [File -> FileT]
      /\ \A f \in File : file'[f].ref = 0 /\ file'[f].ip = 0
  BY <1>1, <1>8
<1>10. disk' \in DiskT /\ SlotsExact(disk') /\ stable' = disk'
  BY <1>1 DEF FSInv, FSType
<1>11. FreshWith(r, 0, r)'
  BY <1>1, <1>4, <1>6, <1>7, <1>9, <1>10 DEF FreshWith
<1>12. Fresh'
  BY <1>11 DEF Fresh
<1>13. Fresh' => FSInv'
  BY FreshGood, PTL
<1> QED
  BY <1>12, <1>13

\* The blocks of the first disk: block i is the only one of inode i, for the
\* first n inodes.
LEMMA FirstSlots ==
    ASSUME NEW d \in DiskT, NEW n \in {2, 3}, d.used = 1 .. n,
           \A i \in Inode : /\ d.di[i].addrs[0] = IF i <= n THEN i ELSE 0
                            /\ \A k \in 1 .. NDIRECT : d.di[i].addrs[k] = 0,
           \A i \in Inode : d.di[i].type = "free" => i > 3
    PROVE  SlotsExact(d)
<1>1. ASSUME NEW i \in Inode, NEW k \in Slot
      PROVE  Map(d)[i][k] = IF k = 0 /\ i <= n THEN i ELSE 0
  <2>1. Map(d)[i][k] = Addr(d.di[i], d.ind, k)
    BY MapIs
  <2>2. NDIRECT \in 1 .. NDIRECT
    BY Sizes
  <2>3. d.di[i].addrs[NDIRECT] = 0
    BY <2>2
  <2>4. CASE k = 0
    BY <2>1, <2>4, Sizes DEF Addr
  <2>5. CASE k \in 1 .. NDIRECT
    <3>1. d.di[i].addrs[k] = 0 /\ k <= NDIRECT /\ k # 0
      BY <2>5, Sizes
    <3> QED
      BY <2>1, <3>1 DEF Addr
  <2>6. CASE k > NDIRECT
    <3>1. ~(k <= NDIRECT) /\ k # 0
      BY <2>6, Sizes DEF Slot
    <3> QED
      BY <2>1, <2>3, <3>1 DEF Addr
  <2>7. k = 0 \/ k \in 1 .. NDIRECT \/ k > NDIRECT
    BY Sizes DEF Slot
  <2> QED
    BY <2>4, <2>5, <2>6, <2>7
<1>2. PICK A : A = Map(d)
  OBVIOUS
<1>3. \A i \in Inode, k \in Slot : A[i][k] = IF k = 0 /\ i <= n THEN i ELSE 0
  BY <1>1, <1>2
<1>4. \A i \in Inode, k \in Slot : A[i][k] # 0 => A[i][k] \in 1 .. n
  BY <1>3 DEF Inode
<1>5. \A b \in 1 .. n : \E i \in Inode, k \in Slot : A[i][k] = b
  <2> SUFFICES ASSUME NEW b \in 1 .. n PROVE \E i \in Inode, k \in Slot : A[i][k] = b
    OBVIOUS
  <2>1. b \in Inode /\ 0 \in Slot
    BY Sizes DEF Inode, Slot
  <2>2. A[b][0] = b
    BY <1>3, <2>1
  <2> QED
    BY <2>1, <2>2
<1>6. \A i, j \in Inode, k, l \in Slot : A[i][k] # 0 /\ A[i][k] = A[j][l] => i = j /\ k = l
  BY <1>3, Sizes DEF Inode
<1>7. Exact(A, d.used)
  BY <1>4, <1>5, <1>6 DEF Exact
<1>8. ASSUME NEW i \in Inode, d.di[i].type = "free", NEW k \in 0 .. NDIRECT
      PROVE  d.di[i].addrs[k] = 0
  <2>1. i > 3
    BY <1>8
  <2>2. k = 0 \/ k \in 1 .. NDIRECT
    BY Sizes
  <2> QED
    BY <2>1, <2>2 DEF Inode
<1> QED
  BY <1>2, <1>7, <1>8 DEF SlotsExact

\* The directories of the first disk.
LEMMA FirstEntries ==
    ASSUME NEW a \in Inode, NEW b \in Inode, NEW name \in Name, NEW c \in Inode
    PROVE  /\ DirEntries(a, b, << De(name, c) >>) \in Seq(DirentT)
           /\ DirEntries(a, b, << >>) \in Seq(DirentT)
<1>1. ASSUME NEW m \in Elem, NEW i \in Inode PROVE De(m, i) \in DirentT
  <2>1. i \in 0 .. NInode
    BY Sizes DEF Inode
  <2> QED
    BY <2>1 DEF De, DirentT
<1>2. "." \in Elem /\ ".." \in Elem /\ name \in Elem
  BY DEF Elem
<1>3. De(".", a) \in DirentT /\ De("..", b) \in DirentT /\ De(name, c) \in DirentT
  BY <1>1, <1>2
<1>4. PICK x \in DirentT, y \in DirentT, z \in DirentT :
        x = De(".", a) /\ y = De("..", b) /\ z = De(name, c)
  BY <1>3
<1>5. << x, y >> \in Seq(DirentT) /\ << z >> \in Seq(DirentT) /\ << >> \in Seq(DirentT)
  OBVIOUS
<1>6. PICK s \in Seq(DirentT), t \in Seq(DirentT), u \in Seq(DirentT) :
        s = << x, y >> /\ t = << z >> /\ u = << >>
  BY <1>5
<1>7. s \o t \in Seq(DirentT) /\ s \o u \in Seq(DirentT)
  OBVIOUS
<1>8. << x, y >> \o << z >> \in Seq(DirentT) /\ << x, y >> \o << >> \in Seq(DirentT)
  BY <1>6, <1>7
<1> QED
  BY <1>4, <1>8 DEF DirEntries

\* What Init says of one directory.
LEMMA FirstDinode ==
    ASSUME NEW nlink \in Int, NEW size \in Int, NEW b \in 1 .. 3, NEW ip,
           ip = DirInode(nlink, size, b)
    PROVE  /\ ip \in DinodeT /\ ip.type = "dir" /\ ip.addrs[0] = b
           /\ \A k \in 1 .. NDIRECT : ip.addrs[k] = 0
<1>1. "dir" \in TypeT
  BY DEF TypeT
<1>2. PICK e : e = Dinode("dir", nlink)
  OBVIOUS
<1>3. e \in DinodeT /\ e.type = "dir" /\ \A k \in 0 .. NDIRECT : e.addrs[k] = 0
  BY <1>1, <1>2, DinodeIs
<1>4. ip = [e EXCEPT !.size = size, !.addrs[0] = b]
  BY <1>2 DEF DirInode
<1>5. 0 \in 0 .. NDIRECT /\ b \in 0 .. NBlock
  BY Sizes
<1>6. PICK addrs : addrs = [e.addrs EXCEPT ![0] = b]
  OBVIOUS
<1>7. e.addrs \in [0 .. NDIRECT -> 0 .. NBlock]
  BY <1>3, AddrsIs
<1>8. /\ addrs \in [0 .. NDIRECT -> 0 .. NBlock] /\ addrs[0] = b
      /\ \A k \in 1 .. NDIRECT : addrs[k] = 0
  <2>1. PICK S, T : S = 0 .. NDIRECT /\ T = 0 .. NBlock
    OBVIOUS
  <2>2. PICK f \in [S -> T] : f = e.addrs
    BY <1>7, <2>1
  <2>3. addrs \in [S -> T] /\ addrs[0] = b /\ \A k \in S \ {0} : addrs[k] = f[k]
    BY <1>5, <1>6, <2>1, <2>2
  <2>4. \A k \in 1 .. NDIRECT : k \in S \ {0} /\ k \in 0 .. NDIRECT
    BY <2>1, Sizes
  <2> QED
    BY <1>3, <2>1, <2>2, <2>3, <2>4
<1>9. ip = [[e EXCEPT !.size = size] EXCEPT !.addrs[0] = b]
  BY <1>4
<1>10. PICK g : g = [e EXCEPT !.size = size]
  OBVIOUS
<1>11. g \in DinodeT /\ g.type = "dir" /\ g.addrs = e.addrs
  BY <1>3, <1>10 DEF DinodeT
<1>12. ip = [g EXCEPT !.addrs = addrs]
  BY <1>6, <1>9, <1>10, <1>11 DEF DinodeT
<1>13. ip \in DinodeT /\ ip.type = "dir" /\ ip.addrs = addrs
  BY <1>8, <1>11, <1>12 DEF DinodeT
<1> QED
  BY <1>8, <1>13

\* The first disk is in order.
LEMMA FirstDiskGood ==
    ASSUME NEW b \in {"file", "dir"}, NEW d, d = FirstDisk(b)
    PROVE  d \in DiskT /\ SlotsExact(d)
<1> DEFINE inode(i) ==
             CASE i = 1 -> DirInode(2, 3, 1)
               [] i = 2 -> DirInode(IF b = "dir" THEN 2 ELSE 1, 3, 2)
               [] i = 3 -> IF b = "dir" THEN DirInode(1, 2, 3) ELSE Dinode("file", 1)
               [] i > 3 -> Dinode("free", 0)
           entries(i) ==
             CASE i = 1 -> DirEntries(1, 1, << De("a", 2) >>)
               [] i = 2 -> DirEntries(2, 1, << De("b", 3) >>)
               [] i = 3 -> IF b = "dir" THEN DirEntries(3, 2, << >>) ELSE << >>
               [] i > 3 -> << >>
<1>1. PICK di, ents, used, ind :
        /\ di = [i \in Inode |-> inode(i)] /\ ents = [i \in Inode |-> entries(i)]
        /\ used = IF b = "dir" THEN {1, 2, 3} ELSE {1, 2}
        /\ ind = [k \in Block |-> Junk]
  OBVIOUS
<1>2. d = [di |-> di, ents |-> ents, used |-> used, ind |-> ind]
  BY <1>1 DEF FirstDisk
<1> HIDE DEF inode, entries
<1>3. 1 \in Inode /\ 2 \in Inode /\ 3 \in Inode 
  BY Sizes DEF Inode
<1>4. \A i \in Inode : i = 1 \/ i = 2 \/ i = 3 \/ (i > 3 /\ i # 1 /\ i # 2 /\ i # 3)
  BY DEF Inode
<1>5. PICK x1, x2, x3, x4 :
        /\ x1 = DirInode(2, 3, 1) /\ x2 = DirInode(IF b = "dir" THEN 2 ELSE 1, 3, 2)
        /\ x3 = IF b = "dir" THEN DirInode(1, 2, 3) ELSE Dinode("file", 1)
        /\ x4 = Dinode("free", 0)
  OBVIOUS
<1>6. PICK s1, s2, s3 :
        /\ s1 = DirEntries(1, 1, << De("a", 2) >>) /\ s2 = DirEntries(2, 1, << De("b", 3) >>)
        /\ s3 = IF b = "dir" THEN DirEntries(3, 2, << >>) ELSE << >>
  OBVIOUS
<1>7. x1 \in DinodeT /\ x1.type = "dir" /\ x1.addrs[0] = 1 /\ \A k \in 1 .. NDIRECT : x1.addrs[k] = 0
  BY <1>5, FirstDinode
<1>8. x2 \in DinodeT /\ x2.type = "dir" /\ x2.addrs[0] = 2 /\ \A k \in 1 .. NDIRECT : x2.addrs[k] = 0
  <2>1. PICK n \in Int : n = IF b = "dir" THEN 2 ELSE 1
    OBVIOUS
  <2> QED
    BY <1>5, <2>1, FirstDinode
<1>9. /\ x3 \in DinodeT /\ x3.type # "free" /\ x3.addrs[0] = IF b = "dir" THEN 3 ELSE 0
      /\ \A k \in 1 .. NDIRECT : x3.addrs[k] = 0
  <2>1. CASE b = "dir"
    <3>1. x3 = DirInode(1, 2, 3)
      BY <1>5, <2>1
    <3>2. /\ x3 \in DinodeT /\ x3.type = "dir" /\ x3.addrs[0] = 3
          /\ \A k \in 1 .. NDIRECT : x3.addrs[k] = 0
      BY <3>1, FirstDinode
    <3> QED
      BY <2>1, <3>2
  <2>2. CASE b # "dir"
    <3>1. x3 = Dinode("file", 1) /\ "file" \in TypeT
      BY <1>5, <2>2 DEF TypeT
    <3>2. x3 \in DinodeT /\ x3.type = "file" /\ \A k \in 0 .. NDIRECT : x3.addrs[k] = 0
      BY <3>1, DinodeIs
    <3>3. 0 \in 0 .. NDIRECT /\ \A k \in 1 .. NDIRECT : k \in 0 .. NDIRECT
      BY Sizes
    <3> QED
      BY <2>2, <3>2, <3>3
  <2> QED
    BY <2>1, <2>2
<1>10. x4 \in DinodeT /\ x4.addrs[0] = 0 /\ \A k \in 1 .. NDIRECT : x4.addrs[k] = 0
  <2>1. "free" \in TypeT
    BY DEF TypeT
  <2>2. x4 \in DinodeT /\ \A k \in 0 .. NDIRECT : x4.addrs[k] = 0
    BY <1>5, <2>1, DinodeIs
  <2>3. 0 \in 0 .. NDIRECT /\ \A k \in 1 .. NDIRECT : k \in 0 .. NDIRECT
    BY Sizes
  <2> QED
    BY <2>2, <2>3
<1>11. s1 \in Seq(DirentT) /\ s2 \in Seq(DirentT) /\ s3 \in Seq(DirentT)
  <2>1. "a" \in Name /\ "b" \in Name
    BY FSAssumption
  <2>2. s1 \in Seq(DirentT)
    BY <1>3, <1>6, <2>1, FirstEntries
  <2>3. s2 \in Seq(DirentT)
    BY <1>3, <1>6, <2>1, FirstEntries
  <2>4. DirEntries(3, 2, << >>) \in Seq(DirentT)
    BY <1>3, <2>1, FirstEntries
  <2>5. s3 \in Seq(DirentT)
    BY <1>6, <2>4
  <2> QED
    BY <2>2, <2>3, <2>5
<1>12. PICK n \in {2, 3} : n = IF b = "dir" THEN 3 ELSE 2
  OBVIOUS
<1>13. \A i \in Inode :
         di[i] = IF i = 1 THEN x1 ELSE IF i = 2 THEN x2 ELSE IF i = 3 THEN x3 ELSE x4
  BY <1>1, <1>4, <1>5 DEF inode
<1>14. \A i \in Inode :
         ents[i] = IF i = 1 THEN s1 ELSE IF i = 2 THEN s2 ELSE IF i = 3 THEN s3 ELSE << >>
  BY <1>1, <1>4, <1>6 DEF entries
<1>15. di \in [Inode -> DinodeT]
  <2>1. di = [i \in Inode |-> di[i]]
    BY <1>1
  <2>2. \A i \in Inode : di[i] \in DinodeT
    BY <1>7, <1>8, <1>9, <1>10, <1>13
  <2> QED
    BY <2>1, <2>2
<1>16. ents \in [Inode -> Seq(DirentT)]
  <2>1. ents = [i \in Inode |-> ents[i]]
    BY <1>1
  <2>2. << >> \in Seq(DirentT)
    OBVIOUS
  <2>3. \A i \in Inode : ents[i] \in Seq(DirentT)
    BY <1>11, <1>14, <2>2
  <2> QED
    BY <2>1, <2>3
<1>17. used = 1 .. n /\ used \in SUBSET Block
  <2>1. CASE b = "dir"
    <3>1. used = {1, 2, 3} /\ n = 3
      BY <1>1, <1>12, <2>1
    <3> QED
      BY <3>1, Sizes DEF Block
  <2>2. CASE b # "dir"
    <3>1. used = {1, 2} /\ n = 2
      BY <1>1, <1>12, <2>2
    <3> QED
      BY <3>1, Sizes DEF Block
  <2> QED
    BY <2>1, <2>2
<1>18. ind \in [Block -> IndT]
  BY <1>1, ZeroType
<1>19. d \in DiskT /\ d.di = di /\ d.used = 1 .. n
  BY <1>2, <1>15, <1>16, <1>17, <1>18 DEF DiskT
<1>20. SlotsExact(d)
  <2>1. ASSUME NEW i \in Inode
        PROVE  /\ d.di[i].addrs[0] = IF i <= n THEN i ELSE 0
               /\ \A k \in 1 .. NDIRECT : d.di[i].addrs[k] = 0
               /\ d.di[i].type = "free" => i > 3
    <3>1. CASE i = 1
      BY <1>7, <1>12, <1>13, <1>19, <3>1
    <3>2. CASE i = 2
      BY <1>8, <1>12, <1>13, <1>19, <3>2
    <3>3. CASE i = 3
      BY <1>9, <1>12, <1>13, <1>19, <3>3
    <3>4. CASE i > 3 /\ i # 1 /\ i # 2 /\ i # 3
      <4>1. d.di[i] = x4
        BY <1>13, <1>19, <3>4
      <4>2. ~(i <= n)
        BY <3>4 DEF Inode
      <4> QED
        BY <1>10, <3>4, <4>1, <4>2
    <3> QED
      BY <1>4, <3>1, <3>2, <3>3, <3>4
  <2> QED
    BY <1>19, <2>1, FirstSlots
<1> QED
  BY <1>19, <1>20

LEMMA InitGood == Init => FSInv
<1> SUFFICES ASSUME Init PROVE Fresh
  BY FreshGood
<1> DEFINE all == Cardinality(Proc)
<1>1. PICK b \in {"file", "dir"}, at \in {1, 2, 3}, open \in BOOLEAN : InitAt(b, at, open)
  BY DEF Init
<1>2. /\ disk = FirstDisk(b)
      /\ cwd = [p \in Proc |-> at]
      /\ ofile = [p \in Proc |-> IF open THEN 1 ELSE 0]
      /\ file = [f \in File |-> IF open /\ f = 1
                                 THEN [ref |-> all, ip |-> 3, off |-> 0, w |-> TRUE]
                                 ELSE NoFile]
      /\ itable = [i \in Inode |->
                    [ref |-> (IF i = at THEN all ELSE 0) + (IF open /\ i = 3 THEN 1 ELSE 0),
                     valid |-> FALSE, lock |-> None, d |-> Dinode("free", 0)]]
  BY <1>1 DEF InitAt
<1>3. stable = disk /\ loc = [p \in Proc |-> Idle] /\ todo = [p \in Proc |-> << >>]
  BY <1>1 DEF InitAt
<1>4. 1 \in Inode /\ 2 \in Inode /\ 3 \in Inode /\ Cardinality(Proc) \in Nat
  BY Sizes, FS_CardinalityType DEF Inode
<1>5. disk \in DiskT /\ SlotsExact(disk)
  BY <1>2, FirstDiskGood
<1>6. PICK x4 \in DinodeT : x4 = Dinode("free", 0)
  <2>1. "free" \in TypeT /\ 0 \in Int
    BY DEF TypeT
  <2> QED
    BY <2>1, DinodeIs
<1>7. PICK o \in {0, 1} : o = IF open THEN 1 ELSE 0
  OBVIOUS
<1>8. FreshWith(at, o, 3)
  <2>1. itable = [i \in Inode |->
                   [ref |-> (IF i = at THEN all ELSE 0) + (IF open /\ i = 3 THEN 1 ELSE 0),
                    valid |-> FALSE, lock |-> None, d |-> x4]]
    BY <1>2, <1>6
  <2>2. itable \in [Inode -> EntryT]
    BY <1>4, <1>6, <2>1 DEF EntryT
  <2>3. \A i \in Inode : /\ itable[i].ref = (IF i = at THEN Cardinality(Proc) ELSE 0)
                                             + (IF o = 1 /\ i = 3 THEN 1 ELSE 0)
                         /\ ~itable[i].valid /\ itable[i].lock = None
    BY <1>7, <2>1
  <2>4. NoFile \in FileT /\ NoFile.ref = 0 /\ NoFile.ip = 0
    BY Sizes DEF NoFile, FileT
  <2>5. PICK nf : nf = [ref |-> all, ip |-> 3, off |-> 0, w |-> TRUE]
    OBVIOUS
  <2>6. nf \in FileT /\ nf.ref = Cardinality(Proc) /\ nf.ip = 3
    BY <1>4, <2>5, Sizes DEF FileT
  <2>7. file = [f \in File |-> IF open /\ f = 1 THEN nf ELSE NoFile]
    BY <1>2, <2>5
  <2>8. file \in [File -> FileT]
    BY <2>4, <2>6, <2>7
  <2>9. \A f \in File : IF o = 1 /\ f = 1 THEN file[f].ref = Cardinality(Proc) /\ file[f].ip = 3
                        ELSE file[f].ref = 0 /\ file[f].ip = 0
    BY <1>7, <2>4, <2>6, <2>7
  <2>10. ofile = [p \in Proc |-> o]
    BY <1>2, <1>7
  <2> QED
    BY <1>2, <1>3, <1>5, <2>2, <2>3, <2>8, <2>9, <2>10 DEF FreshWith
<1>9. at \in Inode
  BY <1>4
<1> QED
  BY <1>4, <1>8, <1>9 DEF Fresh

-----------------------------------------------------------------------------
(* The theorems.                                                           *)

LEMMA NextKeeps == FSInv /\ [Next]_vars => FSInv'
<1> SUFFICES ASSUME FSInv, [Next]_vars PROVE FSInv'
  OBVIOUS
<1>1. ASSUME NEW p \in Proc, NEW c \in PathCalls, PathCall(p, c[1], c[2], c[3]) PROVE FSInv'
  <2>1. c[1] \in PathFn /\ c[2] \in PathT /\ c[3] \in PathT
    BY FSAssumption DEF PathFn, PathT, Elem
  <2> QED
    BY <1>1, <2>1, PathCallKeeps
<1>2. ASSUME NEW p \in Proc,
             \/ IUnlock(p) \/ IPut(p) \/ IPutFree(p) \/ IPutInvalid(p) \/ IPutDrop(p)
             \/ EndOp(p) \/ Walk(p) \/ WalkNoName(p)
      PROVE  FSInv'
  BY <1>2, IUnlockKeeps, IPutKeeps, IPutFreeKeeps, IPutInvalidKeeps, IPutDropKeeps, EndOpKeeps,
     WalkKeeps, WalkNoNameKeeps
<1>3. ASSUME NEW p \in Proc, \/ Open(p) \/ OpenCreated(p) \/ Chdir(p)
                             \/ LinkOld(p) \/ LinkNew(p) \/ LinkBad(p)
      PROVE  FSInv'
  BY <1>3, OpenKeeps, OpenCreatedKeeps, ChdirKeeps, LinkOldKeeps, LinkNewKeeps, LinkBadKeeps
<1>4. ASSUME NEW p \in Proc, \/ UnlinkParent(p) \/ UnlinkChild(p) \/ Unlinked(p)
                             \/ CreateParent(p) \/ CreateExists(p) \/ CreateNew(p)
      PROVE  FSInv'
  BY <1>4, UnlinkParentKeeps, UnlinkChildKeeps, UnlinkedKeeps, CreateParentKeeps,
     CreateExistsKeeps, CreateNewKeeps
<1>5. ASSUME NEW p \in Proc, \/ FileRead(p) \/ FileWriteBegin(p) \/ FileWrite(p)
                             \/ FileClose(p) \/ FileClosePut(p) \/ Exit(p)
                             \/ \E q \in Proc \ {p} : Fork(p, q)
      PROVE  FSInv'
  BY <1>5, FileReadKeeps, FileWriteBeginKeeps, FileWriteKeeps, FileCloseKeeps,
     FileClosePutKeeps, ExitKeeps, ForkKeeps
<1>6. CASE \E p \in Proc : Panic(p)
  BY <1>6, SameKeeps DEF Panic
<1>7. CASE Crash
  BY <1>7, CrashKeeps
<1>8. CASE Terminated \/ UNCHANGED vars
  BY <1>8, SameKeeps DEF Terminated, vars
<1> QED
  BY <1>1, <1>2, <1>3, <1>4, <1>5, <1>6, <1>7, <1>8 DEF Next

\* The block numbers of a free inode are 0.
LEMMA FreeAddr ==
    ASSUME NEW d, SlotsExact(d), NEW i \in Inode, d.di[i].type = "free", NEW k \in Slot
    PROVE  Map(d)[i][k] = 0
<1>1. Map(d)[i][k] = Addr(d.di[i], d.ind, k)
  BY MapIs
<1>2. NDIRECT \in 0 .. NDIRECT /\ (k <= NDIRECT => k \in 0 .. NDIRECT)
  BY Sizes DEF Slot
<1>3. d.di[i].addrs[NDIRECT] = 0 /\ (k <= NDIRECT => d.di[i].addrs[k] = 0)
  BY <1>2 DEF SlotsExact
<1> QED
  BY <1>1, <1>3 DEF Addr

\* The bitmap and the owners of the blocks follow from the places.
LEMMA OwnersAre ==
    ASSUME NEW d \in DiskT, SlotsExact(d)
    PROVE  /\ d.used = UNION {BlocksOf(d.di[i], d) : i \in Allocated(d)}
           /\ \A i, j \in Allocated(d) :
                i # j => BlocksOf(d.di[i], d) \cap BlocksOf(d.di[j], d) = {}
<1>1. PICK A : A = Map(d)
  OBVIOUS
<1>2. Exact(A, d.used) /\ \A i \in Inode : BlocksOf(d.di[i], d) = {A[i][l] : l \in Slot} \ {0}
  BY <1>1, BlocksAre DEF SlotsExact
<1>3. 0 \notin d.used
  BY DiskIs, Sizes DEF Block
<1>4. ASSUME NEW b \in d.used PROVE \E i \in Allocated(d) : b \in BlocksOf(d.di[i], d)
  <2>1. PICK i \in Inode, k \in Slot : A[i][k] = b
    BY <1>2 DEF Exact
  <2>2. b # 0
    BY <1>3
  <2>3. d.di[i].type # "free"
    BY <1>1, <2>1, <2>2, FreeAddr
  <2>4. b \in BlocksOf(d.di[i], d)
    BY <1>2, <2>1, <2>2
  <2> QED
    BY <2>3, <2>4 DEF Allocated
<1>5. ASSUME NEW i \in Allocated(d), NEW b \in BlocksOf(d.di[i], d)
      PROVE  b \in d.used /\ \A j \in Allocated(d) : b \in BlocksOf(d.di[j], d) => i = j
  <2>1. i \in Inode
    BY DEF Allocated
  <2>2. PICK k \in Slot : A[i][k] = b /\ b # 0
    BY <1>2, <1>5, <2>1
  <2>3. b \in d.used
    BY <1>2, <2>1, <2>2 DEF Exact
  <2>4. ASSUME NEW j \in Allocated(d), b \in BlocksOf(d.di[j], d) PROVE i = j
    <3>1. j \in Inode
      BY DEF Allocated
    <3>2. PICK l \in Slot : A[j][l] = b
      BY <1>2, <2>4, <3>1
    <3> QED
      BY <1>2, <2>1, <2>2, <3>1, <3>2 DEF Exact
  <2> QED
    BY <2>3, <2>4
<1>6. d.used = UNION {BlocksOf(d.di[i], d) : i \in Allocated(d)}
  BY <1>4, <1>5
<1>7. \A i, j \in Allocated(d) : i # j => BlocksOf(d.di[i], d) \cap BlocksOf(d.di[j], d) = {}
  BY <1>5
<1> QED
  BY <1>6, <1>7

\* Somebody who has an inode locked has a pointer to it besides the one that
\* another iput() is about to give back.
LEMMA LastUnlocked == FSInv => LastPutUnlocked
<1> SUFFICES ASSUME FSInv, NEW p \in Proc, Doing(p, "put"), LastPut(Head(todo[p]).i)
             PROVE  itable[Head(todo[p]).i].lock = None
  BY DEF LastPutUnlocked
<1>1. /\ todo[p] \in Seq(CallT) /\ todo[p] # << >> /\ Head(todo[p]) = todo[p][1]
      /\ todo[p][1].op = "put" /\ todo[p][1].i \in Inode
  BY DoingIs
<1>2. PICK i \in Inode : i = todo[p][1].i
  BY <1>1
<1>3. itable[i].ref = 1
  BY <1>1, <1>2 DEF LastPut
<1>4. SUFFICES ASSUME itable[i].lock # None PROVE FALSE
  BY <1>1, <1>2
<1>5. PICK q \in Proc : itable[i].lock = q
  BY <1>4 DEF FSInv, FSType, EntryT
<1>6. HasLocked(q, i)
  BY <1>5 DEF FSInv, LocksExact
<1>7. /\ Held(q, i) >= 1
      /\ todo[q] # << >> /\ todo[q][1].op = "put" /\ todo[q][1].i = i => Held(q, i) >= 2
  BY <1>6, LockHeld
<1>8. Held(p, i) >= 1
  <2>1. 1 \in 1 .. Len(todo[p])
    BY <1>1
  <2>2. Puts(todo[p], i) >= 1
    BY <1>1, <1>2, <2>1, PutsAt
  <2>3. Held(p, i) = Puts(todo[p], i) + Ptr(loc[p], i) + Is(cwd[p], i)
    BY <1>1, HeldIs
  <2>4. Puts(todo[p], i) \in Nat
    BY <1>1, PutsType
  <2>5. Ptr(loc[p], i) \in Nat
    BY PtrType
  <2>6. Is(cwd[p], i) \in Nat
    BY DEF Is
  <2> QED
    BY <2>2, <2>3, <2>4, <2>5, <2>6
<1>9. p # q \/ Held(p, i) >= 2
  BY <1>1, <1>2, <1>7
<1>10. itable[i].ref >= 2
  BY <1>7, <1>8, <1>9, RefTwo DEF FSInv
<1> QED
  BY <1>3, <1>10

(***************************************************************************)
(* FSInv holds in every state: every action of fs.c, file.c and sysfile.c  *)
(* that the model has, and a crash at any moment, keeps it.                *)
(***************************************************************************)
THEOREM Inductive == Spec => []FSInv
<1>1. Init => FSInv
  BY InitGood
<1>2. FSInv /\ [Next]_vars => FSInv'
  BY NextKeeps
<1> QED
  BY <1>1, <1>2, PTL DEF Spec

(***************************************************************************)
(* ip->ref is the number of in-memory pointers to the inode, and f->ref    *)
(* that of the descriptors of the open file, at every step of every call   *)
(* on every path through it (iget, idup, iput, filealloc, fileclose).      *)
(***************************************************************************)
THEOREM CountsExact == Spec => []RefExact
<1>1. FSInv => RefExact
  BY DEF FSInv
<1> QED
  BY <1>1, Inductive, PTL

(***************************************************************************)
(* iput()'s comment is right: with ref 1 nobody has the inode locked, so   *)
(* its acquiresleep() under itable.lock never waits.                       *)
(***************************************************************************)
THEOREM LastPutNeverWaits == Spec => []LastPutUnlocked
  BY LastUnlocked, Inductive, PTL

(***************************************************************************)
(* balloc(), bmap() and itrunc() keep the bitmap: it marks just the blocks *)
(* that inodes own, and no block has two owners, on the disk as it is and  *)
(* as a crash leaves it.                                                   *)
(***************************************************************************)
THEOREM OwnersExact == Spec => []BlocksExact
<1>1. FSInv => BlocksExact
  <2> SUFFICES ASSUME FSInv PROVE BlocksExact
    OBVIOUS
  <2>1. /\ disk \in DiskT /\ SlotsExact(disk) /\ stable \in DiskT /\ SlotsExact(stable)
    BY DEF FSInv, FSType
  <2>2. ASSUME NEW d \in {disk, stable}
        PROVE  /\ d.used = UNION {BlocksOf(d.di[i], d) : i \in Allocated(d)}
               /\ \A i, j \in Allocated(d) :
                    i # j => BlocksOf(d.di[i], d) \cap BlocksOf(d.di[j], d) = {}
    <3>1. d \in DiskT /\ SlotsExact(d)
      BY <2>1
    <3> QED
      BY <3>1, OwnersAre
  <2> QED
    BY <2>2 DEF BlocksExact
<1> QED
  BY <1>1, Inductive, PTL

(***************************************************************************)
(* A valid in-memory inode is what the disk has: every change is written   *)
(* back by iupdate() under the lock, and iget() and iput() let nobody find *)
(* the copy of an inode that has been freed.                               *)
(***************************************************************************)
THEOREM CopiesExact == Spec => []MemoryExact
<1>1. FSInv => MemoryExact
  BY DEF FSInv
<1> QED
  BY <1>1, Inductive, PTL

=============================================================================
