--------------------------- MODULE ProdConsProofs ---------------------------
(***************************************************************************)
(* The semaphores of the kernel, for any number of processes, semaphores   *)
(* and calls: TypeOK /\ NoMissedSignal is inductive as it stands when      *)
(* sem_init() is not called on a semaphore with sleepers.  On top of them, *)
(* mutual exclusion of put() and get() in user/prodcons.c, and the bounds  *)
(* of its buffer, for any numbers of producers and consumers, any buffer   *)
(* size and any number of turns.                                           *)
(*                                                                         *)
(* The inductive invariant of the first says what the mutex's value means  *)
(* (MutexValue) and on which semaphore a process inside sem_wait() waits   *)
(* (WaitsWhere): a woken process re-tests that semaphore and no other.     *)
(* That of the second says where every unit of SEM_EMPTY and SEM_FULL is   *)
(* (UnitsExact): in the semaphore, or with a child that has taken it and   *)
(* not yet used it, or with one that has used it and not yet passed it on. *)
(***************************************************************************)
EXTENDS ProdCons, FiniteSetTheorems, TLAPS

(***************************************************************************)
(* Types: in particular no semaphore's value becomes negative, because     *)
(* sem_wait_k() decrements in the critical section that found it not zero. *)
(***************************************************************************)
THEOREM TypeCorrect == Spec => []TypeOK
<1> USE SemAssumption DEF TypeOK, Status
<1>1. Init => TypeOK
  BY DEF Init
<1>2. TypeOK /\ [Next]_vars => TypeOK'
  <2> SUFFICES ASSUME TypeOK, [Next]_vars PROVE TypeOK'
    OBVIOUS
  <2>1. ASSUME NEW p \in Proc, NEW s \in Sem, NEW v \in InitVal, SemInit(p, s, v)
        PROVE  TypeOK'
    BY <2>1 DEF SemInit
  <2>2. ASSUME NEW p \in Proc, NEW s \in Sem, SemTest(p, s)
        PROVE  TypeOK'
    BY <2>2 DEF SemTest, MustSleep
  <2>3. ASSUME NEW p \in Proc, NEW s \in Sem, SemSignal(p, s)
        PROVE  TypeOK'
    BY <2>3 DEF SemSignal, Wakeup
  <2>4. ASSUME NEW p \in Proc, Kill(p)
        PROVE  TypeOK'
    BY <2>4 DEF Kill
  <2>5. ASSUME NEW p \in Proc, Exit(p)
        PROVE  TypeOK'
    BY <2>5 DEF Exit
  <2>6. CASE UNCHANGED vars
    BY <2>6 DEF vars
  <2> QED
    BY <2>1, <2>2, <2>3, <2>4, <2>5, <2>6 DEF Next, SemWait, SemRetest
<1> QED
  BY <1>1, <1>2, PTL DEF Spec

(***************************************************************************)
(* No missed signal, for every number of processes: whoever sleeps in      *)
(* sem_wait_k() sleeps on a semaphore whose value is 0.                    *)
(***************************************************************************)
THEOREM NoSignalMissed == ASSUME Reinit = FALSE PROVE Spec => []NoMissedSignal
<1> USE DEF TypeOK, NoMissedSignal
<1>1. Init => NoMissedSignal
  BY DEF Init
<1>2. TypeOK /\ NoMissedSignal /\ [Next]_vars => NoMissedSignal'
  <2> SUFFICES ASSUME TypeOK, NoMissedSignal, [Next]_vars PROVE NoMissedSignal'
    OBVIOUS
  <2>1. ASSUME NEW p \in Proc, NEW s \in Sem, NEW v \in InitVal, SemInit(p, s, v)
        PROVE  NoMissedSignal'
    BY <2>1 DEF SemInit, Sleepers
  <2>2. ASSUME NEW p \in Proc, NEW s \in Sem, SemTest(p, s), st[p] # "sleeping"
        PROVE  NoMissedSignal'
    BY <2>2 DEF SemTest, MustSleep
  <2>3. ASSUME NEW p \in Proc, NEW s \in Sem, SemSignal(p, s)
        PROVE  NoMissedSignal'
    BY <2>3 DEF SemSignal, Wakeup, Sleepers
  <2>4. ASSUME NEW p \in Proc, Kill(p)
        PROVE  NoMissedSignal'
    BY <2>4 DEF Kill
  <2>5. ASSUME NEW p \in Proc, Exit(p)
        PROVE  NoMissedSignal'
    BY <2>5 DEF Exit
  <2>6. CASE UNCHANGED vars
    BY <2>6 DEF vars
  <2> QED
    BY <2>1, <2>2, <2>3, <2>4, <2>5, <2>6 DEF Next, SemWait, SemRetest, MayCall
<1> QED
  BY <1>1, <1>2, TypeCorrect, PTL DEF Spec

-----------------------------------------------------------------------------
(* user/prodcons.c.                                                        *)

PCType ==
    /\ value \in [Sem -> Nat]
    /\ st \in [Proc -> Status]
    /\ on \in [Proc -> Sem]
    /\ at \in [Proc -> {"take", "lock", "crit", "unlock", "give", "done"}]
    /\ turn \in [Proc -> Nat]

\* A process inside the first wait waits for its slot or item, a process
\* inside the second for the mutex, and nowhere else in its loop does it wait.
WaitsWhere ==
    \A p \in Proc : st[p] \in {"sleeping", "woken", "lost"} =>
        \/ at[p] = "lock" /\ on[p] = Takes(p)
        \/ at[p] = "crit" /\ on[p] = MUTEX

\* Nobody is in the critical section while the mutex is 1, and one process
\* at most while it is 0: none, if that one was killed there.
MutexValue ==
    \/ value[MUTEX] = 1 /\ \A p \in Proc : ~InCrit(p)
    \/ value[MUTEX] = 0 /\ \A p, q \in Proc : InCrit(p) /\ InCrit(q) => p = q

PCInv == PCType /\ WaitsWhere /\ MutexValue

\* The three semaphores are different.
LEMMA Distinct ==
    /\ EMPTY \in Sem /\ FULL \in Sem /\ MUTEX \in Sem
    /\ \A p \in Proc : Takes(p) \in Sem /\ Gives(p) \in Sem
                       /\ Takes(p) # MUTEX /\ Gives(p) # MUTEX
BY ProdConsAssumption DEF Takes, Gives

(***************************************************************************)
(* No two children of prodcons.c are ever in put() or get() together.      *)
(***************************************************************************)
THEOREM CriticalSection == PCSpec => []MutualExclusion
<1> USE Distinct DEF PCType, Status
<1>1. PCInit => PCInv
  BY ProdConsAssumption DEF PCInit, PCInv, WaitsWhere, MutexValue, InCrit
<1>2. PCInv /\ [PCNext]_pvars => PCInv'
  <2> SUFFICES ASSUME PCInv, [PCNext]_pvars PROVE PCInv'
    OBVIOUS
  <2> USE DEF PCInv, WaitsWhere, MutexValue, InCrit
  <2>1. ASSUME NEW p \in Proc, Take(p) PROVE PCInv'
    BY <2>1 DEF Take, counts, At, SemWait, SemTest, MustSleep, Waits, Goto
  <2>2. ASSUME NEW p \in Proc, Lock(p) PROVE PCInv'
    BY <2>2 DEF Lock, counts, At, SemWait, SemTest, MustSleep, Waits, Goto
  <2>3. ASSUME NEW p \in Proc, Crit(p) PROVE PCInv'
    BY <2>3 DEF Crit, counts, At, Goto
  <2>4. ASSUME NEW p \in Proc, Unlock(p) PROVE PCInv'
    BY <2>4 DEF Unlock, counts, At, SemSignal, Wakeup, Sleepers, Goto
  <2>5. ASSUME NEW p \in Proc, Give(p) PROVE PCInv'
    BY <2>5 DEF Give, counts, At, SemSignal, Wakeup, Sleepers, Goto
  <2>6. ASSUME NEW p \in Proc, Retest(p) PROVE PCInv'
    BY <2>6 DEF Retest, counts, SemRetest, SemTest, MustSleep
  <2>7. ASSUME NEW p \in Proc, Die(p) PROVE PCInv'
    BY <2>7 DEF Die, counts, Exit
  <2>8. ASSUME NEW p \in Proc, KillChild(p) PROVE PCInv'
    BY <2>8 DEF KillChild, counts, Kill
  <2>9. CASE UNCHANGED pvars
    BY <2>9 DEF pvars
  <2> QED
    BY <2>1, <2>2, <2>3, <2>4, <2>5, <2>6, <2>7, <2>8, <2>9 DEF PCNext, Step
<1>3. PCInv => MutualExclusion
  BY DEF PCInv, MutexValue, MutualExclusion
<1> QED
  BY <1>1, <1>2, <1>3, PTL DEF PCSpec

(***************************************************************************)
(* No child of prodcons.c sleeps in sem_wait() on a semaphore that has a   *)
(* unit to give, whichever children are killed or lost.                    *)
(***************************************************************************)
THEOREM NoChildForgotten == PCSpec => []NoMissedSignal
<1> DEFINE Inv == PCType /\ NoMissedSignal
<1> USE Distinct DEF PCType, Status, NoMissedSignal
<1>1. PCInit => Inv
  BY ProdConsAssumption DEF PCInit
<1>2. Inv /\ [PCNext]_pvars => Inv'
  <2> SUFFICES ASSUME Inv, [PCNext]_pvars PROVE Inv'
    OBVIOUS
  <2>1. ASSUME NEW p \in Proc, Take(p) PROVE Inv'
    BY <2>1 DEF Take, counts, At, SemWait, SemTest, MustSleep, Waits, Goto
  <2>2. ASSUME NEW p \in Proc, Lock(p) PROVE Inv'
    BY <2>2 DEF Lock, counts, At, SemWait, SemTest, MustSleep, Waits, Goto
  <2>3. ASSUME NEW p \in Proc, Crit(p) PROVE Inv'
    BY <2>3 DEF Crit, counts, At, Goto
  <2>4. ASSUME NEW p \in Proc, Unlock(p) PROVE Inv'
    BY <2>4 DEF Unlock, counts, At, SemSignal, Wakeup, Sleepers, Goto
  <2>5. ASSUME NEW p \in Proc, Give(p) PROVE Inv'
    BY <2>5 DEF Give, counts, At, SemSignal, Wakeup, Sleepers, Goto
  <2>6. ASSUME NEW p \in Proc, Retest(p) PROVE Inv'
    BY <2>6 DEF Retest, counts, SemRetest, SemTest, MustSleep
  <2>7. ASSUME NEW p \in Proc, Die(p) PROVE Inv'
    BY <2>7 DEF Die, counts, Exit
  <2>8. ASSUME NEW p \in Proc, KillChild(p) PROVE Inv'
    BY <2>8 DEF KillChild, counts, Kill
  <2>9. CASE UNCHANGED pvars
    BY <2>9 DEF pvars
  <2> QED
    BY <2>1, <2>2, <2>3, <2>4, <2>5, <2>6, <2>7, <2>8, <2>9 DEF PCNext, Step
<1> QED
  BY <1>1, <1>2, PTL DEF PCSpec

-----------------------------------------------------------------------------
\* The children that have taken a slot or an item and not yet used it, and
\* those that have used it and not yet signalled: a dead child stays where
\* it was killed.
Holding == {p \in Proc : \/ at[p] = "lock" /\ st[p] \in {"user", "dead"}
                         \/ at[p] = "crit"}
Owing == {p \in Proc : at[p] \in {"unlock", "give"}}

\* How many of the producers and of the consumers those are.
HeldP == Cardinality(Holding \cap Producer)
HeldC == Cardinality(Holding \cap Consumer)
OwedP == Cardinality(Owing \cap Producer)
OwedC == Cardinality(Owing \cap Consumer)

\* Every unit of SEM_FULL is an item in the buffer and every unit of
\* SEM_EMPTY a free slot, counting those on their way between the two.
UnitsExact ==
    /\ value[FULL] + HeldC + OwedP = puts - gets
    /\ value[EMPTY] + HeldP + OwedC = NBUF - (puts - gets)

PCCounts == puts \in Nat /\ gets \in Nat

UnitsInv == PCType /\ PCCounts /\ WaitsWhere /\ UnitsExact

\* What a step does to the units: nothing; child p takes one; p uses the one
\* it holds in put() or get(); p passes on the one it owes.
KeepsUnits ==
    /\ value'[FULL] = value[FULL] /\ value'[EMPTY] = value[EMPTY]
    /\ Holding' = Holding /\ Owing' = Owing
    /\ puts' = puts /\ gets' = gets
TakesUnit(p) ==
    /\ p \notin Holding /\ Holding' = Holding \cup {p} /\ Owing' = Owing
    /\ value'[Takes(p)] = value[Takes(p)] - 1
    /\ value'[Gives(p)] = value[Gives(p)]
    /\ puts' = puts /\ gets' = gets
UsesUnit(p) ==
    /\ p \in Holding /\ Holding' = Holding \ {p}
    /\ p \notin Owing /\ Owing' = Owing \cup {p}
    /\ value'[FULL] = value[FULL] /\ value'[EMPTY] = value[EMPTY]
    /\ \/ p \in Producer /\ puts' = puts + 1 /\ gets' = gets
       \/ p \in Consumer /\ puts' = puts /\ gets' = gets + 1
PassesUnit(p) ==
    /\ Holding' = Holding /\ p \in Owing /\ Owing' = Owing \ {p}
    /\ value'[Gives(p)] = value[Gives(p)] + 1
    /\ value'[Takes(p)] = value[Takes(p)]
    /\ puts' = puts /\ gets' = gets

\* Every step is one of the four.
LEMMA UnitSteps ==
    ASSUME UnitsInv, PCNext
    PROVE  /\ PCType' /\ PCCounts' /\ WaitsWhere'
           /\ \/ KeepsUnits
              \/ \E p \in Proc : TakesUnit(p) \/ UsesUnit(p) \/ PassesUnit(p)
<1> DEFINE Good(p) == /\ PCType' /\ PCCounts' /\ WaitsWhere'
                      /\ KeepsUnits \/ TakesUnit(p) \/ UsesUnit(p) \/ PassesUnit(p)
<1> USE Distinct, ProdConsAssumption
    DEF UnitsInv, PCType, PCCounts, WaitsWhere, Status, KeepsUnits, TakesUnit,
        UsesUnit, PassesUnit, Holding, Owing, Takes, Gives, counts
<1>1. ASSUME NEW p \in Proc, Take(p) PROVE Good(p)
  BY <1>1 DEF Take, At, SemWait, SemTest, MustSleep, Waits, Goto
<1>2. ASSUME NEW p \in Proc, Lock(p) PROVE Good(p)
  BY <1>2 DEF Lock, At, SemWait, SemTest, MustSleep, Waits, Goto
<1>3. ASSUME NEW p \in Proc, Crit(p) PROVE Good(p)
  BY <1>3 DEF Crit, At, Goto
<1>4. ASSUME NEW p \in Proc, Unlock(p) PROVE Good(p)
  BY <1>4 DEF Unlock, At, SemSignal, Wakeup, Sleepers, Goto
<1>5. ASSUME NEW p \in Proc, Give(p) PROVE Good(p)
  BY <1>5 DEF Give, At, SemSignal, Wakeup, Sleepers, Goto
<1>6. ASSUME NEW p \in Proc, Retest(p) PROVE Good(p)
  BY <1>6 DEF Retest, SemRetest, SemTest, MustSleep
<1>7. ASSUME NEW p \in Proc, Die(p) PROVE Good(p)
  BY <1>7 DEF Die, Exit
<1>8. ASSUME NEW p \in Proc, KillChild(p) PROVE Good(p)
  BY <1>8 DEF KillChild, Kill
<1>9. \E p \in Proc : Good(p)
  BY <1>1, <1>2, <1>3, <1>4, <1>5, <1>6, <1>7, <1>8 DEF PCNext, Step
<1> QED
  BY <1>9

\* How the number of a set's members in S changes when an element joins or
\* leaves it.
LEMMA CountSteps ==
    ASSUME NEW S \in SUBSET Proc, NEW T \in SUBSET Proc, NEW p \in Proc
    PROVE  /\ Cardinality(T \cap S) \in Nat
           /\ p \notin S => (T \cup {p}) \cap S = T \cap S
           /\ p \notin S => (T \ {p}) \cap S = T \cap S
           /\ p \in S /\ p \notin T =>
                Cardinality((T \cup {p}) \cap S) = Cardinality(T \cap S) + 1
           /\ p \in S /\ p \in T =>
                Cardinality((T \ {p}) \cap S) = Cardinality(T \cap S) - 1
<1>1. IsFiniteSet(T \cap S)
  BY SemAssumption, FS_Subset
<1>2. Cardinality(T \cap S) \in Nat
  BY <1>1, FS_CardinalityType
<1>3. ASSUME p \in S, p \notin T
      PROVE Cardinality((T \cup {p}) \cap S) = Cardinality(T \cap S) + 1
  <2>1. Cardinality((T \cap S) \cup {p}) = Cardinality(T \cap S) + 1
    BY <1>1, <1>3, FS_AddElement
  <2>2. (T \cap S) \cup {p} = (T \cup {p}) \cap S
    BY <1>3
  <2> QED
    BY <2>1, <2>2
<1>4. ASSUME p \in S, p \in T
      PROVE Cardinality((T \ {p}) \cap S) = Cardinality(T \cap S) - 1
  <2>1. Cardinality((T \cap S) \ {p}) = Cardinality(T \cap S) - 1
    BY <1>1, <1>4, FS_RemoveElement
  <2>2. (T \cap S) \ {p} = (T \ {p}) \cap S
    OBVIOUS
  <2> QED
    BY <2>1, <2>2
<1>5. p \notin S => (T \cup {p}) \cap S = T \cap S /\ (T \ {p}) \cap S = T \cap S
  OBVIOUS
<1> QED
  BY <1>2, <1>3, <1>4, <1>5

\* The four counts are numbers: there are finitely many children.
LEMMA UnitCounts == HeldP \in Nat /\ HeldC \in Nat /\ OwedP \in Nat /\ OwedC \in Nat
<1>1. Holding \in SUBSET Proc /\ Owing \in SUBSET Proc
  BY DEF Holding, Owing
<1>2. /\ IsFiniteSet(Holding \cap Consumer) /\ IsFiniteSet(Holding \cap Producer)
      /\ IsFiniteSet(Owing \cap Consumer) /\ IsFiniteSet(Owing \cap Producer)
  BY <1>1, SemAssumption, FS_Subset
<1> QED
  BY <1>2, FS_CardinalityType DEF HeldP, HeldC, OwedP, OwedC

(***************************************************************************)
(* put() never overruns the NBUF slots and get() never reads an empty      *)
(* buffer, however many producers and consumers run prodcons.c, wherever   *)
(* in its loop a child is killed or lost.                                  *)
(***************************************************************************)
THEOREM BufferNeverOverruns == PCSpec => []BufferBound
<1>1. PCInit => UnitsInv
  <2> SUFFICES ASSUME PCInit PROVE UnitsInv
    OBVIOUS
  <2>1. Holding \cap Consumer = {} /\ Holding \cap Producer = {}
    BY DEF PCInit, Holding
  <2>2. Owing \cap Consumer = {} /\ Owing \cap Producer = {}
    BY DEF PCInit, Owing
  <2>3. PCType /\ PCCounts /\ WaitsWhere
    BY Distinct, ProdConsAssumption
    DEF PCInit, PCType, Status, PCCounts, WaitsWhere
  <2>4. value[FULL] = 0 /\ value[EMPTY] = NBUF /\ puts = 0 /\ gets = 0
    BY ProdConsAssumption DEF PCInit
  <2> QED
    BY <2>1, <2>2, <2>3, <2>4, FS_EmptySet, ProdConsAssumption
    DEF UnitsInv, UnitsExact, HeldP, HeldC, OwedP, OwedC
<1>2. UnitsInv /\ [PCNext]_pvars => UnitsInv'
  <2> SUFFICES ASSUME UnitsInv, [PCNext]_pvars PROVE UnitsInv'
    OBVIOUS
  <2>1. CASE UNCHANGED pvars
    BY <2>1 DEF pvars, UnitsInv, PCType, PCCounts, WaitsWhere, UnitsExact,
                HeldP, HeldC, OwedP, OwedC, Holding, Owing
  <2>2. CASE PCNext
    <3>0. UnitsExact
      BY DEF UnitsInv
    <3>1. PCType' /\ PCCounts' /\ WaitsWhere'
      BY <2>2, UnitSteps
    <3>2. value[FULL] \in Nat /\ value[EMPTY] \in Nat /\ puts \in Nat /\ gets \in Nat
          /\ NBUF \in Nat
      BY Distinct, ProdConsAssumption DEF UnitsInv, PCType, PCCounts
    <3>3. Holding \in SUBSET Proc /\ Owing \in SUBSET Proc
      BY DEF Holding, Owing
    <3>4. Producer \in SUBSET Proc /\ Consumer \in SUBSET Proc
          /\ \A q \in Proc : q \in Producer <=> q \notin Consumer
      BY ProdConsAssumption
    <3>5. HeldP \in Nat /\ HeldC \in Nat /\ OwedP \in Nat /\ OwedC \in Nat
      BY UnitCounts
    <3>6. ASSUME KeepsUnits PROVE UnitsExact'
      BY <3>6, <3>0 DEF KeepsUnits, UnitsExact, HeldP, HeldC, OwedP, OwedC
    <3>7. ASSUME NEW p \in Proc, TakesUnit(p) PROVE UnitsExact'
      <4>0. OwedP' = OwedP /\ OwedC' = OwedC
        BY <3>7 DEF TakesUnit, OwedP, OwedC
      <4>1. CASE p \in Producer
        <5>1. HeldP' = HeldP + 1
          BY <3>7, <4>1, <3>3, <3>4, CountSteps DEF TakesUnit, HeldP
        <5>2. HeldC' = HeldC
          BY <3>7, <4>1, <3>4 DEF TakesUnit, HeldC
        <5>4. /\ value'[EMPTY] = value[EMPTY] - 1 /\ value'[FULL] = value[FULL]
              /\ puts' = puts /\ gets' = gets
          BY <3>7, <4>1 DEF TakesUnit, Takes, Gives
        <5> QED
          BY <4>0, <5>1, <5>2, <5>4, <3>0, <3>2, <3>5 DEF UnitsExact
      <4>2. CASE p \in Consumer
        <5>1. HeldC' = HeldC + 1
          BY <3>7, <4>2, <3>3, <3>4, CountSteps DEF TakesUnit, HeldC
        <5>2. HeldP' = HeldP
          BY <3>7, <4>2, <3>4 DEF TakesUnit, HeldP
        <5>3. p \notin Producer
          BY <4>2, <3>4
        <5>4. /\ value'[FULL] = value[FULL] - 1 /\ value'[EMPTY] = value[EMPTY]
              /\ puts' = puts /\ gets' = gets
          BY <3>7, <5>3 DEF TakesUnit, Takes, Gives
        <5> QED
          BY <4>0, <5>1, <5>2, <5>4, <3>0, <3>2, <3>5 DEF UnitsExact
      <4> QED
        BY <4>1, <4>2, <3>4
    <3>8. ASSUME NEW p \in Proc, UsesUnit(p) PROVE UnitsExact'
      <4>1. CASE p \in Producer
        <5>1. HeldP' = HeldP - 1
          BY <3>8, <4>1, <3>3, <3>4, CountSteps DEF UsesUnit, HeldP
        <5>2. OwedP' = OwedP + 1
          BY <3>8, <4>1, <3>3, <3>4, CountSteps DEF UsesUnit, OwedP
        <5>3. HeldC' = HeldC /\ OwedC' = OwedC
          BY <3>8, <4>1, <3>4 DEF UsesUnit, HeldC, OwedC
        <5>4. puts' = puts + 1 /\ gets' = gets
          BY <3>8, <4>1, <3>4 DEF UsesUnit
        <5>5. value'[FULL] = value[FULL] /\ value'[EMPTY] = value[EMPTY]
          BY <3>8 DEF UsesUnit
        <5> QED
          BY <5>1, <5>2, <5>3, <5>4, <5>5, <3>0, <3>2, <3>5 DEF UnitsExact
      <4>2. CASE p \in Consumer
        <5>1. HeldC' = HeldC - 1
          BY <3>8, <4>2, <3>3, <3>4, CountSteps DEF UsesUnit, HeldC
        <5>2. OwedC' = OwedC + 1
          BY <3>8, <4>2, <3>3, <3>4, CountSteps DEF UsesUnit, OwedC
        <5>3. HeldP' = HeldP /\ OwedP' = OwedP
          BY <3>8, <4>2, <3>4 DEF UsesUnit, HeldP, OwedP
        <5>4. puts' = puts /\ gets' = gets + 1
          BY <3>8, <4>2, <3>4 DEF UsesUnit
        <5>5. value'[FULL] = value[FULL] /\ value'[EMPTY] = value[EMPTY]
          BY <3>8 DEF UsesUnit
        <5> QED
          BY <5>1, <5>2, <5>3, <5>4, <5>5, <3>0, <3>2, <3>5 DEF UnitsExact
      <4> QED
        BY <4>1, <4>2, <3>4
    <3>9. ASSUME NEW p \in Proc, PassesUnit(p) PROVE UnitsExact'
      <4>0. HeldP' = HeldP /\ HeldC' = HeldC
        BY <3>9 DEF PassesUnit, HeldP, HeldC
      <4>1. CASE p \in Producer
        <5>1. OwedP' = OwedP - 1
          BY <3>9, <4>1, <3>3, <3>4, CountSteps DEF PassesUnit, OwedP
        <5>2. OwedC' = OwedC
          BY <3>9, <4>1, <3>4 DEF PassesUnit, OwedC
        <5>4. /\ value'[FULL] = value[FULL] + 1 /\ value'[EMPTY] = value[EMPTY]
              /\ puts' = puts /\ gets' = gets
          BY <3>9, <4>1 DEF PassesUnit, Takes, Gives
        <5> QED
          BY <4>0, <5>1, <5>2, <5>4, <3>0, <3>2, <3>5 DEF UnitsExact
      <4>2. CASE p \in Consumer
        <5>1. OwedC' = OwedC - 1
          BY <3>9, <4>2, <3>3, <3>4, CountSteps DEF PassesUnit, OwedC
        <5>2. OwedP' = OwedP
          BY <3>9, <4>2, <3>4 DEF PassesUnit, OwedP
        <5>3. p \notin Producer
          BY <4>2, <3>4
        <5>4. /\ value'[EMPTY] = value[EMPTY] + 1 /\ value'[FULL] = value[FULL]
              /\ puts' = puts /\ gets' = gets
          BY <3>9, <5>3 DEF PassesUnit, Takes, Gives
        <5> QED
          BY <4>0, <5>1, <5>2, <5>4, <3>0, <3>2, <3>5 DEF UnitsExact
      <4> QED
        BY <4>1, <4>2, <3>4
    <3> QED
      BY <2>2, UnitSteps, <3>1, <3>6, <3>7, <3>8, <3>9 DEF UnitsInv
  <2> QED
    BY <2>1, <2>2
<1>3. UnitsInv => BufferBound
  <2> SUFFICES ASSUME UnitsInv PROVE BufferBound
    OBVIOUS
  <2>1. value[FULL] \in Nat /\ value[EMPTY] \in Nat /\ puts \in Nat /\ gets \in Nat
        /\ NBUF \in Nat
    BY Distinct, ProdConsAssumption DEF UnitsInv, PCType, PCCounts
  <2> QED
    BY <2>1, UnitCounts DEF UnitsInv, UnitsExact, BufferBound
<1> QED
  BY <1>1, <1>2, <1>3, PTL DEF PCSpec
=============================================================================
