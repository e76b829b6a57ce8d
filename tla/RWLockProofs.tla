---------------------------- MODULE RWLockProofs ----------------------------
(***************************************************************************)
(* RWLock's safety for any finite number of processes.                     *)
(*                                                                         *)
(* Exclusion alone is not inductive: a writer enters when the counters say *)
(* that nobody is inside, so the counters must be known to be exact; and   *)
(* they stay exact only because a process is in at most one of the lock    *)
(* calls and holds nothing while it is in one (Sane).                      *)
(***************************************************************************)
EXTENDS RWLock, FiniteSetTheorems, TLAPS

\* A process in a lock call holds nothing, and sleeps, is about to re-test or
\* is lost exactly while it is in one.
Sane ==
    \A p \in Proc :
        /\ want[p] # "none" <=> st[p] \in {"sleeping", "woken", "lost"}
        /\ want[p] # "none" => holds[p] = "none"

IInv == TypeOK /\ Counters /\ Exclusion /\ Sane

\* The processes inside rw_wlock_k().
Waiters == {p \in Proc : want[p] = "write"}

-----------------------------------------------------------------------------
\* Cardinalities of the sets of holders and waiters.
LEMMA FiniteParts ==
    /\ IsFiniteSet(Waiters)
    /\ \A k \in Kind : IsFiniteSet(Holders(k))
BY RWAssumption, FS_Subset DEF Waiters, Holders

\* An empty set of processes is one of cardinality 0.
LEMMA NoneIsZero ==
    ASSUME NEW S, IsFiniteSet(S) PROVE Cardinality(S) = 0 <=> S = {}
BY FS_EmptySet

\* One more process, not counted before, makes the count one larger.
LEMMA AddOne ==
    ASSUME NEW S, IsFiniteSet(S), NEW x, x \notin S
    PROVE  Cardinality(S \cup {x}) = Cardinality(S) + 1
BY FS_AddElement

\* One process less, counted before, makes the count one smaller.
LEMMA RemoveOne ==
    ASSUME NEW S, IsFiniteSet(S), NEW x \in S
    PROVE  Cardinality(S \ {x}) = Cardinality(S) - 1
BY FS_RemoveElement

-----------------------------------------------------------------------------
\* A pass of rw_rlock_k()'s loop by a process that holds nothing.
LEMMA RTestStep ==
    ASSUME IInv, NEW p \in Proc, RTest(p), holds[p] = "none", want[p] \in {"none", "read"}
    PROVE  IInv'
<1> USE DEF IInv, TypeOK, Kind, Status
<1>1. CASE ReaderBlocked
  <2>1. /\ holds' = holds /\ readers' = readers /\ writer' = writer
        /\ waiting_writers' = waiting_writers
        /\ want' = [want EXCEPT ![p] = "read"] /\ killed' = killed
        /\ \/ st' = [st EXCEPT ![p] = "sleeping"]
           \/ st' = [st EXCEPT ![p] = "lost"]
    BY <1>1 DEF RTest, GoToSleep
  <2>2. Waiters' = Waiters /\ Holders("read")' = Holders("read")
        /\ Holders("write")' = Holders("write")
    BY <2>1 DEF Waiters, Holders
  <2>3. TypeOK'
    BY <2>1
  <2>4. Counters'
    BY <2>1, <2>2 DEF Counters, Waiters
  <2>5. Exclusion' /\ Sane'
    BY <2>1 DEF Exclusion, Sane
  <2> QED
    BY <2>3, <2>4, <2>5
<1>2. CASE ~ReaderBlocked
  <2>1. /\ readers' = readers + 1 /\ writer' = writer
        /\ waiting_writers' = waiting_writers
        /\ holds' = [holds EXCEPT ![p] = "read"]
        /\ want' = [want EXCEPT ![p] = "none"] /\ killed' = killed
        /\ st' = [st EXCEPT ![p] = "user"]
    BY <1>2 DEF RTest
  <2>2. /\ Waiters' = Waiters
        /\ Holders("read")' = Holders("read") \cup {p}
        /\ Holders("write")' = Holders("write")
        /\ p \notin Holders("read")
    BY <2>1 DEF Waiters, Holders
  <2>3. Counters'
    BY <2>1, <2>2, FiniteParts, AddOne DEF Counters, Waiters
  <2>4. Holders("write") = {}
    BY <1>2, FiniteParts, NoneIsZero DEF ReaderBlocked, Counters
  <2>5. Exclusion'
    BY <2>1, <2>4 DEF Exclusion, Holders
  <2>6. TypeOK' /\ Sane'
    BY <2>1 DEF Sane
  <2> QED
    BY <2>3, <2>5, <2>6
<1> QED
  BY <1>1, <1>2

\* A pass of rw_wlock_k()'s loop by a process that holds nothing; it is
\* counted in `waiting' but not necessarily in Waiters yet.
LEMMA WTestStep ==
    ASSUME IInv, NEW p \in Proc, NEW waiting \in Nat, WTest(p, waiting),
           holds[p] = "none", want[p] \in {"none", "write"},
           waiting = Cardinality(Waiters \cup {p})
    PROVE  IInv'
<1> USE DEF IInv, TypeOK, Kind, Status
<1>1. CASE WriterBlocked
  <2>1. /\ holds' = holds /\ readers' = readers /\ writer' = writer
        /\ waiting_writers' = waiting
        /\ want' = [want EXCEPT ![p] = "write"] /\ killed' = killed
        /\ \/ st' = [st EXCEPT ![p] = "sleeping"]
           \/ st' = [st EXCEPT ![p] = "lost"]
    BY <1>1 DEF WTest, GoToSleep
  <2>2. Waiters' = Waiters \cup {p} /\ Holders("read")' = Holders("read")
        /\ Holders("write")' = Holders("write")
    BY <2>1 DEF Waiters, Holders
  <2>3. TypeOK'
    BY <2>1
  <2>4. Counters'
    BY <2>1, <2>2 DEF Counters, Waiters
  <2>5. Exclusion' /\ Sane'
    BY <2>1 DEF Exclusion, Sane
  <2> QED
    BY <2>3, <2>4, <2>5
<1>2. CASE ~WriterBlocked
  <2>1. /\ readers' = readers /\ writer' = 1
        /\ waiting_writers' = waiting - 1
        /\ holds' = [holds EXCEPT ![p] = "write"]
        /\ want' = [want EXCEPT ![p] = "none"] /\ killed' = killed
        /\ st' = [st EXCEPT ![p] = "user"]
    BY <1>2 DEF WTest
  <2>2. /\ Waiters' = (Waiters \cup {p}) \ {p}
        /\ Holders("read")' = Holders("read")
        /\ Holders("write")' = Holders("write") \cup {p}
        /\ p \notin Holders("write")
    BY <2>1 DEF Waiters, Holders
  <2>3. readers = 0 /\ writer = 0
    BY <1>2 DEF WriterBlocked
  <2>4. IsFiniteSet(Waiters \cup {p})
    BY FiniteParts, FS_AddElement
  <2>5. Cardinality(Waiters') = waiting - 1
    BY <2>2, <2>4, RemoveOne
  <2>6. Cardinality(Holders("write")') = 1
    BY <2>2, <2>3, FiniteParts, AddOne DEF Counters
  <2>7. Counters'
    BY <2>1, <2>2, <2>5, <2>6 DEF Counters, Waiters
  <2>8. Holders("write") = {} /\ Holders("read") = {}
    BY <2>3, FiniteParts, NoneIsZero DEF Counters
  <2>9. Exclusion'
    BY <2>1, <2>8 DEF Exclusion, Holders
  <2>10. waiting - 1 \in Nat
    <3>1. IsFiniteSet((Waiters \cup {p}) \ {p})
      BY <2>4, FS_RemoveElement
    <3> QED
      BY <2>2, <2>5, <3>1, FS_CardinalityType
  <2>11. TypeOK' /\ Sane'
    BY <2>1, <2>10 DEF Sane
  <2> QED
    BY <2>7, <2>9, <2>11
<1> QED
  BY <1>1, <1>2

(***************************************************************************)
(* The inductive invariant: exact counters, exclusion, and no process in   *)
(* two lock calls at once.                                                 *)
(***************************************************************************)
THEOREM Inductive == Spec => []IInv
<1> USE DEF TypeOK, Kind, Status
<1>1. Init => IInv
  <2> SUFFICES ASSUME Init PROVE IInv
    OBVIOUS
  <2>1. Holders("read") = {} /\ Holders("write") = {} /\ Waiters = {}
    BY DEF Init, Holders, Waiters
  <2>2. Counters
    BY <2>1, FS_EmptySet DEF Init, Counters, Waiters
  <2> QED
    BY <2>2 DEF Init, IInv, Exclusion, Sane
<1>2. IInv /\ [Next]_vars => IInv'
  <2> SUFFICES ASSUME IInv, [Next]_vars PROVE IInv'
    OBVIOUS
  <2> USE DEF IInv
  <2>1. ASSUME NEW p \in Proc, RwInit(p) PROVE IInv'
    <3>1. \A q \in Proc : want[q] = "none"
      BY <2>1 DEF RwInit, Sane
    <3>2. Holders("read")' = {} /\ Holders("write")' = {} /\ Waiters' = {}
      BY <2>1, <3>1 DEF RwInit, Holders, Waiters
    <3>3. Counters'
      BY <2>1, <3>2, FS_EmptySet DEF RwInit, Counters, Waiters
    <3> QED
      BY <2>1, <3>1, <3>3 DEF RwInit, Exclusion, Sane
  <2>2. ASSUME NEW p \in Proc, RLock(p) PROVE IInv'
    BY <2>2, RTestStep DEF RLock, MayCall, Sane
  <2>3. ASSUME NEW p \in Proc, WLock(p) PROVE IInv'
    <3>1. p \notin Waiters
      BY <2>3 DEF WLock, MayCall, Sane, Waiters
    <3>2. waiting_writers + 1 = Cardinality(Waiters \cup {p})
      BY <3>1, FiniteParts, AddOne DEF Counters, Waiters
    <3> QED
      BY <2>3, <3>2, WTestStep DEF WLock, MayCall, Sane
  <2>4. ASSUME NEW p \in Proc, Retest(p) PROVE IInv'
    <3>1. CASE want[p] = "read"
      BY <2>4, <3>1, RTestStep DEF Retest, Sane
    <3>2. CASE want[p] = "write"
      <4>1. Waiters \cup {p} = Waiters
        BY <3>2 DEF Waiters
      <4>2. waiting_writers = Cardinality(Waiters \cup {p})
        BY <4>1 DEF Counters, Waiters
      <4> QED
        BY <2>4, <3>2, <4>2, WTestStep DEF Retest, Sane
    <3> QED
      BY <2>4, <3>1, <3>2 DEF Retest
  <2>5. ASSUME NEW p \in Proc, RUnlock(p) PROVE IInv'
    <3>1. /\ Waiters' = Waiters
          /\ Holders("read")' = Holders("read") \ {p} /\ p \in Holders("read")
          /\ Holders("write")' = Holders("write")
      BY <2>5 DEF RUnlock, Waiters, Holders
    <3>2. Counters'
      BY <2>5, <3>1, FiniteParts, RemoveOne DEF RUnlock, Counters, Waiters
    <3>3. readers' \in Nat
      BY <3>1, <3>2, FiniteParts, FS_RemoveElement, FS_CardinalityType DEF Counters
    <3> QED
      BY <2>5, <3>2, <3>3 DEF RUnlock, MayCall, Wakeup, Sleepers, Exclusion, Sane
  <2>6. ASSUME NEW p \in Proc, WUnlock(p) PROVE IInv'
    <3>1. /\ Waiters' = Waiters
          /\ Holders("read")' = Holders("read")
          /\ Holders("write")' = {}
      BY <2>6 DEF WUnlock, Waiters, Holders, Exclusion
    <3>2. Counters'
      BY <2>6, <3>1, FS_EmptySet DEF WUnlock, Counters, Waiters
    <3> QED
      BY <2>6, <3>2 DEF WUnlock, MayCall, Wakeup, Sleepers, Exclusion, Sane
  <2>7. ASSUME NEW p \in Proc, Kill(p) PROVE IInv'
    <3>1. Counters'
      BY <2>7 DEF Kill, lockvars, Counters, Holders
    <3> QED
      BY <2>7, <3>1 DEF Kill, lockvars, Exclusion, Sane
  <2>8. ASSUME NEW p \in Proc, Exit(p) PROVE IInv'
    <3>1. Counters'
      BY <2>8 DEF Exit, lockvars, Counters, Holders
    <3> QED
      BY <2>8, <3>1 DEF Exit, lockvars, Exclusion, Sane
  <2>9. CASE UNCHANGED vars
    BY <2>9 DEF vars, Counters, Holders, Exclusion, Sane
  <2> QED
    BY <2>1, <2>2, <2>3, <2>4, <2>5, <2>6, <2>7, <2>8, <2>9 DEF Next
<1> QED
  BY <1>1, <1>2, PTL DEF Spec

(***************************************************************************)
(* Readers and writers exclude each other, and so do writers, for every    *)
(* number of processes and with processes killed at any time.              *)
(***************************************************************************)
THEOREM ReadersWritersExclude == Spec => []Exclusion
BY Inductive, PTL DEF IInv

(***************************************************************************)
(* The counters of struct rwlock are exact for every number of processes.  *)
(***************************************************************************)
THEOREM CountersExact == Spec => []Counters
BY Inductive, PTL DEF IInv

(***************************************************************************)
(* Writer preference: in every step that lets a reader in, nobody waits in *)
(* rw_wlock_k() or holds the lock for writing.                             *)
(***************************************************************************)
THEOREM WritersPreferred == Spec => WriterPreference
<1> DEFINE A == \A p \in Proc : holds[p] # "read" /\ holds'[p] = "read" =>
                    \A q \in Proc : want[q] # "write" /\ holds[q] # "write"
<1>1. IInv /\ [Next]_vars => [A]_vars
  <2> SUFFICES ASSUME IInv, Next PROVE A
    BY DEF vars
  <2> USE DEF IInv, TypeOK, Kind, Status
  <2>1. ASSUME NEW p \in Proc, RTest(p) PROVE A
    <3>1. CASE ReaderBlocked
      BY <2>1, <3>1 DEF RTest
    <3>2. CASE ~ReaderBlocked
      <4>1. writer = 0 /\ waiting_writers = 0
        BY <3>2 DEF ReaderBlocked
      <4>2. Cardinality(Waiters) = 0 /\ Cardinality(Holders("write")) = 0
        BY <4>1 DEF Counters, Waiters
      <4>3. Waiters = {} /\ Holders("write") = {}
        BY <4>2, FiniteParts, NoneIsZero
      <4> QED
        BY <4>3 DEF Waiters, Holders
    <3> QED
      BY <3>1, <3>2
  <2>2. ASSUME NEW p \in Proc, NEW w, WTest(p, w) PROVE A
    BY <2>2 DEF WTest
  <2>3. ASSUME NEW p \in Proc,
               RwInit(p) \/ RUnlock(p) \/ WUnlock(p) \/ Kill(p) \/ Exit(p)
        PROVE  A
    BY <2>3 DEF RwInit, RUnlock, WUnlock, Kill, Exit
  <2> QED
    BY <2>1, <2>2, <2>3 DEF Next, RLock, WLock, Retest
<1> QED
  BY <1>1, Inductive, PTL DEF Spec, WriterPreference

(***************************************************************************)
(* Nobody is left asleep on a free lock, for every number of processes: a  *)
(* sleeper always has a holder, or a reader a waiting writer, to wait for. *)
(* (Not that these still act: a killed holder never unlocks.)              *)
(***************************************************************************)
THEOREM NoOneForgotten == Spec => []SleepersHaveReason
<1> USE DEF TypeOK, Kind, Status
<1>1. Init => SleepersHaveReason
  BY DEF Init, SleepersHaveReason, Sleepers
<1>2. IInv /\ SleepersHaveReason /\ [Next]_vars => SleepersHaveReason'
  <2> SUFFICES ASSUME IInv, SleepersHaveReason, [Next]_vars
               PROVE  SleepersHaveReason'
    OBVIOUS
  <2> USE DEF IInv, SleepersHaveReason, Sleepers
  <2>1. ASSUME NEW p \in Proc, RTest(p), want[p] # "write" PROVE SleepersHaveReason'
    <3>1. CASE ReaderBlocked
      <4>1. (\E q \in Proc : holds[q] = "write") \/ (\E q \in Proc : want[q] = "write")
        <5>1. Cardinality(Holders("write")) # 0 \/ Cardinality(Waiters) # 0
          BY <3>1 DEF ReaderBlocked, Counters, Waiters
        <5>2. Holders("write") # {} \/ Waiters # {}
          BY <5>1, FS_EmptySet
        <5> QED
          BY <5>2 DEF Holders, Waiters
      <4>2. /\ holds' = holds /\ want' = [want EXCEPT ![p] = "read"]
            /\ \A q \in Proc : q # p => st'[q] = st[q]
        BY <2>1, <3>1 DEF RTest, GoToSleep
      <4>3. CASE \E q \in Proc : holds[q] = "write"
        BY <4>2, <4>3
      <4>4. CASE /\ \A q \in Proc : holds[q] # "write"
                 /\ \E q \in Proc : want[q] = "write"
        BY <2>1, <4>2, <4>4
      <4> QED
        BY <4>1, <4>3, <4>4
    <3>2. CASE ~ReaderBlocked
      BY <2>1, <3>2 DEF RTest
    <3> QED
      BY <3>1, <3>2
  <2>2. ASSUME NEW p \in Proc, NEW w, WTest(p, w), holds[p] = "none"
        PROVE  SleepersHaveReason'
    <3>1. CASE WriterBlocked
      <4>1. Cardinality(Holders("write")) # 0 \/ Cardinality(Holders("read")) # 0
        BY <3>1 DEF WriterBlocked, Counters
      <4>2. Holders("write") # {} \/ Holders("read") # {}
        BY <4>1, FS_EmptySet
      <4>3. \E q \in Proc : holds[q] # "none"
        BY <4>2 DEF Holders
      <4> QED
        BY <2>2, <3>1, <4>3 DEF WTest
    <3>2. CASE ~WriterBlocked
      BY <2>2, <3>2 DEF WTest
    <3> QED
      BY <3>1, <3>2
  <2>3. ASSUME NEW p \in Proc, RwInit(p) PROVE SleepersHaveReason'
    BY <2>3 DEF RwInit, Sane
  <2>4. ASSUME NEW p \in Proc, RUnlock(p) PROVE SleepersHaveReason'
    <3>1. CASE LastReader
      BY <2>4, <3>1 DEF RUnlock, Wakeup
    <3>2. CASE ~LastReader
      <4>1. p \in Holders("read") /\ Cardinality(Holders("read")) # 1
        BY <2>4, <3>2 DEF RUnlock, LastReader, Counters, Holders
      <4>2. Holders("read") # {p}
        BY <4>1, FS_Singleton
      <4>3. PICK q \in Proc : q # p /\ holds[q] = "read"
        BY <4>1, <4>2 DEF Holders
      <4> QED
        BY <2>4, <3>2, <4>3 DEF RUnlock
    <3> QED
      BY <3>1, <3>2
  <2>5. ASSUME NEW p \in Proc, WUnlock(p) PROVE SleepersHaveReason'
    BY <2>5 DEF WUnlock, Wakeup
  <2>6. ASSUME NEW p \in Proc, Kill(p) PROVE SleepersHaveReason'
    BY <2>6 DEF Kill, lockvars
  <2>7. ASSUME NEW p \in Proc, Exit(p) PROVE SleepersHaveReason'
    BY <2>7 DEF Exit, lockvars
  <2>8. CASE UNCHANGED vars
    BY <2>8 DEF vars
  <2>9. ASSUME NEW p \in Proc, RLock(p) PROVE SleepersHaveReason'
    BY <2>1, <2>9 DEF RLock, MayCall, Sane
  <2>10. ASSUME NEW p \in Proc, WLock(p) PROVE SleepersHaveReason'
    BY <2>2, <2>10 DEF WLock
  <2>11. ASSUME NEW p \in Proc, Retest(p) PROVE SleepersHaveReason'
    BY <2>1, <2>2, <2>11 DEF Retest, Sane
  <2> QED
    BY <2>3, <2>4, <2>5, <2>6, <2>7, <2>8, <2>9, <2>10, <2>11 DEF Next
<1> QED
  BY <1>1, <1>2, Inductive, PTL DEF Spec
=============================================================================
