-------------------------- MODULE CollectorsProofs --------------------------
(***************************************************************************)
(* What is proved of the machines of MCCollectors, each for any values of  *)
(* its constants: the lock under which several Catho collectors share a    *)
(* state file; the collectors the server runs itself, on any board and     *)
(* course of failures; the pass that looks for repeats, on any corpus that *)
(* grows while it runs; and the watch over collections and deliveries, for *)
(* any schedule.                                                           *)
(***************************************************************************)
EXTENDS CathoLock, SourceCollectors, ShadowDedup, Watchdog,
        FiniteSetTheorems, WellFoundedInduction, TLAPS

-----------------------------------------------------------------------------
(* Finite sets, their least element and their layout in a sequence.        *)

(* A sequence of all elements of a set, each once.                         *)
LEMMA SeqOfSet ==
  ASSUME NEW S, IsFiniteSet(S), NEW s \in SetToSeqs(S)
  PROVE  /\ s \in [1..Cardinality(S) -> S] /\ Len(s) = Cardinality(S)
         /\ ToSet(s) = S
         /\ \A i, j \in DOMAIN s : s[i] = s[j] => i = j
<1> DEFINE n == Cardinality(S)
<1>1. n \in Nat
  BY FS_CardinalityType
<1>2. s \in [1..n -> S] /\ \A i, j \in 1..n : i # j => s[i] # s[j]
  BY DEF SetToSeqs
<1>3. s \in Injection(1..n, S)
  BY <1>2 DEF Injection, IsInjective
<1>4. IsFiniteSet(1..n) /\ Cardinality(1..n) = n
  BY <1>1, FS_Interval
<1>5. s \in Surjection(1..n, S)
  BY <1>3, <1>4, FS_Injection
<1>6. \A x \in S : \E i \in 1..n : s[i] = x
  BY <1>5 DEF Surjection
<1>7. Len(s) = n /\ DOMAIN s = 1..n
  BY <1>1, <1>2
<1> QED
  BY <1>2, <1>6, <1>7 DEF ToSet

(* A finite set that R orders strictly can be laid out in its order: an    *)
(* element comes after as many others as are below it.                     *)
LEMMA SortedSequenceExists ==
  ASSUME NEW S, IsFiniteSet(S), NEW R,
         \A x \in S : <<x, x>> \notin R,
         \A x, y \in S : x # y => <<x, y>> \in R \/ <<y, x>> \in R,
         \A x, y, z \in S : <<x, y>> \in R /\ <<y, z>> \in R => <<x, z>> \in R
  PROVE  \E s \in SetToSeqs(S) : \A i, j \in DOMAIN s : i < j => <<s[i], s[j]>> \in R
<1> DEFINE n == Cardinality(S)
           Below(x) == {y \in S : <<y, x>> \in R}
           rank == [x \in S |-> Cardinality(Below(x))]
<1>1. n \in Nat
  BY FS_CardinalityType
<1>2. ASSUME NEW x \in S
      PROVE  IsFiniteSet(Below(x)) /\ Cardinality(Below(x)) \in 0..(n - 1)
  <2>1. IsFiniteSet(S \ {x}) /\ Cardinality(S \ {x}) = n - 1
    BY FS_RemoveElement
  <2>2. Below(x) \subseteq S \ {x}
    OBVIOUS
  <2>3. IsFiniteSet(Below(x)) /\ Cardinality(Below(x)) <= Cardinality(S \ {x})
    BY <2>1, <2>2, FS_Subset
  <2>4. Cardinality(Below(x)) \in Nat
    BY <2>3, FS_CardinalityType
  <2> QED
    BY <1>1, <2>1, <2>3, <2>4
<1>3. rank \in [S -> 0..(n - 1)] /\ \A x \in S : rank[x] = Cardinality(Below(x))
  BY <1>2
<1>0. \A x \in S : \A y \in S : <<x, y>> \in R => x \in Below(y) /\ Below(x) \subseteq Below(y) \ {x}
  OBVIOUS
<1> HIDE DEF rank, Below, n
<1>4. ASSUME NEW x \in S, NEW y \in S, <<x, y>> \in R
      PROVE  rank[x] < rank[y]
  <2>1. IsFiniteSet(Below(y) \ {x}) /\ Cardinality(Below(y) \ {x}) = Cardinality(Below(y)) - 1
    <3>1. x \in Below(y) /\ IsFiniteSet(Below(y))
      BY <1>0, <1>2, <1>4
    <3> QED
      BY <3>1, FS_RemoveElement
  <2>2. Below(x) \subseteq Below(y) \ {x}
    BY <1>0, <1>4
  <2>3. Cardinality(Below(x)) <= Cardinality(Below(y) \ {x})
    BY <2>1, <2>2, FS_Subset
  <2> QED
    BY <1>1, <1>2, <1>3, <2>1, <2>3
<1>5. ASSUME NEW x \in S, NEW y \in S, rank[x] = rank[y]
      PROVE  x = y
  <2>1. rank[x] \in Int /\ rank[y] \in Int /\ ~(rank[x] < rank[y]) /\ ~(rank[y] < rank[x])
    BY <1>1, <1>3, <1>5
  <2> QED
    BY <1>4, <2>1
<1>6. rank \in Injection(S, 0..(n - 1))
  BY <1>3, <1>5 DEF Injection, IsInjective
<1>7. IsFiniteSet(0..(n - 1)) /\ Cardinality(0..(n - 1)) = n
  BY <1>1, FS_Interval, 0 \in Int, n - 1 \in Int
<1>8. \A k \in 0..(n - 1) : \E x \in S : rank[x] = k
  <2>1. rank \in Surjection(S, 0..(n - 1))
    BY <1>6, <1>7, FS_Injection DEF n
  <2> QED
    BY <2>1 DEF Surjection
<1> DEFINE s == [k \in 1..n |-> CHOOSE x \in S : rank[x] = k - 1]
<1>9. ASSUME NEW k \in 1..n
      PROVE  s[k] \in S /\ rank[s[k]] = k - 1
  <2>1. k - 1 \in 0..(n - 1)
    BY <1>1
  <2>2. \E x \in S : rank[x] = k - 1
    BY <1>8, <2>1
  <2> QED
    BY <2>2
<1>10. s \in [1..n -> S] /\ DOMAIN s = 1..n
  BY <1>9
<1> HIDE DEF s
<1>11. \A i, j \in 1..n : i # j => s[i] # s[j]
  BY <1>1, <1>9
<1>12. s \in SetToSeqs(S)
  BY <1>10, <1>11 DEF SetToSeqs, n
<1>13. ASSUME NEW i \in 1..n, NEW j \in 1..n, i < j
       PROVE  <<s[i], s[j]>> \in R
  <2>1. ~(rank[s[j]] < rank[s[i]])
    BY <1>1, <1>9, <1>13
  <2>2. s[i] # s[j] /\ s[i] \in S /\ s[j] \in S
    BY <1>9, <1>11, <1>13
  <2> QED
    BY <1>4, <2>1, <2>2
<1> QED
  BY <1>10, <1>12, <1>13

(* The least of some natural numbers is one of them.                       *)
LEMMA LeastOfNaturals ==
  ASSUME NEW S \in SUBSET Nat, S # {}
  PROVE  Min(S) \in S /\ \A x \in S : Min(S) <= x
<1> DEFINE R == OpToRel(<, Nat)
<1>1. IsWellFoundedOn(R, Nat)
  BY NatLessThanWellFounded
<1>2. PICK t \in S : \A u \in S : ~(<<u, t>> \in R)
  BY <1>1, WFMin
<1>3. \A u \in S : ~(u < t)
  BY <1>2 DEF OpToRel
<1>4. \A u \in S : t <= u
  BY <1>3
<1> QED
  BY <1>4 DEF Min

(* The greatest of some natural numbers below a bound is one of them.      *)
LEMMA GreatestOfBounded ==
  ASSUME NEW S \in SUBSET Nat, S # {}, NEW n \in Nat, \A x \in S : x <= n
  PROVE  Max(S) \in S /\ \A x \in S : Max(S) >= x
<1> DEFINE R == OpToRel(<, Nat)
           T == {n - x : x \in S}
<1>1. IsWellFoundedOn(R, Nat)
  BY NatLessThanWellFounded
<1>2. T \subseteq Nat /\ T # {}
  <2>1. \A x \in S : n - x \in Nat
    OBVIOUS
  <2> QED
    BY <2>1
<1>3. PICK t \in T : \A u \in T : ~(<<u, t>> \in R)
  BY <1>1, <1>2, WFMin
<1>4. \A u \in T : ~(u < t)
  BY <1>2, <1>3 DEF OpToRel
<1>5. PICK m \in S : t = n - m
  OBVIOUS
<1>6. \A x \in S : n - x \in T
  OBVIOUS
<1>7. \A x \in S : m >= x
  BY <1>4, <1>5, <1>6
<1> QED
  BY <1>7 DEF Max

-----------------------------------------------------------------------------
(* The lock of the Catho collector (CathoLock), for any number of          *)
(* processes, any of which may miss their heartbeats, as long as nobody    *)
(* dies or is held up inside the takeover mutex.                           *)

(* A process inside the takeover mutex has its file, which no contender    *)
(* finds old.                                                              *)
MutexHeld ==
    /\ mutex = Absent \/ mutex.fresh
    /\ \A p \in Procs : pc[p] \notin {"mutexRemove", "mutexRecreate"}
    /\ \A p \in Procs : pc[p] \in InMutex => mutex.owner = p
    /\ mutex # Absent => pc[mutex.owner] \in InMutex

(* What a process concluded about the lock file inside the mutex still     *)
(* holds when it acts on it; an owner that keeps its heartbeat has the     *)
(* file, and fresh.                                                        *)
LockHeld ==
    /\ \A p \in Procs : pc[p] = "remove" => StillStale
    /\ \A p \in Procs : pc[p] \in {"refreshTouch", "releaseRemove"} => lock.owner = p
    /\ \A p \in Procs \ Suspendable : pc[p] \in Owning => lock.owner = p /\ lock.fresh

IInv == TypeOK /\ MutexHeld /\ LockHeld

File == {Absent} \cup [owner : Procs, fresh : BOOLEAN]

(* Creating, touching and ageing a file yields a file.                     *)
LEMMA FileTypes ==
  /\ Absent \in File
  /\ \A p \in Procs : [owner |-> p, fresh |-> TRUE] \in File
  /\ \A f \in File : f # Absent =>
        /\ [f EXCEPT !.fresh = TRUE] \in File
        /\ [f EXCEPT !.fresh = FALSE] \in File
  /\ \A f \in File : f.fresh => f # Absent
<1>1. Absent \in File /\ \A p \in Procs : [owner |-> p, fresh |-> TRUE] \in File
  BY DEF File
<1>2. ASSUME NEW f \in File, f # Absent
      PROVE  [f EXCEPT !.fresh = TRUE] \in File /\ [f EXCEPT !.fresh = FALSE] \in File
  <2>1. f \in [owner : Procs, fresh : BOOLEAN]
    BY <1>2 DEF File
  <2>2. \A b \in BOOLEAN : [f EXCEPT !.fresh = b] \in [owner : Procs, fresh : BOOLEAN]
    BY <2>1
  <2> QED
    BY <2>2 DEF File
<1>3. \A f \in File : f.fresh => f # Absent
  BY DEF Absent
<1> QED
  BY <1>1, <1>2, <1>3

(* The types are kept.                                                     *)
LEMMA TypesKept ==
  ASSUME TypeOK, MutexHeld, LockHeld, [Next]_vars
  PROVE  TypeOK'
<1>1. lock \in File /\ mutex \in File /\ pc \in [Procs -> Stage]
  BY DEF TypeOK, File
<1>2. pc' \in [Procs -> Stage]
  <2> USE DEF Goto, Stage, Acquiring, InMutex, Refreshing, Releasing
  <2>1. ASSUME NEW p \in Procs, TryCreate(p) PROVE pc' \in [Procs -> Stage]
    BY <1>1, <2>1 DEF TryCreate
  <2>2. ASSUME NEW p \in Procs, StatLock(p) PROVE pc' \in [Procs -> Stage]
    BY <1>1, <2>2 DEF StatLock
  <2>3. ASSUME NEW p \in Procs, CreateMutex(p) PROVE pc' \in [Procs -> Stage]
    BY <1>1, <2>3 DEF CreateMutex
  <2>4. ASSUME NEW p \in Procs, StatMutex(p) PROVE pc' \in [Procs -> Stage]
    BY <1>1, <2>4 DEF StatMutex
  <2>5. ASSUME NEW p \in Procs, RemoveMutex(p) PROVE pc' \in [Procs -> Stage]
    BY <1>1, <2>5 DEF RemoveMutex
  <2>6. ASSUME NEW p \in Procs, Recheck(p) PROVE pc' \in [Procs -> Stage]
    BY <1>1, <2>6 DEF Recheck
  <2>7. ASSUME NEW p \in Procs, RemoveLock(p) PROVE pc' \in [Procs -> Stage]
    BY <1>1, <2>7 DEF RemoveLock
  <2>8. ASSUME NEW p \in Procs, CreateLock(p) PROVE pc' \in [Procs -> Stage]
    BY <1>1, <2>8 DEF CreateLock
  <2>9. ASSUME NEW p \in Procs, RefreshEnter(p) PROVE pc' \in [Procs -> Stage]
    BY <1>1, <2>9 DEF RefreshEnter
  <2>10. ASSUME NEW p \in Procs, RefreshCheck(p) PROVE pc' \in [Procs -> Stage]
    BY <1>1, <2>10 DEF RefreshCheck
  <2>11. ASSUME NEW p \in Procs, RefreshTouch(p) PROVE pc' \in [Procs -> Stage]
    BY <1>1, <2>11 DEF RefreshTouch
  <2>12. ASSUME NEW p \in Procs, ReleaseEnter(p) PROVE pc' \in [Procs -> Stage]
    BY <1>1, <2>12 DEF ReleaseEnter
  <2>13. ASSUME NEW p \in Procs, ReleaseCheck(p) PROVE pc' \in [Procs -> Stage]
    BY <1>1, <2>13 DEF ReleaseCheck
  <2>14. ASSUME NEW p \in Procs, ReleaseRemove(p) PROVE pc' \in [Procs -> Stage]
    BY <1>1, <2>14 DEF ReleaseRemove
  <2>15. ASSUME NEW p \in Procs, DropMutex(p) PROVE pc' \in [Procs -> Stage]
    BY <1>1, <2>15 DEF DropMutex
  <2>16. ASSUME NEW p \in Procs, Crash(p) PROVE pc' \in [Procs -> Stage]
    BY <1>1, <2>16 DEF Crash
  <2>17. CASE LockGoesStale
    BY <1>1, <2>17 DEF LockGoesStale
  <2>18. CASE MutexGoesStale
    BY <1>1, <2>18 DEF MutexGoesStale
  <2>19. CASE UNCHANGED vars
    BY <1>1, <2>19 DEF vars
  <2> QED
    BY <2>1, <2>2, <2>3, <2>4, <2>5, <2>6, <2>7, <2>8, <2>9,
       <2>10, <2>11, <2>12, <2>13, <2>14, <2>15, <2>16, <2>17, <2>18, <2>19
    DEF Next, Acquire, Refresh, Release
<1>3. lock' \in File
  <2>1. ASSUME NEW p \in Procs, TryCreate(p) PROVE lock' \in File
    BY <1>1, <2>1, FileTypes DEF TryCreate
  <2>2. ASSUME NEW p \in Procs, RemoveLock(p) PROVE lock' \in File
    BY <1>1, <2>2, FileTypes DEF RemoveLock
  <2>3. ASSUME NEW p \in Procs, CreateLock(p) PROVE lock' \in File
    BY <1>1, <2>3, FileTypes DEF CreateLock
  <2>4. ASSUME NEW p \in Procs, RefreshTouch(p) PROVE lock' \in File
    BY <1>1, <2>4, FileTypes DEF RefreshTouch
  <2>5. ASSUME NEW p \in Procs, ReleaseRemove(p) PROVE lock' \in File
    BY <1>1, <2>5, FileTypes DEF ReleaseRemove
  <2>6. CASE LockGoesStale
    BY <1>1, <2>6, FileTypes DEF LockGoesStale
  <2>7. CASE UNCHANGED lock
    BY <1>1, <2>7
  <2> QED
    BY <2>1, <2>2, <2>3, <2>4, <2>5, <2>6, <2>7
    DEF Next, Acquire, Refresh, Release, vars, StatLock, CreateMutex, StatMutex, RemoveMutex,
        Recheck, RefreshEnter, RefreshCheck, ReleaseEnter, ReleaseCheck, DropMutex, Crash,
        MutexGoesStale
<1>4. mutex' \in File
  <2>1. ASSUME NEW p \in Procs, CreateMutex(p) PROVE mutex' \in File
    BY <1>1, <2>1, FileTypes DEF CreateMutex
  <2>2. ASSUME NEW p \in Procs, RemoveMutex(p) PROVE mutex' \in File
    BY <1>1, <2>2, FileTypes DEF RemoveMutex
  <2>3. ASSUME NEW p \in Procs, RefreshEnter(p) PROVE mutex' \in File
    BY <1>1, <2>3, FileTypes DEF RefreshEnter
  <2>4. ASSUME NEW p \in Procs, ReleaseEnter(p) PROVE mutex' \in File
    BY <1>1, <2>4, FileTypes DEF ReleaseEnter
  <2>5. ASSUME NEW p \in Procs, DropMutex(p) PROVE mutex' \in File
    BY <1>1, <2>5, FileTypes DEF DropMutex
  <2>6. CASE MutexGoesStale
    BY <1>1, <2>6, FileTypes DEF MutexGoesStale
  <2>7. CASE UNCHANGED mutex
    BY <1>1, <2>7
  <2> QED
    BY <2>1, <2>2, <2>3, <2>4, <2>5, <2>6, <2>7
    DEF Next, Acquire, Refresh, Release, vars, TryCreate, StatLock, StatMutex, Recheck, RemoveLock,
        CreateLock, RefreshCheck, RefreshTouch, ReleaseCheck, ReleaseRemove, Crash, LockGoesStale
<1> QED
  BY <1>2, <1>3, <1>4 DEF TypeOK, File

(* The mutex is kept.                                                      *)
LEMMA MutexKept ==
  ASSUME MutexFaults = {}, TypeOK, MutexHeld, [Next]_vars
  PROVE  MutexHeld'
<1> USE NoneAssumption DEF TypeOK, MutexHeld, Stage, Acquiring, InMutex, Refreshing, Releasing, Goto, Absent
<1>1. ASSUME NEW p \in Procs, TryCreate(p) PROVE MutexHeld'
  BY <1>1 DEF TryCreate
<1>2. ASSUME NEW p \in Procs, StatLock(p) PROVE MutexHeld'
  BY <1>2 DEF StatLock
<1>3. ASSUME NEW p \in Procs, CreateMutex(p) PROVE MutexHeld'
  BY <1>3 DEF CreateMutex
<1>4. ASSUME NEW p \in Procs, StatMutex(p) PROVE MutexHeld'
  BY <1>4 DEF StatMutex, Abandoned
<1>5. ASSUME NEW p \in Procs, RemoveMutex(p) PROVE MutexHeld'
  BY <1>5 DEF RemoveMutex
<1>6. ASSUME NEW p \in Procs, Recheck(p) PROVE MutexHeld'
  BY <1>6 DEF Recheck, StillStale
<1>7. ASSUME NEW p \in Procs, RemoveLock(p) PROVE MutexHeld'
  BY <1>7 DEF RemoveLock
<1>8. ASSUME NEW p \in Procs, CreateLock(p) PROVE MutexHeld'
  BY <1>8 DEF CreateLock
<1>9. ASSUME NEW p \in Procs, RefreshEnter(p) PROVE MutexHeld'
  BY <1>9 DEF RefreshEnter
<1>10. ASSUME NEW p \in Procs, RefreshCheck(p) PROVE MutexHeld'
  BY <1>10 DEF RefreshCheck
<1>11. ASSUME NEW p \in Procs, RefreshTouch(p) PROVE MutexHeld'
  BY <1>11 DEF RefreshTouch
<1>12. ASSUME NEW p \in Procs, ReleaseEnter(p) PROVE MutexHeld'
  BY <1>12 DEF ReleaseEnter
<1>13. ASSUME NEW p \in Procs, ReleaseCheck(p) PROVE MutexHeld'
  BY <1>13 DEF ReleaseCheck
<1>14. ASSUME NEW p \in Procs, ReleaseRemove(p) PROVE MutexHeld'
  BY <1>14 DEF ReleaseRemove
<1>15. ASSUME NEW p \in Procs, DropMutex(p) PROVE MutexHeld'
  BY <1>15 DEF DropMutex
<1>16. ASSUME NEW p \in Procs, Crash(p) PROVE MutexHeld'
  BY <1>16 DEF Crash
<1>17. CASE LockGoesStale
  BY <1>17 DEF LockGoesStale
<1>18. CASE MutexGoesStale
  BY <1>18 DEF MutexGoesStale
<1>19. CASE UNCHANGED vars
  BY <1>19 DEF vars
<1> QED
  BY <1>1, <1>2, <1>3, <1>4, <1>5, <1>6, <1>7, <1>8, <1>9,
     <1>10, <1>11, <1>12, <1>13, <1>14, <1>15, <1>16, <1>17, <1>18, <1>19
  DEF Next, Acquire, Refresh, Release

(* The lock is kept: whoever touches it inside the mutex is alone there.   *)
LEMMA LockKept ==
  ASSUME TypeOK, MutexHeld, LockHeld, [Next]_vars
  PROVE  LockHeld'
<1> USE NoneAssumption DEF TypeOK, MutexHeld, LockHeld, StillStale, Owning, Stage, Acquiring,
        InMutex, Refreshing, Releasing, Goto, Absent
<1>1. ASSUME NEW p \in Procs, TryCreate(p) PROVE LockHeld'
  BY <1>1 DEF TryCreate
<1>2. ASSUME NEW p \in Procs, StatLock(p) PROVE LockHeld'
  BY <1>2 DEF StatLock
<1>3. ASSUME NEW p \in Procs, CreateMutex(p) PROVE LockHeld'
  BY <1>3 DEF CreateMutex
<1>4. ASSUME NEW p \in Procs, StatMutex(p) PROVE LockHeld'
  BY <1>4 DEF StatMutex, Abandoned
<1>5. ASSUME NEW p \in Procs, RemoveMutex(p) PROVE LockHeld'
  BY <1>5 DEF RemoveMutex
<1>6. ASSUME NEW p \in Procs, Recheck(p) PROVE LockHeld'
  BY <1>6 DEF Recheck, StillStale
<1>7. ASSUME NEW p \in Procs, RemoveLock(p) PROVE LockHeld'
  BY <1>7 DEF RemoveLock
<1>8. ASSUME NEW p \in Procs, CreateLock(p) PROVE LockHeld'
  BY <1>8 DEF CreateLock
<1>9. ASSUME NEW p \in Procs, RefreshEnter(p) PROVE LockHeld'
  BY <1>9 DEF RefreshEnter
<1>10. ASSUME NEW p \in Procs, RefreshCheck(p) PROVE LockHeld'
  BY <1>10 DEF RefreshCheck
<1>11. ASSUME NEW p \in Procs, RefreshTouch(p) PROVE LockHeld'
  BY <1>11 DEF RefreshTouch
<1>12. ASSUME NEW p \in Procs, ReleaseEnter(p) PROVE LockHeld'
  BY <1>12 DEF ReleaseEnter
<1>13. ASSUME NEW p \in Procs, ReleaseCheck(p) PROVE LockHeld'
  BY <1>13 DEF ReleaseCheck
<1>14. ASSUME NEW p \in Procs, ReleaseRemove(p) PROVE LockHeld'
  BY <1>14 DEF ReleaseRemove
<1>15. ASSUME NEW p \in Procs, DropMutex(p) PROVE LockHeld'
  BY <1>15 DEF DropMutex
<1>16. ASSUME NEW p \in Procs, Crash(p) PROVE LockHeld'
  BY <1>16 DEF Crash
<1>17. CASE LockGoesStale
  BY <1>17 DEF LockGoesStale
<1>18. CASE MutexGoesStale
  BY <1>18 DEF MutexGoesStale
<1>19. CASE UNCHANGED vars
  BY <1>19 DEF vars
<1> QED
  BY <1>1, <1>2, <1>3, <1>4, <1>5, <1>6, <1>7, <1>8, <1>9,
     <1>10, <1>11, <1>12, <1>13, <1>14, <1>15, <1>16, <1>17, <1>18, <1>19
  DEF Next, Acquire, Refresh, Release

(* The inductive invariant holds in every reachable state.                 *)
LEMMA Invariance == ASSUME MutexFaults = {} PROVE Spec => []IInv
<1>1. Init => IInv
  BY NoneAssumption DEF Init, IInv, TypeOK, MutexHeld, LockHeld, Absent, Stage, InMutex,
     Owning, Refreshing, Releasing
<1>2. IInv /\ [Next]_vars => IInv'
  BY TypesKept, MutexKept, LockKept DEF IInv
<1> QED
  BY <1>1, <1>2, PTL DEF Spec

(* The variables of the processes keep their types.                        *)
THEOREM TypeInvariant == ASSUME MutexFaults = {} PROVE Spec => []TypeOK
<1>1. IInv => TypeOK
  BY DEF IInv
<1> QED
  BY <1>1, Invariance, PTL

(* One process at a time is inside the takeover mutex.                     *)
THEOREM MutexExcludes == ASSUME MutexFaults = {} PROVE Spec => []OneInMutex
<1>1. IInv => OneInMutex
  BY DEF IInv, MutexHeld, OneInMutex
<1> QED
  BY <1>1, Invariance, PTL

(* Processes that keep their heartbeats never own together.                *)
THEOREM LockExcludes == ASSUME MutexFaults = {} PROVE Spec => []OneOwner
<1>1. IInv => OneOwner
  BY DEF IInv, LockHeld, OneOwner
<1> QED
  BY <1>1, Invariance, PTL

(* No touch and no removal of the lock file hits another owner's.          *)
THEOREM CheckHolds == ASSUME MutexFaults = {} PROVE Spec => []CheckedOwnerIsOwner
<1>1. IInv => CheckedOwnerIsOwner
  BY DEF IInv, LockHeld, CheckedOwnerIsOwner
<1> QED
  BY <1>1, Invariance, PTL

(* Every step of the processes is a step of the lease, or none.            *)
LEMMA StepIsLeaseStep ==
  ASSUME MutexFaults = {}, IInv, [Next]_vars
  PROVE  [Lease!Next]_Lease!vars
<1> DEFINE leaving == {q \in Procs : pc[q] = "releaseRemove"}
<1> USE NoneAssumption DEF IInv, TypeOK, Stage, Acquiring, InMutex, Refreshing, Releasing, Goto,
        Absent, Lease!vars, Lease!Next
<1>1. ASSUME NEW p \in Procs, TryCreate(p) PROVE [Lease!Next]_Lease!vars
  <2>1. leaving' = leaving
    BY <1>1 DEF TryCreate
  <2>2. CASE lock = Absent
    <3>1. Lease!Grant(p)
      BY <1>1, <2>1, <2>2 DEF TryCreate, Lease!Grant
    <3> QED
      BY <3>1
  <2>3. CASE lock # Absent
    BY <1>1, <2>1, <2>3 DEF TryCreate
  <2> QED
    BY <2>2, <2>3
<1>2. ASSUME NEW p \in Procs, StatLock(p) PROVE [Lease!Next]_Lease!vars
  <2>1. leaving' = leaving
    BY <1>2 DEF StatLock
  <2> QED
    BY <1>2, <2>1 DEF StatLock
<1>3. ASSUME NEW p \in Procs, CreateMutex(p) PROVE [Lease!Next]_Lease!vars
  <2>1. leaving' = leaving
    BY <1>3 DEF CreateMutex
  <2> QED
    BY <1>3, <2>1 DEF CreateMutex
<1>4. ASSUME NEW p \in Procs, StatMutex(p) PROVE [Lease!Next]_Lease!vars
  <2>1. leaving' = leaving
    BY <1>4 DEF StatMutex, Abandoned
  <2> QED
    BY <1>4, <2>1 DEF StatMutex, Abandoned
<1>5. ASSUME NEW p \in Procs, RemoveMutex(p) PROVE [Lease!Next]_Lease!vars
  <2>1. leaving' = leaving
    BY <1>5 DEF RemoveMutex
  <2> QED
    BY <1>5, <2>1 DEF RemoveMutex
<1>6. ASSUME NEW p \in Procs, Recheck(p) PROVE [Lease!Next]_Lease!vars
  <2>1. leaving' = leaving
    BY <1>6 DEF Recheck, StillStale
  <2> QED
    BY <1>6, <2>1 DEF Recheck, StillStale
<1>7. ASSUME NEW p \in Procs, RemoveLock(p) PROVE [Lease!Next]_Lease!vars
  <2>1. leaving' = leaving
    BY <1>7 DEF RemoveLock
  <2>2. lock # Absent /\ ~lock.fresh
    BY <1>7 DEF RemoveLock, LockHeld, StillStale
  <2>3. lock.owner \in Procs /\ lock.owner \notin leaving
    BY <1>7, <2>2 DEF RemoveLock, MutexHeld
  <2>4. Lease!Evict(lock.owner)
    BY <1>7, <2>1, <2>2, <2>3 DEF RemoveLock, Lease!Evict
  <2> QED
    BY <2>3, <2>4
<1>8. ASSUME NEW p \in Procs, CreateLock(p) PROVE [Lease!Next]_Lease!vars
  <2>1. leaving' = leaving
    BY <1>8 DEF CreateLock
  <2>2. CASE lock = Absent
    <3>1. Lease!Grant(p)
      BY <1>8, <2>1, <2>2 DEF CreateLock, Lease!Grant
    <3> QED
      BY <3>1
  <2>3. CASE lock # Absent
    BY <1>8, <2>1, <2>3 DEF CreateLock
  <2> QED
    BY <2>2, <2>3
<1>9. ASSUME NEW p \in Procs, RefreshEnter(p) PROVE [Lease!Next]_Lease!vars
  <2>1. leaving' = leaving
    BY <1>9 DEF RefreshEnter
  <2> QED
    BY <1>9, <2>1 DEF RefreshEnter
<1>10. ASSUME NEW p \in Procs, RefreshCheck(p) PROVE [Lease!Next]_Lease!vars
  <2>1. leaving' = leaving
    BY <1>10 DEF RefreshCheck
  <2> QED
    BY <1>10, <2>1 DEF RefreshCheck
<1>11. ASSUME NEW p \in Procs, RefreshTouch(p) PROVE [Lease!Next]_Lease!vars
  <2>1. leaving' = leaving
    BY <1>11 DEF RefreshTouch
  <2>2. lock.owner = p
    BY <1>11 DEF RefreshTouch, LockHeld
  <2>3. Lease!Renew(p)
    BY <1>11, <2>1, <2>2 DEF RefreshTouch, Lease!Renew
  <2> QED
    BY <2>3
<1>12. ASSUME NEW p \in Procs, ReleaseEnter(p) PROVE [Lease!Next]_Lease!vars
  <2>1. leaving' = leaving
    BY <1>12 DEF ReleaseEnter
  <2> QED
    BY <1>12, <2>1 DEF ReleaseEnter
<1>13. ASSUME NEW p \in Procs, ReleaseCheck(p) PROVE [Lease!Next]_Lease!vars
  <2>1. CASE lock.owner = p
    <3>1. leaving' = leaving \cup {p}
      BY <1>13, <2>1 DEF ReleaseCheck
    <3>2. Lease!AskToLeave(p)
      BY <1>13, <2>1, <3>1 DEF ReleaseCheck, Lease!AskToLeave
    <3> QED
      BY <3>2
  <2>2. CASE lock.owner # p
    <3>1. leaving' = leaving
      BY <1>13, <2>2 DEF ReleaseCheck
    <3> QED
      BY <1>13, <3>1 DEF ReleaseCheck
  <2> QED
    BY <2>1, <2>2
<1>14. ASSUME NEW p \in Procs, ReleaseRemove(p) PROVE [Lease!Next]_Lease!vars
  <2>1. leaving' = leaving \ {p} /\ p \in leaving
    BY <1>14 DEF ReleaseRemove
  <2>2. lock.owner = p
    BY <1>14 DEF ReleaseRemove, LockHeld
  <2>3. Lease!Leave(p)
    BY <1>14, <2>1, <2>2 DEF ReleaseRemove, Lease!Leave
  <2> QED
    BY <2>3
<1>15. ASSUME NEW p \in Procs, DropMutex(p) PROVE [Lease!Next]_Lease!vars
  <2>1. leaving' = leaving
    BY <1>15 DEF DropMutex
  <2> QED
    BY <1>15, <2>1 DEF DropMutex
<1>16. ASSUME NEW p \in Procs, Crash(p) PROVE [Lease!Next]_Lease!vars
  <2>1. leaving' = leaving
    BY <1>16 DEF Crash
  <2> QED
    BY <1>16, <2>1 DEF Crash
<1>17. CASE LockGoesStale
  <2>1. Lease!GoStale
    BY <1>17 DEF LockGoesStale, Lease!GoStale
  <2> QED
    BY <2>1
<1>18. CASE MutexGoesStale
  BY <1>18 DEF MutexGoesStale
<1>19. CASE UNCHANGED vars
  BY <1>19 DEF vars
<1> QED
  BY <1>1, <1>2, <1>3, <1>4, <1>5, <1>6, <1>7, <1>8, <1>9,
     <1>10, <1>11, <1>12, <1>13, <1>14, <1>15, <1>16, <1>17, <1>18, <1>19
  DEF Next, Acquire, Refresh, Release

(* The lock file is a lease: it changes hands only when its holder let it  *)
(* go stale, and only its holder gives it back.                            *)
THEOREM LockIsALease == ASSUME MutexFaults = {} PROVE Spec => ImplementsLease
<1>1. Init => Lease!Init
  BY DEF Init, Lease!Init, Absent
<1>2. IInv /\ [Next]_vars => [Lease!Next]_Lease!vars
  BY StepIsLeaseStep
<1> QED
  BY <1>1, <1>2, Invariance, PTL DEF Spec, ImplementsLease, Lease!Spec

-----------------------------------------------------------------------------
(* The collectors of the job boards (SourceCollectors).                    *)

(* The postings of a page are laid out, each once.                         *)
LEMMA AscendingIsSeqOfSet ==
  ASSUME NEW S \in SUBSET Nat, IsFiniteSet(S)
  PROVE  Ascending(S) \in SetToSeqs(S)
<1> DEFINE R == {p \in S \X S : p[1] < p[2]}
<1>1. \E s \in SetToSeqs(S) : \A i, j \in DOMAIN s : i < j => <<s[i], s[j]>> \in R
  <2>1. \A x \in S : <<x, x>> \notin R
    OBVIOUS
  <2>2. \A x, y \in S : x # y => <<x, y>> \in R \/ <<y, x>> \in R
    OBVIOUS
  <2>3. \A x, y, z \in S : <<x, y>> \in R /\ <<y, z>> \in R => <<x, z>> \in R
    OBVIOUS
  <2> HIDE DEF R
  <2> QED
    BY <2>1, <2>2, <2>3, SortedSequenceExists
<1>2. \E s \in SetToSeqs(S) : \A i, j \in DOMAIN s : i < j => s[i] < s[j]
  BY <1>1
<1> QED
  BY <1>2 DEF Ascending

-----------------------------------------------------------------------------
(* Pages.                                                                  *)

(* The lesser of two counts is one of them, and no more than either.       *)
LEMMA LeastIs ==
  ASSUME NEW a \in Nat, NEW b \in Nat
  PROVE  /\ Least(a, b) \in Nat /\ Least(a, b) <= a /\ Least(a, b) <= b
         /\ a <= b => Least(a, b) = a
         /\ b <= a => Least(a, b) = b
BY DEF Least

(* There are n numbers from 1 to n.                                        *)
LEMMA CountUpTo ==
  ASSUME NEW n \in Nat
  PROVE  IsFiniteSet(1..n) /\ Cardinality(1..n) = n
BY FS_Interval, 1 \in Int, n \in Int

(* A page behind the first postings shows the next, up to the end of the   *)
(* board.                                                                  *)
LEMMA WindowCounts ==
  ASSUME board \in Nat, NEW after \in 0..board, NEW n \in Nat
  PROVE  /\ Window(after, n) \subseteq 1..board /\ IsFiniteSet(Window(after, n))
         /\ Cardinality(Window(after, n)) = Least(n, board - after)
         /\ (1..after) \cup Window(after, n) = 1..(after + Least(n, board - after))
<1> DEFINE b == Least(after + n, board)
<1>1. /\ b \in Nat /\ b >= after /\ b - after = Least(n, board - after)
      /\ b = after + Least(n, board - after)
  BY DEF Least
<1>2. Window(after, n) = (after + 1)..b /\ b <= board
  BY DEF Window, Least
<1> HIDE DEF b
<1>3. /\ IsFiniteSet((after + 1)..b)
      /\ Cardinality((after + 1)..b) = IF after + 1 > b THEN 0 ELSE b - (after + 1) + 1
  BY <1>1, FS_Interval, after + 1 \in Int, b \in Int
<1>4. (1..after) \cup ((after + 1)..b) = 1..b
  BY <1>1
<1> QED
  BY <1>1, <1>2, <1>3, <1>4

(* The first postings of a page are a shorter page.                        *)
LEMMA FirstOfWindow ==
  ASSUME board \in Nat, NEW after \in 0..board, NEW n \in Nat, NEW m \in Nat
  PROVE  FirstOf(m, Window(after, n)) = Window(after, Least(m, n))
<1> DEFINE b == Least(after + n, board)
<1>1. b \in Nat /\ Window(after, n) = (after + 1)..b
  BY DEF Window, Least
<1>2. \A i \in (after + 1)..b : {j \in (after + 1)..b : j < i} = (after + 1)..(i - 1)
  BY <1>1
<1>3. ASSUME NEW i \in (after + 1)..b
      PROVE  Cardinality({j \in (after + 1)..b : j < i}) = i - 1 - after
  <2>1. Cardinality((after + 1)..(i - 1)) = IF after + 1 > i - 1 THEN 0 ELSE i - 1 - (after + 1) + 1
    BY <1>1, FS_Interval, after + 1 \in Int, i - 1 \in Int
  <2>2. i \in Nat /\ i >= after + 1
    BY <1>1
  <2>3. Cardinality({j \in (after + 1)..b : j < i}) = Cardinality((after + 1)..(i - 1))
    BY <1>2
  <2> QED
    BY <2>1, <2>2, <2>3
<1>4. FirstOf(m, Window(after, n)) = {i \in (after + 1)..b : i - 1 - after < m}
  BY <1>1, <1>3 DEF FirstOf
<1>5. Window(after, Least(m, n)) = (after + 1)..Least(after + Least(m, n), board)
  BY DEF Window
<1>6. {i \in (after + 1)..b : i - 1 - after < m} = (after + 1)..Least(after + Least(m, n), board)
  BY DEF Least
<1> QED
  BY <1>4, <1>5, <1>6

(* Each page has the same size.                                            *)
LEMMA PagesAddUp ==
  ASSUME NEW p \in Nat
  PROVE  p * PageSize \in Nat /\ (p + 1) * PageSize = p * PageSize + PageSize
BY CollectorsAssumption

Once(s) == \A i, j \in 1..Len(s) : s[i] = s[j] => i = j

(* What is laid out behind a sequence that has none of it.                 *)
LEMMA LaidOutBehind ==
  ASSUME NEW T \in SUBSET Nat, NEW s \in Seq(T), NEW S \in SUBSET T, IsFiniteSet(S),
         S \cap ToSet(s) = {}, Once(s)
  PROVE  /\ s \o Ascending(S) \in Seq(T)
         /\ Len(s \o Ascending(S)) = Len(s) + Cardinality(S)
         /\ ToSet(s \o Ascending(S)) = ToSet(s) \cup S
         /\ Once(s \o Ascending(S))
<1> DEFINE t == Ascending(S)
           all == s \o t
<1>1. /\ t \in [1..Cardinality(S) -> S] /\ Len(t) = Cardinality(S)
      /\ DOMAIN t = 1..Cardinality(S) /\ ToSet(t) = S
      /\ \A i, j \in DOMAIN t : t[i] = t[j] => i = j
  BY AscendingIsSeqOfSet, SeqOfSet
<1> HIDE DEF t
<1>2. Cardinality(S) \in Nat
  BY FS_CardinalityType
<1>3. t \in Seq(T)
  <2>1. t \in [1..Cardinality(S) -> T]
    BY <1>1
  <2> QED
    BY <1>2, <2>1
<1>4. all \in Seq(T) /\ Len(all) = Len(s) + Len(t) /\ DOMAIN all = 1..(Len(s) + Len(t))
  BY <1>3
<1>5. \A i \in 1..Len(s) : all[i] = s[i] /\ s[i] \in ToSet(s)
  BY <1>3 DEF ToSet
<1>6. \A i \in (Len(s) + 1)..(Len(s) + Len(t)) :
        all[i] = t[i - Len(s)] /\ i - Len(s) \in 1..Len(t) /\ t[i - Len(s)] \in S
  BY <1>1, <1>2, <1>3
<1>7. ToSet(all) = ToSet(s) \cup S
  <2>1. ASSUME NEW x \in ToSet(all)
        PROVE  x \in ToSet(s) \cup S
    BY <1>1, <1>2, <1>4, <1>5, <1>6 DEF ToSet
  <2>2. ASSUME NEW x \in ToSet(s)
        PROVE  x \in ToSet(all)
    <3>1. PICK k \in 1..Len(s) : s[k] = x
      BY DEF ToSet
    <3>2. k \in DOMAIN all /\ all[k] = x
      BY <1>1, <1>2, <1>4, <1>5, <3>1
    <3> QED
      BY <3>2 DEF ToSet
  <2>3. ASSUME NEW x \in S
        PROVE  x \in ToSet(all)
    <3>1. PICK k \in 1..Len(t) : t[k] = x
      BY <1>1 DEF ToSet
    <3>2. Len(s) + k \in (Len(s) + 1)..(Len(s) + Len(t)) /\ Len(s) + k \in DOMAIN all
          /\ (Len(s) + k) - Len(s) = k
      BY <1>1, <1>2, <1>4
    <3>3. all[Len(s) + k] = x
      BY <1>6, <3>1, <3>2
    <3> QED
      BY <3>2, <3>3 DEF ToSet
  <2> QED
    BY <2>1, <2>2, <2>3
<1>8. ASSUME NEW i \in 1..Len(all), NEW j \in 1..Len(all), all[i] = all[j]
      PROVE  i = j
  <2>1. CASE i <= Len(s) /\ j <= Len(s)
    BY <1>4, <1>5, <1>8, <2>1 DEF Once
  <2>2. CASE i > Len(s) /\ j > Len(s)
    <3>1. t[i - Len(s)] = t[j - Len(s)] /\ i - Len(s) \in DOMAIN t /\ j - Len(s) \in DOMAIN t
      BY <1>1, <1>4, <1>6, <1>8, <2>2
    <3>2. i - Len(s) = j - Len(s)
      BY <1>1, <3>1
    <3> QED
      BY <3>2
  <2>3. CASE i <= Len(s) /\ j > Len(s)
    <3>1. all[i] \in ToSet(s) /\ all[j] \in S
      BY <1>1, <1>4, <1>5, <1>6, <2>3
    <3> QED
      BY <1>8, <3>1
  <2>4. CASE i > Len(s) /\ j <= Len(s)
    <3>1. all[j] \in ToSet(s) /\ all[i] \in S
      BY <1>1, <1>4, <1>5, <1>6, <2>4
    <3> QED
      BY <1>8, <3>1
  <2> QED
    BY <1>1, <1>2, <1>4, <2>1, <2>2, <2>3, <2>4
<1> QED
  BY <1>1, <1>4, <1>7, <1>8 DEF t, Once

-----------------------------------------------------------------------------
(* What becomes of the items.                                              *)

Accounts(T) ==
  [postings : Seq(T), schemaRejected : Nat, businessRejected : Nat,
   received : Nat, truncated : BOOLEAN, error : BOOLEAN]

Total(r) == Len(r.postings) + r.schemaRejected + r.businessRejected

(* Every item is counted under what became of it.                          *)
LEMMA WithCountsAll ==
  ASSUME NEW T \in SUBSET Nat, NEW r \in Accounts(T), NEW items \in SUBSET T, IsFiniteSet(items),
         items \cap ToSet(r.postings) = {}, Once(r.postings),
         NEW fate \in [items -> {"kept", "malformed", "unwanted"}]
  PROVE  /\ With(r, items, fate) \in Accounts(T)
         /\ Once(With(r, items, fate).postings)
         /\ ToSet(With(r, items, fate).postings) \subseteq ToSet(r.postings) \cup items
         /\ Total(With(r, items, fate)) = Total(r) + Cardinality(items)
         /\ With(r, items, fate).error = r.error /\ With(r, items, fate).truncated = r.truncated
         /\ With(r, items, fate).received = r.received
<1> DEFINE of(f) == {i \in items : fate[i] = f}
           K == of("kept")  M == of("malformed")  U == of("unwanted")
           q == With(r, items, fate)
<1>1. /\ IsFiniteSet(K) /\ IsFiniteSet(M) /\ IsFiniteSet(U)
      /\ Cardinality(K) \in Nat /\ Cardinality(M) \in Nat /\ Cardinality(U) \in Nat
  <2>1. K \in SUBSET items /\ M \in SUBSET items /\ U \in SUBSET items
    OBVIOUS
  <2> HIDE DEF of
  <2> QED
    BY <2>1, FS_Subset, FS_CardinalityType
<1>2. Cardinality(items) = Cardinality(K) + Cardinality(M) + Cardinality(U)
  <2>1. items = (K \cup M) \cup U /\ K \cap M = {} /\ (K \cup M) \cap U = {}
    OBVIOUS
  <2> HIDE DEF of
  <2>2. /\ IsFiniteSet(K \cup M)
        /\ Cardinality(K \cup M) = Cardinality(K) + Cardinality(M) - Cardinality(K \cap M)
    BY <1>1, FS_Union
  <2>3. Cardinality((K \cup M) \cup U)
          = Cardinality(K \cup M) + Cardinality(U) - Cardinality((K \cup M) \cap U)
    BY <1>1, <2>2, FS_Union
  <2>4. Cardinality(K \cap M) = 0 /\ Cardinality((K \cup M) \cap U) = 0
    BY <2>1, FS_EmptySet
  <2> QED
    BY <1>1, <2>1, <2>2, <2>3, <2>4
<1>3. q = [r EXCEPT !.postings = @ \o Ascending(K),
                    !.schemaRejected = @ + Cardinality(M),
                    !.businessRejected = @ + Cardinality(U)]
  BY DEF With
<1>4. K \subseteq items
  OBVIOUS
<1> HIDE DEF of, q
<1>5. /\ r.postings \in Seq(T) /\ r.schemaRejected \in Nat /\ r.businessRejected \in Nat
      /\ Len(r.postings) \in Nat
  BY DEF Accounts
<1>6. /\ q.postings = r.postings \o Ascending(K)
      /\ q.schemaRejected = r.schemaRejected + Cardinality(M)
      /\ q.businessRejected = r.businessRejected + Cardinality(U)
      /\ q.error = r.error /\ q.truncated = r.truncated /\ q.received = r.received
  BY <1>3 DEF Accounts
<1>7. /\ q.postings \in Seq(T) /\ Len(q.postings) = Len(r.postings) + Cardinality(K)
      /\ ToSet(q.postings) = ToSet(r.postings) \cup K /\ Once(q.postings)
  <2>1. K \in SUBSET T /\ K \cap ToSet(r.postings) = {}
    BY <1>4
  <2> DEFINE s == r.postings
  <2>2. s \in Seq(T) /\ IsFiniteSet(K) /\ Once(s)
    BY <1>1, <1>5
  <2> HIDE DEF K, s
  <2>3. /\ s \o Ascending(K) \in Seq(T)
        /\ Len(s \o Ascending(K)) = Len(s) + Cardinality(K)
        /\ ToSet(s \o Ascending(K)) = ToSet(s) \cup K
        /\ Once(s \o Ascending(K))
    BY <2>1, <2>2, LaidOutBehind DEF s
  <2> QED
    BY <1>6, <2>3 DEF s
<1>8. q \in Accounts(T)
  <2>1. r \in [postings : Seq(T), schemaRejected : Nat, businessRejected : Nat,
                received : Nat, truncated : BOOLEAN, error : BOOLEAN]
    BY DEF Accounts
  <2>2. /\ r.postings \o Ascending(K) \in Seq(T)
        /\ r.schemaRejected + Cardinality(M) \in Nat
        /\ r.businessRejected + Cardinality(U) \in Nat
    BY <1>1, <1>5, <1>6, <1>7, SMTT(30)
  <2> HIDE DEF K, M, U
  <2> QED
    BY <1>3, <2>1, <2>2 DEF Accounts
<1>9. Total(q) = Total(r) + Cardinality(items)
  BY <1>1, <1>2, <1>5, <1>6, <1>7, SMTT(30) DEF Total
<1> QED
  BY <1>4, <1>6, <1>7, <1>8, <1>9 DEF q

-----------------------------------------------------------------------------
(* The invariant.                                                          *)

(* What the result says of n postings, if it is right.                     *)
Honest(n) ==
  /\ result.received = IF who \in {"vagas", "infojobs"} THEN Cardinality(shown) ELSE n
  /\ result.error \/ result.truncated \/ n = board \/ LeftUnsaid

WhileIdle == at = "idle" =>
  /\ cards = <<>> /\ result = Nothing /\ shown = {} /\ page = 0 /\ ~counted

(* A listing has taken every page in full, and what it took is what it saw. *)
WhileListing == at = "listing" =>
  /\ ToSet(cards) = shown
  /\ who # "infojobs" =>
       /\ Len(cards) = page * PageSize /\ Len(cards) <= board /\ Len(cards) < cap
       /\ shown = 1..Len(cards)
  /\ who \in Apis =>
       /\ Judged = Len(cards) /\ result.received = Len(cards)
       /\ ToSet(result.postings) \subseteq shown
  /\ who \in Scrapers => Judged = 0 /\ ToSet(result.postings) = {}
  /\ who \in {"nerdin", "99jobs"} => page < PageCap

(* The details are had card by card.                                       *)
WhileDetails == at = "details" =>
  /\ who \in Scrapers /\ Len(cards) = Cardinality(shown)
  /\ Judged < Least(cap, Len(cards))
  /\ ToSet(result.postings) \subseteq {cards[i] : i \in 1..Judged}
  /\ Honest(Least(cap, Len(cards)))

WhenDone == at = "done" => Judged = Least(cap, Cardinality(shown)) /\ Honest(Judged)

BoardRead ==
  /\ CollectorsTypeOK /\ ~NeedlessPage
  /\ Once(cards) /\ Once(result.postings)
  /\ counted => who = "99jobs"
  /\ WhileIdle /\ WhileListing /\ WhileDetails /\ WhenDone

(* The types of what a collection keeps.                                   *)
LEMMA TypedResult ==
  ASSUME BoardRead
  PROVE  /\ result \in Accounts(1..board) /\ cards \in Seq(1..board) /\ Len(cards) \in Nat
         /\ board \in Nat /\ cap \in Nat \ {0} /\ page \in Nat /\ who \in Apis \cup Scrapers
         /\ shown \subseteq 1..board /\ IsFiniteSet(shown)
         /\ (1..board) \in SUBSET Nat /\ IsFiniteSet(1..board)
<1>1. /\ result \in Accounts(1..board) /\ cards \in Seq(1..board)
      /\ board \in Nat /\ cap \in Nat \ {0} /\ page \in Nat /\ who \in Apis \cup Scrapers
      /\ shown \subseteq 1..board
  BY DEF BoardRead, CollectorsTypeOK, Accounts
<1>2. IsFiniteSet(1..board)
  BY <1>1, FS_Interval
<1>3. IsFiniteSet(shown)
  BY <1>1, <1>2, FS_Subset
<1> QED
  BY <1>1, <1>2, <1>3

(* A sequence without repeats has as many elements as places.              *)
LEMMA CountedOnce ==
  ASSUME NEW T, NEW s \in Seq(T), Once(s)
  PROVE  IsFiniteSet(ToSet(s)) /\ Cardinality(ToSet(s)) = Len(s)
<1>1. s \in Bijection(1..Len(s), ToSet(s))
  BY DEF Bijection, Injection, Surjection, IsInjective, ToSet, Once
<1>2. IsFiniteSet(1..Len(s)) /\ Cardinality(1..Len(s)) = Len(s)
  BY FS_Interval, Len(s) \in Nat, SMTT(30)
<1> QED
  BY <1>1, <1>2, FS_Bijection DEF ExistsBijection

(* Nothing has been asked for yet.                                         *)
LEMMA BoardsStart == CollectorsInit => BoardRead
<1> SUFFICES ASSUME CollectorsInit PROVE BoardRead
  OBVIOUS
<1> USE DEF CollectorsInit
<1>1. result = Nothing /\ Nothing.postings = <<>>
  BY DEF Nothing
<1>2. CollectorsTypeOK
  <2>1. <<>> \in Seq(1..board)
    OBVIOUS
  <2>2. Nothing \in Accounts(1..board)
    BY <2>1 DEF Nothing, Accounts
  <2>3. tries \in 0..Delays
    BY CollectorsAssumption
  <2>4. /\ who \in Apis \cup Scrapers /\ cap \in Nat \ {0} /\ board \in Nat /\ buckets \in Buckets
        /\ counted \in BOOLEAN /\ at \in {"idle", "listing", "details", "done"} /\ page \in Nat
    <3>1. who \in Apis \cup Scrapers
      BY DEF Apis
    <3>2. cap \in Nat \ {0} /\ board \in Nat /\ buckets \in Buckets /\ page \in Nat
      BY DEF Buckets
    <3>3. counted \in BOOLEAN
      OBVIOUS
    <3>4. at \in {"idle", "listing", "details", "done"}
      OBVIOUS
    <3> QED
      BY <3>1, <3>2, <3>3, <3>4
  <2>5. cards \in Seq(1..board) /\ shown \subseteq 1..board /\ result \in Accounts(1..board)
    BY <2>1, <2>2
  <2> QED
    BY <2>3, <2>4, <2>5 DEF CollectorsTypeOK, Accounts
<1>3. ~NeedlessPage
  BY DEF NeedlessPage
<1> QED
  BY <1>1, <1>2, <1>3
  DEF BoardRead, Once, WhileIdle, WhileListing, WhileDetails, WhenDone

(* A collection begins with what nobody has filled in.                     *)
LEMMA BeginKeeps ==
  ASSUME BoardRead, BeginCollect
  PROVE  BoardRead'
<1> USE DEF BeginCollect
<1>1. cards = <<>> /\ result = Nothing /\ shown = {} /\ page = 0 /\ ~counted
  BY DEF BoardRead, WhileIdle
<1>2. cap' \in Nat \ {0} /\ board' \in Nat /\ PageCap \in Nat \ {0} /\ PageSize \in Nat
  BY CollectorsAssumption
<1>3. CollectorsTypeOK'
  <2>1. <<>> \in Seq(1..board')
    OBVIOUS
  <2>2. Nothing \in Accounts(1..board')
    BY <2>1 DEF Nothing, Accounts
  <2> QED
    BY <1>1, <1>2, <2>1, <2>2 DEF BoardRead, CollectorsTypeOK, Accounts, Buckets
<1>4. /\ Judged' = 0 /\ ToSet(result'.postings) = {} /\ result'.received = 0
      /\ Once(result'.postings) /\ Once(cards') /\ ToSet(cards') = {}
  BY <1>1 DEF Nothing, Judged, ToSet, Once
<1>5. WhileListing'
  BY <1>1, <1>2, <1>4 DEF WhileListing
<1> QED
  BY <1>1, <1>3, <1>4, <1>5
  DEF BoardRead, NeedlessPage, WhileIdle, WhileDetails, WhenDone

(* A failed attempt changes nothing but their number.                      *)
LEMMA RetryKeeps ==
  ASSUME BoardRead, Retry
  PROVE  BoardRead'
<1> USE DEF Retry
<1>1. tries' \in 0..Delays
  BY CollectorsAssumption DEF BoardRead, CollectorsTypeOK, MayRetry
<1>2. CollectorsTypeOK'
  BY <1>1 DEF BoardRead, CollectorsTypeOK
<1>3. (WhileIdle /\ WhileListing /\ WhileDetails /\ WhenDone)'
  BY DEF BoardRead, WhileIdle, WhileListing, WhileDetails, WhenDone, Honest, Judged, LeftUnsaid
<1> QED
  BY <1>2, <1>3 DEF BoardRead, NeedlessPage, Once

(* An API that fails ends the collection, with what was read and an error. *)
LEMMA ApiFailureKeeps ==
  ASSUME BoardRead, ApiPageFails
  PROVE  BoardRead'
<1> USE DEF ApiPageFails
<1>1. result \in Accounts(1..board) /\ result' = [result EXCEPT !.error = TRUE]
  BY TypedResult
<1>2. /\ result' \in Accounts(1..board) /\ result'.postings = result.postings
      /\ result'.received = result.received /\ result'.error /\ Judged' = Judged
  BY <1>1 DEF Accounts, Judged
<1>3. CollectorsTypeOK'
  BY <1>2 DEF BoardRead, CollectorsTypeOK, Accounts
<1>4. /\ Judged = Len(cards) /\ result.received = Len(cards) /\ ToSet(cards) = shown
      /\ Len(cards) < cap /\ who \notin {"vagas", "infojobs"}
  BY DEF BoardRead, WhileListing, Apis
<1>5. Cardinality(shown) = Len(cards)
  BY <1>4, CountedOnce, TypedResult DEF BoardRead
<1>6. WhenDone'
  BY <1>2, <1>4, <1>5, LeastIs, TypedResult DEF WhenDone, Honest
<1> QED
  BY <1>2, <1>3, <1>6
  DEF BoardRead, NeedlessPage, WhileIdle, WhileListing, WhileDetails, Once

-----------------------------------------------------------------------------
(* A page of an API.                                                       *)
LEMMA PageKeeps ==
  ASSUME BoardRead, at = "listing", who \in Apis, NEW n \in Nat, NEW full \in BOOLEAN,
         NEW fates \in SUBSET {"kept", "malformed", "unwanted"},
         full => \/ Least(n, board - Len(cards)) = PageSize
                 \/ Len(cards) + Least(n, board - Len(cards)) >= cap,
         ~full => Len(cards) + Least(n, board - Len(cards)) = board,
         TakePage(Window(Len(cards), n), full, fates)
  PROVE  BoardRead'
<1> DEFINE L == Len(cards)
           items == Window(L, n)
           taken == Taken(items)
           c == Least(n, board - L)
           k == Cardinality(taken)
           all == cards \o Ascending(taken)
<1>1. /\ result \in Accounts(1..board) /\ cards \in Seq(1..board) /\ L \in Nat
      /\ board \in Nat /\ cap \in Nat \ {0} /\ page \in Nat /\ (1..board) \in SUBSET Nat
  BY TypedResult
<1>2. /\ ToSet(cards) = shown /\ L = page * PageSize /\ L <= board /\ L < cap /\ shown = 1..L
      /\ Judged = L /\ ToSet(result.postings) \subseteq shown /\ Once(cards) /\ Once(result.postings)
  BY DEF BoardRead, WhileListing, Apis
<1>3. L \in 0..board /\ board - L \in Nat /\ cap - L \in Nat
  BY <1>1, <1>2
<1>4. c \in Nat /\ c <= board - L
  BY <1>3, LeastIs
<1>5. /\ items \subseteq 1..board /\ IsFiniteSet(items) /\ Cardinality(items) = c
      /\ (1..L) \cup items = 1..(L + c)
  BY <1>1, <1>3, WindowCounts
<1>6. taken = Window(L, Least(cap - L, n))
  BY <1>1, <1>3, FirstOfWindow DEF Taken
<1>7. /\ IsFiniteSet(taken) /\ taken \subseteq 1..board /\ k = Least(Least(cap - L, n), board - L)
      /\ (1..L) \cup taken = 1..(L + k)
  <2>1. Least(cap - L, n) \in Nat
    BY <1>3, LeastIs
  <2> QED
    BY <1>1, <1>3, <1>6, <2>1, WindowCounts
<1>8. taken \subseteq items
  BY DEF Taken, FirstOf
<1>9. k \in Nat /\ k = Least(cap - L, c)
  BY <1>3, <1>4, <1>7 DEF Least
<1>10. taken \cap ToSet(cards) = {}
  BY <1>2, <1>8, <1>1 DEF Window
<1>11. /\ at' = (IF full /\ Len(all) < cap THEN "listing" ELSE "done")
       /\ cards' = all /\ shown' = shown \cup items /\ page' = page + 1 /\ tries' = 0
       /\ UNCHANGED <<who, cap, board, buckets, counted>>
  BY DEF TakePage
<1>12. PICK fate \in [taken -> fates] :
         result' = [With(result, taken, fate) EXCEPT
                      !.received = Len(all),
                      !.truncated = items # taken \/ (full /\ Len(all) >= cap)]
  BY DEF TakePage
<1> HIDE DEF items, taken, k, c
<1>13. /\ all \in Seq(1..board) /\ Len(all) = L + k /\ ToSet(all) = 1..(L + k) /\ Once(all)
  <2>1. taken \in SUBSET (1..board)
    BY <1>7
  <2>2. /\ all \in Seq(1..board) /\ Len(all) = L + k /\ ToSet(all) = ToSet(cards) \cup taken
        /\ Once(all)
    BY <1>1, <1>2, <1>7, <1>10, <2>1, LaidOutBehind, SMTT(30) DEF k
  <2> QED
    BY <1>2, <1>7, <2>2
<1> DEFINE q == With(result, taken, fate)
<1>14. /\ q \in Accounts(1..board) /\ Once(q.postings)
       /\ ToSet(q.postings) \subseteq ToSet(result.postings) \cup taken
       /\ Total(q) = Total(result) + k
  <2>1. fate \in [taken -> {"kept", "malformed", "unwanted"}]
    BY <1>12
  <2>2. taken \in SUBSET (1..board) /\ taken \cap ToSet(result.postings) = {}
    BY <1>2, <1>7, <1>10
  <2> QED
    BY <1>1, <1>2, <1>7, <2>1, <2>2, WithCountsAll, SMTT(30) DEF k
<1> HIDE DEF q, all
<1>15. /\ result' \in Accounts(1..board) /\ result'.postings = q.postings
       /\ result'.schemaRejected = q.schemaRejected /\ result'.businessRejected = q.businessRejected
       /\ result'.received = L + k
       /\ (items # taken \/ (full /\ L + k >= cap)) => result'.truncated
  <2> DEFINE short == items # taken \/ (full /\ L + k >= cap)
  <2>1. result' = [q EXCEPT !.received = L + k, !.truncated = short]
    BY <1>12, <1>13 DEF q
  <2>2. short \in BOOLEAN /\ L + k \in Nat
    BY <1>1, <1>9
  <2> HIDE DEF short
  <2>3. /\ result' \in Accounts(1..board) /\ result'.postings = q.postings
        /\ result'.schemaRejected = q.schemaRejected /\ result'.businessRejected = q.businessRejected
        /\ result'.received = L + k /\ result'.truncated = short
    BY <1>14, <2>1, <2>2 DEF Accounts
  <2> QED
    BY <2>3 DEF short
<1>16. Judged' = L + k
  BY <1>2, <1>14, <1>15 DEF Judged, Total
<1>17. shown' = 1..(L + c) /\ shown' \subseteq 1..board /\ Cardinality(shown') = L + c
  <2>1. shown' = 1..(L + c) /\ L + c <= board
    BY <1>1, <1>2, <1>3, <1>4, <1>5, <1>11
  <2>2. L + c \in Nat
    BY <1>1, <1>4
  <2>3. Cardinality(1..(L + c)) = L + c
    BY <2>2, CountUpTo
  <2> QED
    <3>1. 1..(L + c) \subseteq 1..board
      BY <1>1, <2>1, <2>2
    <3> QED
      BY <2>1, <2>3, <3>1
<1>18. CollectorsTypeOK'
  <2>1. /\ cards' \in Seq(1..board) /\ result' \in Accounts(1..board) /\ shown' \subseteq 1..board
        /\ at' \in {"idle", "listing", "details", "done"} /\ page' \in Nat /\ tries' \in 0..Delays
    BY <1>1, <1>11, <1>13, <1>15, <1>17, CollectorsAssumption
  <2> QED
    BY <1>11, <2>1 DEF BoardRead, CollectorsTypeOK, Accounts
<1>19. ~NeedlessPage'
  <2>1. page' - 1 = page
    BY <1>1, <1>11
  <2> QED
    BY <1>1, <1>2, <1>11, <2>1 DEF NeedlessPage
<1>20. ASSUME at' = "listing"
       PROVE  WhileListing'
  <2>1. full /\ L + k < cap
    BY <1>11, <1>13, <1>20
  <2>2. k = c /\ c = PageSize
    BY <1>1, <1>3, <1>4, <1>9, <2>1 DEF c, Least
  <2>3. L + k = (page + 1) * PageSize
    BY <1>1, <1>2, <2>2, PagesAddUp
  <2>4. ToSet(result'.postings) \subseteq shown'
    BY <1>1, <1>2, <1>5, <1>8, <1>11, <1>14, <1>15
  <2> QED
    BY <1>1, <1>2, <1>4, <1>11, <1>13, <1>15, <1>16, <1>17, <2>1, <2>2, <2>3, <2>4, SMTT(30)
    DEF WhileListing, Apis, Scrapers
<1>21. ASSUME at' = "done"
       PROVE  WhenDone'
  <2>1. ~full \/ L + k >= cap
    BY <1>1, <1>9, <1>11, <1>13, <1>21
  <2>2. L + k = Least(cap, L + c)
    BY <1>1, <1>3, <1>4, <1>9 DEF Least
  <2>3. items = taken => k = c
    BY <1>5 DEF k
  <2>4. result'.truncated \/ L + k = board
    BY <1>15, <2>1, <2>3 DEF c
  <2> QED
    BY <1>11, <1>15, <1>16, <1>17, <2>2, <2>4 DEF WhenDone, Honest, Apis
<1>22. counted' => who' = "99jobs"
  BY <1>11 DEF BoardRead
<1> QED
  BY <1>11, <1>13, <1>14, <1>15, <1>18, <1>19, <1>20, <1>21, <1>22
  DEF BoardRead, WhileIdle, WhileListing, WhileDetails, WhenDone

(* Each API asks for the page behind those it has.                         *)
LEMMA ApisKeep ==
  ASSUME BoardRead, GupyPage \/ CieePage \/ SolidesPage
  PROVE  BoardRead'
<1> DEFINE L == Len(cards)
<1>1. /\ L \in Nat /\ board \in Nat /\ cap \in Nat \ {0} /\ page \in Nat /\ PageSize \in Nat \ {0}
  BY TypedResult, CollectorsAssumption
<1>2. at = "listing" /\ who \in Apis
  BY DEF GupyPage, CieePage, SolidesPage, TakePage, Apis
<1>3. L = page * PageSize /\ L <= board /\ L < cap
  BY <1>2 DEF BoardRead, WhileListing, Apis
<1>4. L \in 0..board /\ board - L \in Nat /\ cap - L \in Nat
  BY <1>1, <1>3
<1>5. CASE GupyPage
  <2> DEFINE n == Least(PageSize, cap - L)
             full == Cardinality(Window(L, n)) = n
  <2>1. n \in Nat /\ Cardinality(Window(L, n)) = Least(n, board - L)
    <3>1. n \in Nat
      BY <1>1, <1>4, LeastIs
    <3> HIDE DEF n
    <3> QED
      BY <1>1, <1>4, <3>1, WindowCounts
  <2>2. full => Least(n, board - L) = PageSize \/ L + Least(n, board - L) >= cap
    BY <1>1, <1>4, <2>1 DEF Least
  <2>3. ~full => L + Least(n, board - L) = board
    BY <1>1, <1>4, <2>1 DEF Least
  <2>4. TakePage(Window(L, n), full, {"kept", "malformed"})
    BY <1>5 DEF GupyPage
  <2> HIDE DEF n, full
  <2>5. full \in BOOLEAN
    BY DEF full
  <2> QED
    BY <1>2, <2>1, <2>2, <2>3, <2>4, <2>5, PageKeeps
<1>6. ASSUME CieePage \/ SolidesPage
      PROVE  BoardRead'
  <2> DEFINE c == Cardinality(Window(L, PageSize))
  <2>1. c = Least(PageSize, board - L)
    BY <1>1, <1>4, WindowCounts
  <2>2. PICK last \in BOOLEAN, fates \in SUBSET {"kept", "malformed", "unwanted"} :
          /\ last => board = L + c
          /\ TakePage(Window(L, PageSize), c = PageSize /\ ~last, fates)
    <3>1. CASE CieePage
      <4>1. PICK last \in {FALSE, board = L + c} :
              TakePage(Window(L, PageSize), c = PageSize /\ ~last, {"kept", "malformed", "unwanted"})
        BY <1>3, <3>1 DEF CieePage
      <4>2. last \in BOOLEAN /\ (last => board = L + c)
        BY <4>1
      <4> QED
        BY <4>1, <4>2
    <3>2. CASE SolidesPage
      <4>1. TakePage(Window(L, PageSize), c = PageSize, {"kept", "malformed"})
        BY <1>3, <3>2 DEF SolidesPage
      <4>2. TakePage(Window(L, PageSize), c = PageSize /\ ~FALSE, {"kept", "malformed"})
        BY <4>1
      <4> QED
        BY <4>2
    <3> QED
      BY <1>6, <3>1, <3>2
  <2> DEFINE full == c = PageSize /\ ~last
  <2>3. full => Least(PageSize, board - L) = PageSize
    BY <2>1
  <2>4. ~full => L + Least(PageSize, board - L) = board
    BY <1>1, <1>4, <2>1, <2>2 DEF Least
  <2>5. TakePage(Window(L, PageSize), full, fates)
    BY <2>2
  <2> HIDE DEF full
  <2>6. full \in BOOLEAN
    BY DEF full
  <2> QED
    BY <1>1, <1>2, <2>2, <2>3, <2>4, <2>5, <2>6, PageKeeps
<1> QED
  BY <1>5, <1>6

-----------------------------------------------------------------------------
(* A page of a listing.                                                    *)
LEMMA ListingKeeps ==
  ASSUME BoardRead, at = "listing", who \in Scrapers, NEW items \in SUBSET (1..board),
         NEW new, new = items \ ToSet(cards),
         NEW more \in BOOLEAN, NEW received \in Nat, NEW truncated \in BOOLEAN,
         ListPage(items, new, more, received, truncated),
         counted' \in BOOLEAN, counted' => who = "99jobs",
         more /\ who # "infojobs" =>
           /\ items = Window(Len(cards), PageSize) /\ Cardinality(new) = PageSize
           /\ Len(cards) + Cardinality(new) < cap,
         more /\ who \in {"nerdin", "99jobs"} => page + 1 < PageCap,
         ~more => received = IF who \in {"vagas", "infojobs"} THEN Len(cards) + Cardinality(new)
                             ELSE Least(cap, Len(cards) + Cardinality(new)),
         ~more => \/ truncated \/ Least(cap, Len(cards) + Cardinality(new)) = board
                  \/ who = "infojobs"
                  \/ ~counted' /\ Len(cards) + Cardinality(new) > cap
                  \/ ~counted' /\ who \in {"nerdin", "99jobs"} /\ page + 1 = PageCap
  PROVE  BoardRead'
<1> DEFINE L == Len(cards)
           k == Cardinality(new)
           all == cards \o Ascending(new)
<1>1. /\ result \in Accounts(1..board) /\ cards \in Seq(1..board) /\ L \in Nat
      /\ board \in Nat /\ cap \in Nat \ {0} /\ page \in Nat /\ (1..board) \in SUBSET Nat
      /\ IsFiniteSet(1..board)
  BY TypedResult
<1>2. /\ ToSet(cards) = shown /\ Judged = 0 /\ ToSet(result.postings) = {}
      /\ Once(cards) /\ Once(result.postings)
      /\ who # "infojobs" => L = page * PageSize /\ L <= board /\ L < cap /\ shown = 1..L
  BY DEF BoardRead, WhileListing, Apis, Scrapers
<1>3. /\ new \in SUBSET (1..board) /\ IsFiniteSet(new) /\ k \in Nat
      /\ new \cap ToSet(cards) = {} /\ ToSet(cards) \cup new = shown \cup items
  <2>1. new \in SUBSET (1..board) /\ new \cap ToSet(cards) = {} /\ ToSet(cards) \cup new = shown \cup items
    BY <1>2
  <2> QED
    BY <1>1, <2>1, FS_Subset, FS_CardinalityType
<1>4. /\ cards' = all /\ shown' = shown \cup items /\ page' = page + 1 /\ tries' = 0
      /\ UNCHANGED <<who, cap, board, buckets>>
      /\ more => at' = at /\ result' = result
      /\ ~more => /\ at' = (IF all = <<>> THEN "done" ELSE "details")
                  /\ result' = [result EXCEPT !.received = received, !.truncated = truncated,
                                               !.error = result.error]
  BY DEF ListPage, OpenDetails
<1>5. /\ all \in Seq(1..board) /\ Len(all) = L + k /\ ToSet(all) = ToSet(cards) \cup new /\ Once(all)
  BY <1>1, <1>2, <1>3, LaidOutBehind
<1> HIDE DEF all, k
<1>6. ToSet(cards') = shown' /\ Cardinality(shown') = L + k
  BY <1>1, <1>3, <1>4, <1>5, CountedOnce
<1>7. /\ result' \in Accounts(1..board) /\ result'.postings = result.postings /\ Judged' = 0
      /\ ~more => result'.received = received /\ result'.truncated = truncated
  <2>1. CASE more
    BY <1>1, <1>2, <1>4, <2>1 DEF Judged
  <2>2. CASE ~more
    <3>1. /\ result' \in Accounts(1..board) /\ result'.postings = result.postings
          /\ result'.schemaRejected = result.schemaRejected
          /\ result'.businessRejected = result.businessRejected
          /\ result'.received = received /\ result'.truncated = truncated
      BY <1>1, <1>4, <2>2 DEF Accounts
    <3> QED
      BY <1>2, <3>1 DEF Judged
  <2> QED
    BY <2>1, <2>2
<1>8. CollectorsTypeOK'
  <2>1. /\ cards' \in Seq(1..board) /\ result' \in Accounts(1..board) /\ shown' \subseteq 1..board
        /\ at' \in {"idle", "listing", "details", "done"} /\ page' \in Nat /\ tries' \in 0..Delays
    <3>1. shown' \subseteq 1..board
      BY <1>4 DEF BoardRead, CollectorsTypeOK
    <3> QED
      BY <1>1, <1>4, <1>5, <1>7, <3>1, CollectorsAssumption, SMTT(30)
  <2> QED
    BY <1>4, <2>1 DEF BoardRead, CollectorsTypeOK, Accounts
<1>9. ~NeedlessPage'
  <2>1. page' - 1 = page
    BY <1>1, <1>4
  <2> QED
    BY <1>1, <1>2, <1>4, <2>1 DEF NeedlessPage
<1>10. CASE more
  <2>1. who # "infojobs" =>
          Len(cards') = page' * PageSize /\ Len(cards') <= board /\ Len(cards') < cap
          /\ shown' = 1..Len(cards')
    <3> SUFFICES ASSUME who # "infojobs"
                 PROVE  Len(cards') = page' * PageSize /\ Len(cards') <= board /\ Len(cards') < cap
                        /\ shown' = 1..Len(cards')
      OBVIOUS
    <3>1. items = Window(L, PageSize) /\ k = PageSize /\ L + k < cap /\ L \in 0..board
          /\ PageSize \in Nat
      BY <1>1, <1>2, <1>10, CollectorsAssumption DEF k
    <3>2. /\ (1..L) \cup items = 1..(L + Least(PageSize, board - L))
          /\ Cardinality(items) = Least(PageSize, board - L) /\ IsFiniteSet(items)
      BY <1>1, <3>1, WindowCounts
    <3>3. k <= Cardinality(items)
      BY <3>2, FS_Subset DEF k
    <3>4. board - L \in Nat
      BY <1>1, <3>1
    <3>5. Least(PageSize, board - L) = PageSize /\ L + PageSize <= board
      BY <1>1, <3>1, <3>2, <3>3, <3>4 DEF Least
    <3>6. shown' = 1..(L + k)
      BY <1>2, <1>4, <3>1, <3>2, <3>5
    <3> QED
      BY <1>1, <1>2, <1>4, <1>5, <3>1, <3>5, <3>6, PagesAddUp
  <2>2. WhileListing'
    BY <1>2, <1>4, <1>6, <1>7, <1>10, <2>1 DEF WhileListing, Apis, Scrapers
  <2> QED
    BY <1>2, <1>4, <1>5, <1>7, <1>8, <1>9, <1>10, <2>2
    DEF BoardRead, WhileIdle, WhileDetails, WhenDone
<1>11. CASE ~more
  <2>0. PICK t \in Nat : t = Least(cap, L + k)
    <3>1. L + k \in Nat /\ cap \in Nat
      BY <1>1, <1>3
    <3> HIDE DEF L
    <3> QED
      BY <3>1 DEF Least
  <2>1. Honest(t)'
    <3>1. page' = PageCap <=> page + 1 = PageCap
      BY <1>4
    <3>2. result'.received = IF who \in {"vagas", "infojobs"} THEN L + k ELSE Least(cap, L + k)
      BY <1>7, <1>11 DEF k
    <3>3. result'.truncated \/ Least(cap, L + k) = board \/ LeftUnsaid'
      BY <1>4, <1>6, <1>7, <1>11, <3>1 DEF LeftUnsaid, k
    <3> QED
      BY <1>4, <1>5, <1>6, <2>0, <3>2, <3>3 DEF Honest
  <2>2. CASE all = <<>>
    <3>1. at' = "done" /\ L + k = 0
      BY <1>4, <1>5, <1>11, <2>2
    <3>2. t = 0 /\ Least(cap', Cardinality(shown')) = 0
      BY <1>1, <1>4, <1>6, <2>0, <3>1 DEF Least
    <3>3. WhenDone'
      BY <1>7, <2>1, <3>1, <3>2 DEF WhenDone, Honest
    <3> QED
      BY <1>2, <1>4, <1>5, <1>7, <1>8, <1>9, <3>1, <3>3
      DEF BoardRead, WhileIdle, WhileDetails, WhileListing
  <2>3. CASE all # <<>>
    <3>1. at' = "details" /\ L + k > 0
      BY <1>1, <1>3, <1>4, <1>5, <1>11, <2>3
    <3>2. 0 < t /\ t = Least(cap', Len(cards'))
      BY <1>1, <1>4, <1>5, <2>0, <3>1 DEF Least
    <3>3. WhileDetails'
      BY <1>2, <1>4, <1>5, <1>6, <1>7, <2>1, <3>1, <3>2 DEF WhileDetails, Honest
    <3> QED
      BY <1>2, <1>4, <1>5, <1>7, <1>8, <1>9, <3>1, <3>3
      DEF BoardRead, WhileIdle, WhenDone, WhileListing
  <2> QED
    BY <2>2, <2>3
<1> QED
  BY <1>10, <1>11

(* The page after those that were read, of a board that has a next one.    *)
LEMMA NextPage ==
  ASSUME BoardRead, at = "listing", who \in Scrapers \ {"infojobs"},
         NEW here, here = Window(page * PageSize, PageSize)
  PROVE  /\ here = Window(Len(cards), PageSize) /\ here \in SUBSET (1..board)
         /\ here \cap ToSet(cards) = {}
         /\ Cardinality(here) \in Nat /\ Cardinality(here) <= PageSize
         /\ Cardinality(here) < PageSize => Len(cards) + Cardinality(here) = board
         /\ here = {} => Len(cards) = board
         /\ Len(cards) + Cardinality(here) <= board
<1>1. /\ Len(cards) \in Nat /\ board \in Nat /\ PageSize \in Nat
      /\ ToSet(cards) = shown
  BY TypedResult, CollectorsAssumption DEF BoardRead, WhileListing
<1>2. Len(cards) = page * PageSize /\ Len(cards) <= board /\ shown = 1..Len(cards)
  BY DEF BoardRead, WhileListing
<1>3. PICK L \in 0..board : L = Len(cards)
  BY <1>1, <1>2
<1>4. board - L \in Nat /\ here = Window(L, PageSize)
  BY <1>1, <1>2, <1>3
<1>5. /\ here \subseteq 1..board /\ IsFiniteSet(here) /\ Cardinality(here) = Least(PageSize, board - L)
  BY <1>1, <1>3, <1>4, WindowCounts
<1>6. here \cap (1..L) = {}
  <2>1. \A x \in here : x >= L + 1
    <3>1. here = (L + 1)..Least(L + PageSize, board) /\ Least(L + PageSize, board) \in Nat /\ L \in Nat
      BY <1>1, <1>4 DEF Window, Least
    <3> QED
      BY <3>1
  <2>2. \A x \in 1..L : ~(x >= L + 1)
    BY <1>3
  <2> QED
    BY <2>1, <2>2
<1>7. Cardinality({}) = 0
  BY FS_EmptySet
<1>8. /\ Cardinality(here) \in Nat /\ Cardinality(here) <= PageSize
      /\ Cardinality(here) < PageSize => L + Cardinality(here) = board
      /\ L + Cardinality(here) <= board
  BY <1>1, <1>3, <1>4, <1>5 DEF Least
<1>9. here = {} => L = board
  <2>1. here = {} => Cardinality(here) = 0
    BY <1>7
  <2>2. PageSize > 0
    BY CollectorsAssumption
  <2> HIDE DEF Window
  <2> QED
    BY <1>1, <1>3, <1>8, <2>1, <2>2
<1> QED
  BY <1>1, <1>2, <1>3, <1>4, <1>5, <1>6, <1>8, <1>9

(* A page of NerdIn or 99jobs: one past the end adds nothing.              *)
LEMMA NumberedKeeps ==
  ASSUME BoardRead, at = "listing", who \in {"nerdin", "99jobs"},
         NEW here, here = Window(page * PageSize, PageSize),
         NEW items, items = here \/ (here = {} /\ items \in {{}, Window(0, PageSize)}),
         NEW total \in BOOLEAN, total => who = "99jobs", counted' = total,
         NEW all, all = Len(cards) + Cardinality(Fresh(items)),
         NEW exhausted \in BOOLEAN,
         exhausted <=> Fresh(items) = {} \/ Cardinality(items) < PageSize \/ (total /\ all >= board),
         ListPage(items, Fresh(items), ~exhausted /\ all < cap /\ page + 1 < PageCap, Least(cap, all),
                  (total /\ board > Least(cap, all)) \/ (~exhausted /\ all >= cap))
  PROVE  BoardRead'
<1> DEFINE L == Len(cards)
           new == Fresh(items)
           more == ~exhausted /\ all < cap /\ page + 1 < PageCap
           received == Least(cap, all)
           truncated == (total /\ board > Least(cap, all)) \/ (~exhausted /\ all >= cap)
<1>1. /\ L \in Nat /\ board \in Nat /\ cap \in Nat \ {0} /\ page \in Nat /\ PageSize \in Nat \ {0}
      /\ PageCap \in Nat \ {0}
  BY TypedResult, CollectorsAssumption
<1>2. L <= board /\ page < PageCap /\ ToSet(cards) = shown /\ shown = 1..L
  BY DEF BoardRead, WhileListing
<1>3. /\ here = Window(L, PageSize) /\ here \in SUBSET (1..board) /\ here \cap ToSet(cards) = {}
      /\ Cardinality(here) \in Nat /\ Cardinality(here) <= PageSize
      /\ Cardinality(here) < PageSize => L + Cardinality(here) = board
      /\ here = {} => L = board
      /\ L + Cardinality(here) <= board
  BY NextPage DEF Scrapers
<1>4. Window(0, PageSize) \in SUBSET (1..board)
  BY <1>1, WindowCounts
<1>5. /\ items \in SUBSET (1..board)
      /\ \/ items = here /\ new = here
         \/ new = {} /\ L = board
  <2>1. CASE items = here
    BY <1>3, <2>1 DEF Fresh
  <2>2. CASE here = {} /\ items \in {{}, Window(0, PageSize)}
    <3>1. items \in SUBSET (1..board) /\ L = board
      BY <1>3, <1>4, <2>2
    <3>2. new = {}
      BY <1>2, <3>1 DEF Fresh
    <3> QED
      BY <3>1, <3>2
  <2> QED
    BY <2>1, <2>2
<1>6. new = items \ ToSet(cards)
  BY DEF Fresh
<1> HIDE DEF new
<1>7. /\ Cardinality(new) \in Nat /\ all \in Nat /\ all = L + Cardinality(new) /\ all <= board
      /\ new = {} => all = L
  <2>1. Cardinality({}) = 0
    BY FS_EmptySet
  <2>2. all = L + Cardinality(new)
    BY DEF new
  <2>3. CASE items = here /\ new = here
    BY <1>1, <1>3, <2>1, <2>2, <2>3
  <2>4. CASE new = {} /\ L = board
    BY <1>1, <2>1, <2>2, <2>4
  <2> QED
    BY <1>5, <2>3, <2>4
<1>8. ~exhausted => new # {} /\ ~(Cardinality(items) < PageSize)
  BY DEF new
<1>9. exhausted => all = board
  <2>1. CASE new = {} /\ L = board
    BY <1>7, <2>1
  <2>2. CASE items = here /\ new = here
    <3>1. exhausted => new = {} \/ Cardinality(here) < PageSize \/ all >= board
      BY <2>2 DEF new
    <3> QED
      BY <1>1, <1>3, <1>7, <2>2, <3>1
  <2> QED
    BY <1>5, <2>1, <2>2
<1>10. more => items = Window(L, PageSize) /\ Cardinality(new) = PageSize /\ all < cap
  <2>1. more => items = here /\ new = here /\ ~(Cardinality(here) < PageSize) /\ all < cap
    BY <1>5, <1>8
  <2> QED
    BY <1>1, <1>3, <2>1
<1>11. received \in Nat /\ received <= all /\ (all <= cap => received = all)
  BY <1>1, <1>7 DEF Least
<1>12. ~more => \/ truncated \/ received = board
                \/ ~total /\ all > cap
                \/ ~total /\ page + 1 = PageCap
  <2>1. CASE total
    BY <1>1, <1>7, <1>11, <2>1
  <2>2. CASE ~total /\ exhausted
    BY <1>1, <1>7, <1>9, <1>11, <2>2
  <2>3. CASE ~total /\ ~exhausted
    BY <1>1, <1>2, <1>7, <2>3
  <2> QED
    BY <2>1, <2>2, <2>3
<1>13. ListPage(items, new, more, received, truncated)
  BY DEF new
<1>14. more \in BOOLEAN /\ truncated \in BOOLEAN /\ (more => page + 1 < PageCap)
  OBVIOUS
<1>15. /\ counted' \in BOOLEAN /\ (counted' => who = "99jobs")
       /\ ~more => received = Least(cap, L + Cardinality(new))
       /\ ~more => \/ truncated \/ Least(cap, L + Cardinality(new)) = board
                   \/ ~counted' /\ L + Cardinality(new) > cap
                   \/ ~counted' /\ who \in {"nerdin", "99jobs"} /\ page + 1 = PageCap
  BY <1>7, <1>12
<1> HIDE DEF more, truncated, received
<1> QED
  BY <1>5, <1>6, <1>7, <1>10, <1>11, <1>13, <1>14, <1>15, ListingKeeps DEF Scrapers

(* NerdIn never states a total.                                            *)
LEMMA NerdinKeeps ==
  ASSUME BoardRead, NerdinPage
  PROVE  BoardRead'
<1> DEFINE here == Window(page * PageSize, PageSize)
           items == IF here = {} THEN Window(0, PageSize) ELSE here
           all == Len(cards) + Cardinality(Fresh(items))
           exhausted == Fresh(items) = {} \/ Cardinality(items) < PageSize
<1>1. /\ who = "nerdin" /\ counted' = counted
      /\ ListPage(items, Fresh(items), ~exhausted /\ all < cap /\ page + 1 < PageCap,
                  Least(cap, all), ~exhausted /\ all >= cap)
  BY DEF NerdinPage
<1>2. at = "listing"
  BY <1>1 DEF ListPage
<1>3. counted' = FALSE
  BY <1>1 DEF BoardRead, CollectorsTypeOK
<1>4. items = here \/ (here = {} /\ items \in {{}, Window(0, PageSize)})
  OBVIOUS
<1>5. exhausted \in BOOLEAN
  OBVIOUS
<1>6. exhausted <=> Fresh(items) = {} \/ Cardinality(items) < PageSize \/ (FALSE /\ all >= board)
  OBVIOUS
<1>7. ListPage(items, Fresh(items), ~exhausted /\ all < cap /\ page + 1 < PageCap, Least(cap, all),
               (FALSE /\ board > Least(cap, all)) \/ (~exhausted /\ all >= cap))
  <2>1. ((FALSE /\ board > Least(cap, all)) \/ (~exhausted /\ all >= cap)) = (~exhausted /\ all >= cap)
    OBVIOUS
  <2> QED
    BY <1>1, <2>1
<1> HIDE DEF here, items, exhausted
<1>8. here = Window(page * PageSize, PageSize)
  BY DEF here
<1> QED
  BY <1>1, <1>2, <1>3, <1>4, <1>5, <1>6, <1>7, <1>8, NumberedKeeps

(* 99jobs may state one.                                                   *)
LEMMA NinetyNineJobsKeeps ==
  ASSUME BoardRead, NinetyNineJobsPage
  PROVE  BoardRead'
<1> DEFINE here == Window(page * PageSize, PageSize)
<1>1. PICK items \in (IF here = {} THEN {{}, Window(0, PageSize)} ELSE {here}),
           total \in {counted, TRUE} :
        LET all == Len(cards) + Cardinality(Fresh(items))
            exhausted == Fresh(items) = {} \/ Cardinality(items) < PageSize \/ (total /\ all >= board) IN
        /\ counted' = total
        /\ ListPage(items, Fresh(items), ~exhausted /\ all < cap /\ page + 1 < PageCap,
                    Least(cap, all), (total /\ board > Least(cap, all)) \/ (~exhausted /\ all >= cap))
  BY DEF NinetyNineJobsPage
<1> DEFINE all == Len(cards) + Cardinality(Fresh(items))
           exhausted == Fresh(items) = {} \/ Cardinality(items) < PageSize \/ (total /\ all >= board)
<1>2. /\ counted' = total
      /\ ListPage(items, Fresh(items), ~exhausted /\ all < cap /\ page + 1 < PageCap,
                  Least(cap, all), (total /\ board > Least(cap, all)) \/ (~exhausted /\ all >= cap))
  BY <1>1
<1>3. who = "99jobs" /\ at = "listing"
  BY <1>2 DEF NinetyNineJobsPage, ListPage
<1>4. total \in BOOLEAN
  BY <1>1 DEF BoardRead, CollectorsTypeOK
<1>5. items = here \/ (here = {} /\ items \in {{}, Window(0, PageSize)})
  BY <1>1
<1>6. exhausted \in BOOLEAN
  OBVIOUS
<1>7. exhausted <=> Fresh(items) = {} \/ Cardinality(items) < PageSize \/ (total /\ all >= board)
  OBVIOUS
<1> HIDE DEF here, exhausted
<1>8. here = Window(page * PageSize, PageSize)
  BY DEF here
<1> QED
  BY <1>2, <1>3, <1>4, <1>5, <1>6, <1>7, <1>8, NumberedKeeps

(* Vagas.com lists every page in full.                                     *)
LEMMA VagasKeeps ==
  ASSUME BoardRead, VagasPage
  PROVE  BoardRead'
<1> DEFINE items == Window(page * PageSize, PageSize)
           n == Cardinality(items)
           full == n = PageSize
           all == Len(cards) + n
           more == full /\ all < cap
           truncated == full /\ all >= cap
<1>1. who = "vagas" /\ counted' = counted /\ ListPage(items, items, more, all, truncated)
  BY DEF VagasPage
<1>2. at = "listing" /\ counted' = FALSE
  BY <1>1 DEF ListPage, BoardRead, CollectorsTypeOK
<1>3. more \in BOOLEAN /\ truncated \in BOOLEAN
  OBVIOUS
<1>4. /\ items = Window(Len(cards), PageSize) /\ items \in SUBSET (1..board)
      /\ items \cap ToSet(cards) = {} /\ n \in Nat /\ n <= PageSize
      /\ n < PageSize => all = board
  BY <1>1, <1>2, NextPage DEF Scrapers
<1>5. /\ Len(cards) \in Nat /\ board \in Nat /\ cap \in Nat /\ PageSize \in Nat
  BY TypedResult, CollectorsAssumption
<1>6. all \in Nat /\ items = items \ ToSet(cards)
  BY <1>4, <1>5
<1>7. more => n = PageSize /\ all < cap
  OBVIOUS
<1>8. ~more => \/ truncated \/ Least(cap, all) = board
               \/ ~counted' /\ all > cap
  BY <1>2, <1>4, <1>5, <1>6 DEF Least
<1>9. who = "vagas" /\ who \in Scrapers
  BY <1>1 DEF Scrapers
<1> HIDE DEF more, truncated, items
<1> QED
  BY <1>1, <1>2, <1>3, <1>4, <1>6, <1>7, <1>8, <1>9, ListingKeeps

(* InfoJobs lists some postings of each age.                               *)
LEMMA InfoJobsKeeps ==
  ASSUME BoardRead, InfoJobsPage
  PROVE  BoardRead'
<1>1. PICK items \in {S \in SUBSET (1..board) : Cardinality(S) <= PageSize} :
        LET all == Len(cards) + Cardinality(Fresh(items)) IN
        ListPage(items, Fresh(items), page + 1 < buckets, all, all > cap)
  BY DEF InfoJobsPage
<1> DEFINE new == Fresh(items)
           all == Len(cards) + Cardinality(new)
           more == page + 1 < buckets
           truncated == all > cap
<1>2. who = "infojobs" /\ counted' = FALSE /\ who \in Scrapers
  BY DEF InfoJobsPage, BoardRead, CollectorsTypeOK, Scrapers
<1>3. ListPage(items, new, more, all, truncated)
  BY <1>1
<1>4. at = "listing"
  BY <1>3 DEF ListPage
<1>5. new = items \ ToSet(cards) /\ items \in SUBSET (1..board)
  BY DEF Fresh
<1>6. all \in Nat
  <2>1. new \subseteq 1..board
    BY <1>5
  <2>2. Cardinality(new) \in Nat
    BY <2>1, TypedResult, FS_Subset, FS_CardinalityType
  <2> QED
    BY <2>2, TypedResult
<1>7. more \in BOOLEAN /\ truncated \in BOOLEAN
  OBVIOUS
<1> HIDE DEF new, more, truncated
<1> QED
  BY <1>2, <1>3, <1>4, <1>5, <1>6, <1>7, ListingKeeps

(* A listing that failed: what was listed is kept, and the result says so. *)
LEMMA ListingFailureKeeps ==
  ASSUME BoardRead, ListingFails
  PROVE  BoardRead'
<1> USE DEF ListingFails
<1>1. /\ result \in Accounts(1..board) /\ cards \in Seq(1..board) /\ Len(cards) \in Nat
      /\ cap \in Nat \ {0} /\ page \in Nat /\ board \in Nat
  BY TypedResult
<1>2. /\ ToSet(cards) = shown /\ Judged = 0 /\ ToSet(result.postings) = {}
      /\ who # "infojobs" => Len(cards) = page * PageSize /\ Len(cards) < cap /\ Len(cards) <= board
  BY DEF BoardRead, WhileListing
<1>3. Cardinality(shown) = Len(cards)
  BY <1>1, <1>2, CountedOnce DEF BoardRead
<1> DEFINE goesOn == who = "infojobs" /\ page + 1 < buckets
           short == \/ who = "infojobs" /\ Len(cards) > cap
                    \/ counted /\ cards # <<>> /\ board > Len(cards)
<1>4. /\ result'.postings = result.postings /\ result'.error = TRUE
      /\ result'.schemaRejected = result.schemaRejected
      /\ result'.businessRejected = result.businessRejected
      /\ result' \in Accounts(1..board)
      /\ ~goesOn => result'.received = Len(cards)
  <2>1. CASE goesOn
    <3>1. result' = [result EXCEPT !.error = TRUE]
      BY <2>1
    <3> QED
      BY <1>1, <2>1, <3>1 DEF Accounts
  <2>2. CASE ~goesOn
    <3>1. result' = [result EXCEPT !.received = Len(cards), !.truncated = short, !.error = TRUE]
      BY <2>2 DEF OpenDetails
    <3>2. short \in BOOLEAN
      OBVIOUS
    <3> HIDE DEF short
    <3> QED
      BY <1>1, <2>2, <3>1, <3>2 DEF Accounts
  <2> QED
    BY <2>1, <2>2
<1>5. Judged' = 0
  BY <1>2, <1>4 DEF Judged
<1>6. /\ at' \in {"listing", "details", "done"}
      /\ at' = "listing" => goesOn
      /\ at' # "listing" => ~goesOn /\ at' = IF cards = <<>> THEN "done" ELSE "details"
  BY DEF OpenDetails
<1>7. CollectorsTypeOK'
  <2>1. UNCHANGED <<who, cap, board, buckets, counted, cards, shown>> /\ page' = page + 1 /\ tries' = 0
    OBVIOUS
  <2>2. /\ at' \in {"idle", "listing", "details", "done"} /\ page' \in Nat /\ tries' \in 0..Delays
        /\ cards' \in Seq(1..board) /\ result' \in Accounts(1..board)
    BY <1>1, <1>4, <1>6, <2>1, CollectorsAssumption
  <2> HIDE DEF ListingFails
  <2> QED
    BY <2>1, <2>2 DEF BoardRead, CollectorsTypeOK, Accounts
<1>8. ~NeedlessPage'
  <2>1. page' = page + 1 /\ page' - 1 = page
    BY <1>1
  <2> QED
    BY <1>1, <1>2, <2>1 DEF NeedlessPage
<1>9. WhileListing'
  <2>1. at' = "listing" => who = "infojobs"
    BY <1>6
  <2> QED
    BY <1>2, <1>4, <1>5, <2>1 DEF WhileListing, Apis, Scrapers
<1>10. PICK t \in Nat : t = Least(cap, Len(cards)) /\ (Len(cards) > 0 => t > 0) /\ (Len(cards) = 0 => t = 0)
  <2>1. PICK l \in Nat : l = Len(cards)
    BY <1>1
  <2>2. /\ Least(cap, l) \in Nat /\ (l > 0 => Least(cap, l) > 0) /\ (l = 0 => Least(cap, l) = 0)
    BY <1>1 DEF Least
  <2> QED
    BY <2>1, <2>2
<1>11. who = "vagas" => Cardinality(shown) = t
  BY <1>1, <1>2, <1>3, <1>10 DEF Least
<1>12. Honest(t)' \/ at' = "listing"
  <2>1. ~goesOn => result'.received = IF who \in {"vagas", "infojobs"} THEN Cardinality(shown) ELSE t
    <3>1. who # "infojobs" => t = Len(cards)
      BY <1>1, <1>2, <1>10 DEF Least
    <3> QED
      BY <1>3, <1>4, <1>11, <3>1
  <2> QED
    BY <1>4, <1>6, <2>1 DEF Honest
<1>13. WhenDone'
  <2> SUFFICES ASSUME at' = "done" PROVE WhenDone'
    BY DEF WhenDone
  <2>1. cards = <<>> /\ t = 0 /\ Cardinality(shown) = 0
    BY <1>3, <1>6, <1>10
  <2>2. Least(cap', Cardinality(shown')) = 0
    BY <1>1, <2>1 DEF Least
  <2> QED
    BY <1>5, <1>12, <2>1, <2>2 DEF WhenDone, Honest
<1>14. WhileDetails'
  <2> SUFFICES ASSUME at' = "details" PROVE WhileDetails'
    BY DEF WhileDetails
  <2>1. cards # <<>> /\ Len(cards) > 0 /\ who \in Scrapers
    BY <1>1, <1>6
  <2>2. t > 0 /\ t = Least(cap', Len(cards')) /\ Len(cards') = Cardinality(shown')
    BY <1>3, <1>10, <2>1
  <2>3. ToSet(result'.postings) = {}
    BY <1>2, <1>4
  <2> QED
    BY <1>5, <1>12, <2>1, <2>2, <2>3 DEF WhileDetails, Honest
<1>15. WhileIdle' /\ Once(cards') /\ Once(result'.postings) /\ (counted' => who' = "99jobs")
  BY <1>4, <1>6 DEF BoardRead, WhileIdle, Once
<1> QED
  BY <1>7, <1>8, <1>9, <1>13, <1>14, <1>15 DEF BoardRead

(* The detail page of the next card.                                       *)
LEMMA DetailKeeps ==
  ASSUME BoardRead, NEW fates \in SUBSET {"kept", "malformed", "unwanted"}, NEW error \in BOOLEAN,
         Detail(fates, error)
  PROVE  BoardRead'
<1>1. /\ result \in Accounts(1..board) /\ cards \in Seq(1..board) /\ Len(cards) \in Nat
      /\ cap \in Nat \ {0} /\ page \in Nat /\ board \in Nat /\ (1..board) \in SUBSET Nat
  BY TypedResult
<1>2. /\ at = "details" /\ who \in Scrapers /\ Len(cards) = Cardinality(shown)
      /\ Judged < Least(cap, Len(cards))
      /\ ToSet(result.postings) \subseteq {cards[i] : i \in 1..Judged}
      /\ Honest(Least(cap, Len(cards)))
      /\ Once(cards) /\ Once(result.postings)
  BY DEF Detail, BoardRead, WhileDetails
<1>3. PICK n \in Nat : n = Judged /\ n = Total(result)
  BY <1>1 DEF Judged, Total, Accounts
<1>4. PICK t \in Nat : t = Least(cap, Len(cards)) /\ t <= Len(cards) /\ n < t
  <2>1. PICK l \in Nat : l = Len(cards)
    BY <1>1
  <2>2. Least(cap, l) \in Nat /\ Least(cap, l) <= l
    BY <1>1 DEF Least
  <2> QED
    BY <1>2, <1>3, <2>1, <2>2
<1>5. n + 1 \in 1..Len(cards)
  BY <1>1, <1>3, <1>4
<1>6. PICK i \in 1..board : i = cards[n + 1]
  BY <1>1, <1>5
<1>7. PICK f \in fates :
        result' = [With(result, {i}, [j \in {i} |-> f]) EXCEPT !.error = @ \/ error]
  BY <1>3, <1>6 DEF Detail
<1> DEFINE fate == [j \in {i} |-> f]
           q == With(result, {i}, fate)
<1>8. i \notin ToSet(result.postings)
  <2>1. \A j \in 1..n : cards[j] # cards[n + 1]
    BY <1>2, <1>5 DEF Once
  <2> QED
    BY <1>2, <1>3, <1>6, <2>1
<1>9. IsFiniteSet({i}) /\ Cardinality({i}) = 1
  BY FS_Singleton
<1>10. fate \in [{i} -> {"kept", "malformed", "unwanted"}]
  OBVIOUS
<1> HIDE DEF fate
<1>11. {i} \in SUBSET (1..board) /\ {i} \cap ToSet(result.postings) = {}
  BY <1>8
<1>12. /\ q \in Accounts(1..board) /\ Once(q.postings)
       /\ ToSet(q.postings) \subseteq ToSet(result.postings) \cup {i}
       /\ Total(q) = n + 1
       /\ q.error = result.error /\ q.truncated = result.truncated
       /\ q.received = result.received
  <2> DEFINE T == 1..board
             S == {i}
  <2>1. /\ T \in SUBSET Nat /\ result \in Accounts(T) /\ S \in SUBSET T /\ IsFiniteSet(S)
        /\ S \cap ToSet(result.postings) = {} /\ Once(result.postings)
        /\ fate \in [S -> {"kept", "malformed", "unwanted"}] /\ Cardinality(S) = 1
    BY <1>1, <1>2, <1>9, <1>10, <1>11
  <2> HIDE DEF T, S
  <2>2. /\ With(result, S, fate) \in Accounts(T)
        /\ Once(With(result, S, fate).postings)
        /\ ToSet(With(result, S, fate).postings) \subseteq ToSet(result.postings) \cup S
        /\ Total(With(result, S, fate)) = Total(result) + Cardinality(S)
        /\ With(result, S, fate).error = result.error
        /\ With(result, S, fate).truncated = result.truncated
        /\ With(result, S, fate).received = result.received
    BY <2>1, WithCountsAll
  <2> QED
    BY <1>3, <2>1, <2>2 DEF T, S
<1> HIDE DEF q
<1>13. /\ result' \in Accounts(1..board) /\ result'.postings = q.postings
       /\ result'.schemaRejected = q.schemaRejected
       /\ result'.businessRejected = q.businessRejected
       /\ result'.received = q.received /\ result'.truncated = q.truncated
       /\ q.error => result'.error
  <2> DEFINE e == q.error \/ error
  <2>1. result' = [q EXCEPT !.error = e]
    BY <1>7, <1>12 DEF q, fate, Accounts
  <2>2. e \in BOOLEAN
    OBVIOUS
  <2>3. q.error => e
    OBVIOUS
  <2> HIDE DEF e
  <2>4. result' \in Accounts(1..board) /\ result'.error = e
        /\ result'.postings = q.postings
        /\ result'.schemaRejected = q.schemaRejected
        /\ result'.businessRejected = q.businessRejected
        /\ result'.received = q.received /\ result'.truncated = q.truncated
    BY <1>12, <2>1, <2>2 DEF Accounts
  <2> QED
    BY <2>3, <2>4
<1>14. Judged' = n + 1
  BY <1>12, <1>13 DEF Judged, Total
<1>15. /\ UNCHANGED <<who, cap, board, buckets, counted, page, cards, shown>> /\ tries' = 0
       /\ at' = IF n + 1 = t THEN "done" ELSE "details"
  BY <1>3, <1>4 DEF Detail
<1>16. CollectorsTypeOK'
  BY <1>1, <1>13, <1>15, CollectorsAssumption DEF BoardRead, CollectorsTypeOK, Accounts
<1>17. Honest(t)'
  <2>1. /\ result.received = IF who \in {"vagas", "infojobs"} THEN Cardinality(shown) ELSE t
        /\ result.error \/ result.truncated \/ t = board \/ LeftUnsaid
    BY <1>2, <1>4 DEF Honest
  <2>2. result'.received = result.received /\ result'.truncated = result.truncated
        /\ (result.error => result'.error)
    BY <1>12, <1>13
  <2>3. LeftUnsaid' <=> LeftUnsaid
    BY <1>15 DEF LeftUnsaid
  <2> QED
    BY <1>15, <2>1, <2>2, <2>3 DEF Honest
<1>18. WhenDone'
  <2> SUFFICES ASSUME at' = "done" PROVE WhenDone'
    BY DEF WhenDone
  <2>1. n + 1 = t
    BY <1>15
  <2>2. Judged' = t /\ t = Least(cap', Cardinality(shown'))
    BY <1>2, <1>4, <1>14, <1>15, <2>1
  <2> QED
    BY <1>17, <2>2 DEF WhenDone, Honest
<1>19. WhileDetails'
  <2> SUFFICES ASSUME at' = "details" PROVE WhileDetails'
    BY DEF WhileDetails
  <2>1. n + 1 < t
    BY <1>4, <1>15
  <2>2. t = Least(cap', Len(cards')) /\ Judged' < t /\ Len(cards') = Cardinality(shown')
    BY <1>2, <1>4, <1>14, <1>15, <2>1
  <2>3. ToSet(result'.postings) \subseteq {cards'[j] : j \in 1..Judged'}
    BY <1>2, <1>3, <1>6, <1>12, <1>13, <1>14, <1>15
  <2> QED
    BY <1>2, <1>15, <1>17, <2>2, <2>3 DEF WhileDetails, Honest
<1>20. ~NeedlessPage' /\ WhileIdle' /\ WhileListing' /\ Once(cards') /\ Once(result'.postings)
       /\ (counted' => who' = "99jobs")
  BY <1>12, <1>13, <1>15 DEF BoardRead, NeedlessPage, WhileIdle, WhileListing, Once
<1> QED
  BY <1>16, <1>18, <1>19, <1>20 DEF BoardRead

(* The invariant of a collection, step by step.                            *)
LEMMA BoardReadHolds == CollectorsSpec => []BoardRead
<1>1. ASSUME BoardRead, [CollectorsNext]_sourceVars
      PROVE  BoardRead'
  <2>1. CASE BeginCollect
    BY <1>1, <2>1, BeginKeeps
  <2>2. CASE Retry
    BY <1>1, <2>2, RetryKeeps
  <2>3. CASE ApiPageFails
    BY <1>1, <2>3, ApiFailureKeeps
  <2>4. CASE ListingFails
    BY <1>1, <2>4, ListingFailureKeeps
  <2>5. CASE GupyPage \/ CieePage \/ SolidesPage
    BY <1>1, <2>5, ApisKeep
  <2>6. CASE NerdinPage
    BY <1>1, <2>6, NerdinKeeps
  <2>7. CASE NinetyNineJobsPage
    BY <1>1, <2>7, NinetyNineJobsKeeps
  <2>8. CASE VagasPage
    BY <1>1, <2>8, VagasKeeps
  <2>9. CASE InfoJobsPage
    BY <1>1, <2>9, InfoJobsKeeps
  <2>10. CASE NerdinDetail \/ NinetyNineJobsDetail \/ VagasDetail \/ InfoJobsDetail
    <3>1. PICK fates \in SUBSET {"kept", "malformed", "unwanted"} :
            Detail(fates, FALSE) \/ Detail(fates, TRUE)
      <4>1. /\ {"kept", "malformed"} \in SUBSET {"kept", "malformed", "unwanted"}
            /\ {"malformed"} \in SUBSET {"kept", "malformed", "unwanted"}
            /\ {"kept", "malformed", "unwanted"} \in SUBSET {"kept", "malformed", "unwanted"}
        OBVIOUS
      <4>2. \/ Detail({"kept", "malformed"}, FALSE) \/ Detail({"malformed"}, TRUE)
            \/ Detail({"kept", "malformed", "unwanted"}, FALSE)
        BY <2>10 DEF NerdinDetail, NinetyNineJobsDetail, VagasDetail, InfoJobsDetail
      <4> QED
        BY <4>1, <4>2
    <3> QED
      BY <1>1, <3>1, DetailKeeps
  <2>11. CASE UNCHANGED sourceVars
    <3> USE <2>11 DEF sourceVars
    <3>1. CollectorsTypeOK' /\ ~NeedlessPage' /\ Once(cards') /\ Once(result'.postings)
          /\ (counted' => who' = "99jobs")
      BY <1>1 DEF BoardRead, CollectorsTypeOK, NeedlessPage, Once
    <3>2. WhileIdle' /\ WhileListing' /\ WhileDetails' /\ WhenDone'
      BY <1>1 DEF BoardRead, WhileIdle, WhileListing, WhileDetails, WhenDone, Honest, Judged, LeftUnsaid
    <3> QED
      BY <3>1, <3>2 DEF BoardRead
  <2> QED
    BY <1>1, <2>1, <2>2, <2>3, <2>4, <2>5, <2>6, <2>7, <2>8, <2>9, <2>10, <2>11
    DEF CollectorsNext, Request
<1> QED
  BY <1>1, BoardsStart, PTL DEF CollectorsSpec

(* Every posting a page showed, up to the cap, is returned once or counted *)
(* under one rejection, and a result that reports neither an error nor a   *)
(* truncation has the whole board, but for what LeftUnsaid names: for any  *)
(* cap, board, page size and course of failures.                           *)
THEOREM ResultsAreHonest == CollectorsSpec => []ResultIsHonest
<1>1. ASSUME BoardRead PROVE ResultIsHonest
  <2>1. CollectorsTypeOK
    BY <1>1 DEF BoardRead
  <2>2. IsInjective(result.postings)
    <3>1. result.postings \in Seq(1..board) /\ Once(result.postings)
      BY <1>1, TypedResult DEF BoardRead, Accounts
    <3>2. DOMAIN result.postings = 1..Len(result.postings)
      BY <3>1
    <3> QED
      BY <3>1, <3>2 DEF Once, IsInjective
  <2>3. at = "done" => /\ Judged = Least(cap, Cardinality(shown))
                       /\ result.received = IF who \in {"vagas", "infojobs"} THEN Cardinality(shown) ELSE Judged
                       /\ result.error \/ result.truncated \/ Judged = board \/ LeftUnsaid
    BY <1>1 DEF BoardRead, WhenDone, Honest
  <2> QED
    BY <2>1, <2>2, <2>3 DEF ResultIsHonest
<1> QED
  BY <1>1, BoardReadHolds, PTL

(* A request is tried Delays times again and no more, and no board is asked *)
(* for a page past its end but the one that shows it, nor past the cap.     *)
THEOREM BoardsAreSpared == CollectorsSpec => [](tries <= Delays /\ ~NeedlessPage)
<1>1. ASSUME BoardRead PROVE tries <= Delays /\ ~NeedlessPage
  BY <1>1 DEF BoardRead, CollectorsTypeOK
<1> QED
  BY <1>1, BoardReadHolds, PTL

-----------------------------------------------------------------------------
(* The search for repeats (ShadowDedup).                                   *)

(* The invariant of a pass.                                                *)

StoredRow == [p : Postings, first : Nat]

DedupTyped ==
  /\ today \in Nat /\ corpus \in Seq(StoredRow) /\ scanned \subseteq DOMAIN corpus
  /\ queue \in Seq(scanned) /\ past \in Seq(scanned) /\ from \in 1..(Len(past) + 1)

(* Rows the pass has compared with those before them.                      *)
Looked == {j \in scanned : CompanyOf(j) \notin groups /\ j \notin ToSet(queue)}

InOrder(s) == \A k, l \in 1..Len(s) : k < l => Before(s[k], s[l])

(* The rows of one company, split in two: what lies before the window of   *)
(* one of them lies before the window of those that come after it.         *)
GroupUnderWay == queue # <<>> =>
  /\ InOrder(past) /\ InOrder(queue) /\ \A x \in ToSet(past), y \in ToSet(queue) : Before(x, y)
  /\ \E i \in scanned : /\ CompanyOf(i) \notin groups
                        /\ ToSet(past) \cup ToSet(queue) = {x \in scanned : CompanyOf(x) = CompanyOf(i)}
  /\ \A k \in 1..(from - 1) : \A y \in ToSet(queue) : ~WithinWindow(past[k], y)

(* The pair x was told of, or dropped for the bound and that told of.      *)
Told(x) ==
  \/ \E y \in report : y[1] = x[1] /\ ~Before(x[2], y[2])
  \/ x[1] \in cut /\ Cardinality(InBetween(x[2], x[1])) >= MaxComparisons

ReportSoFar ==
  /\ report \subseteq Pairs /\ \A x \in report : x[1] \in Looked
  /\ \A x, y \in report : x[1] = y[1] => x = y
  /\ \A x \in Pairs : x[1] \in Looked => Told(x)

PassOnTrack == DedupTyped /\ GroupUnderWay /\ ReportSoFar

-----------------------------------------------------------------------------
(* Rows and their order.                                                   *)

(* The types of a stored row.                                              *)
LEMMA RowsAre ==
  ASSUME DedupTyped, NEW i \in DOMAIN corpus
  PROVE  /\ corpus[i] \in StoredRow /\ corpus[i].first \in Nat /\ i \in Nat
         /\ corpus[i].p.title \in Seq(STRING)
<1>1. corpus[i] \in StoredRow /\ i \in Nat
  BY DEF DedupTyped
<1>2. corpus[i].first \in Nat /\ corpus[i].p \in Postings
  BY <1>1 DEF StoredRow
<1> QED
  BY <1>1, <1>2, DedupAssumption

(* The rows of the pass are ordered strictly: no two are equally old.      *)
LEMMA BeforeIsAnOrder ==
  ASSUME DedupTyped
  PROVE  /\ \A i \in scanned : ~Before(i, i)
         /\ \A i, j \in scanned : i # j => Before(i, j) \/ Before(j, i)
         /\ \A i, j \in scanned : Before(i, j) => ~Before(j, i)
         /\ \A i, j, k \in scanned : Before(i, j) /\ Before(j, k) => Before(i, k)
<1>1. \A i \in scanned : i \in Nat /\ corpus[i].first \in Nat
  BY RowsAre DEF DedupTyped
<1> QED
  BY <1>1 DEF Before

(* A posting after another lies no nearer to those before both.            *)
LEMMA WindowMovesOn ==
  ASSUME DedupTyped, NEW i \in scanned, NEW j \in scanned, NEW k \in scanned,
         Before(i, j), Before(j, k)
  PROVE  /\ WithinWindow(i, k) => WithinWindow(i, j) /\ WithinWindow(j, k)
<1>1. \A x \in scanned : corpus[x].first \in Nat
  BY RowsAre DEF DedupTyped
<1>2. WindowDays \in Nat
  BY DedupAssumption
<1> QED
  BY <1>1, <1>2 DEF Before, WithinWindow, Apart

(* The pass reads finitely many rows.                                      *)
LEMMA ScannedIsFinite ==
  ASSUME DedupTyped
  PROVE  IsFiniteSet(scanned)
<1>1. Len(corpus) \in Nat /\ DOMAIN corpus = 1..Len(corpus)
  BY DEF DedupTyped
<1>2. IsFiniteSet(1..Len(corpus))
  BY <1>1, FS_Interval, 1 \in Int, Len(corpus) \in Int
<1> QED
  BY <1>1, <1>2, FS_Subset DEF DedupTyped

(* What a row says of itself and of others does not change when rows are   *)
(* stored behind it.                                                       *)
LEMMA RowsStayAsTheyAre ==
  ASSUME \A i \in DOMAIN corpus : i \in DOMAIN corpus' /\ corpus'[i] = corpus[i]
  PROVE  /\ \A i \in DOMAIN corpus : CompanyOf(i)' = CompanyOf(i)
         /\ \A i, j \in DOMAIN corpus : Before(i, j)' <=> Before(i, j)
         /\ \A i, j \in DOMAIN corpus : WithinWindow(i, j)' <=> WithinWindow(i, j)
         /\ \A i, j \in DOMAIN corpus : LocationsAgree(i, j)' <=> LocationsAgree(i, j)
         /\ \A i, j \in DOMAIN corpus : Similar(i, j)' <=> Similar(i, j)
<1>1. \A i \in DOMAIN corpus : CompanyOf(i)' = CompanyOf(i)
  BY DEF CompanyOf
<1>2. \A i, j \in DOMAIN corpus : Before(i, j)' <=> Before(i, j)
  BY DEF Before
<1>3. \A i, j \in DOMAIN corpus : WithinWindow(i, j)' <=> WithinWindow(i, j)
  BY DEF WithinWindow, Apart
<1>4. \A i, j \in DOMAIN corpus : LocationsAgree(i, j)' <=> LocationsAgree(i, j)
  BY DEF LocationsAgree
<1>5. \A i, j \in DOMAIN corpus : Similar(i, j)' <=> Similar(i, j)
  BY DEF Similar
<1> QED
  BY <1>1, <1>2, <1>3, <1>4, <1>5

(* A threshold above zero asks for something.                              *)
LEMMA ProductIsPositive ==
  ASSUME NEW a \in Nat \ {0}, NEW b \in Nat \ {0}
  PROVE  a * b \in Nat \ {0}
OBVIOUS

(* A function takes finitely many values on a finite set.                  *)
LEMMA ValuesAreFinite ==
  ASSUME NEW S, IsFiniteSet(S), NEW f, f = [x \in S |-> f[x]]
  PROVE  IsFiniteSet({f[x] : x \in S})
<1>1. f \in Surjection(S, {f[x] : x \in S})
  BY DEF Surjection
<1> QED
  BY <1>1, FS_Surjection

(* Two titles are alike only by bigrams they both have.                    *)
LEMMA SimilarSaysSomething ==
  ASSUME DedupTyped, NEW i \in DOMAIN corpus, NEW j \in DOMAIN corpus, Similar(i, j)
  PROVE  Size(corpus[i].p.title) > 0 /\ Size(corpus[j].p.title) > 0
<1>1. ASSUME NEW t \in Seq(STRING)
      PROVE  IsFiniteSet(Bigrams(t))
  <2>1. ASSUME NEW b \in AllPieces
        PROVE  Count(t, b) \in Nat
    <3> DEFINE Has(k) == t[k] \in DOMAIN Pieces /\ b \in DOMAIN Pieces[t[k]]
               H == {n \in DOMAIN t : Has(n)}
               Copies == {{k} \X (1..Pieces[t[k]][b]) : k \in H}
    <3>1. IsFiniteSet(H)
      <4>1. DOMAIN t = 1..Len(t) /\ Len(t) \in Nat
        OBVIOUS
      <4>2. IsFiniteSet(1..Len(t))
        BY <4>1, FS_Interval, 1 \in Int, Len(t) \in Int
      <4> QED
        BY <4>1, <4>2, FS_Subset
    <3>2. \A k \in H : Pieces[t[k]][b] \in Nat
      BY DedupAssumption
    <3>3. \A k \in H : IsFiniteSet({k} \X (1..Pieces[t[k]][b]))
      <4> TAKE k \in H
      <4>1. IsFiniteSet(1..Pieces[t[k]][b])
        BY <3>2, FS_Interval, 1 \in Int, Pieces[t[k]][b] \in Int
      <4> QED
        BY <4>1, FS_Singleton, FS_Product
    <3>4. IsFiniteSet(Copies)
      <4> DEFINE f == [k \in H |-> {k} \X (1..Pieces[t[k]][b])]
      <4>1. Copies = {f[k] : k \in H} /\ f = [k \in H |-> f[k]]
        OBVIOUS
      <4> HIDE DEF H, f
      <4> QED
        BY <3>1, <4>1, ValuesAreFinite
    <3>5. IsFiniteSet(UNION Copies)
      BY <3>3, <3>4, FS_UNION
    <3> QED
      BY <3>5, FS_CardinalityType DEF Count
  <2>2. \A b \in AllPieces : IsFiniteSet({b} \X (1..Count(t, b)))
    <3> TAKE b \in AllPieces
    <3>1. IsFiniteSet(1..Count(t, b))
      BY <2>1, FS_Interval, 1 \in Int, Count(t, b) \in Int
    <3> QED
      BY <3>1, FS_Singleton, FS_Product
  <2> DEFINE Copies == {{b} \X (1..Count(t, b)) : b \in AllPieces}
  <2>3. IsFiniteSet(Copies)
    <3>1. IsFiniteSet(AllPieces)
      BY DedupAssumption
    <3> DEFINE f == [b \in AllPieces |-> {b} \X (1..Count(t, b))]
    <3>2. Copies = {f[b] : b \in AllPieces} /\ f = [b \in AllPieces |-> f[b]]
      OBVIOUS
    <3> HIDE DEF f, Copies
    <3> QED
      BY <3>1, <3>2, ValuesAreFinite
  <2>4. IsFiniteSet(UNION Copies)
    BY <2>2, <2>3, FS_UNION
  <2> QED
    BY <2>4 DEF Bigrams
<1> DEFINE t == corpus[i].p.title  u == corpus[j].p.title
<1>2. IsFiniteSet(Bigrams(t)) /\ IsFiniteSet(Bigrams(u))
  BY <1>1, RowsAre
<1>3. Size(t) \in Nat /\ Size(u) \in Nat /\ Size(t) + Size(u) > 0
  BY <1>2, FS_CardinalityType DEF Size, Similar
<1>4. IsFiniteSet(Bigrams(t) \cap Bigrams(u)) /\ Shared(t, u) \in Nat
  BY <1>2, FS_Subset, FS_CardinalityType DEF Shared
<1>5. 200 * Shared(t, u) >= Threshold100 * (Size(t) + Size(u))
  BY DEF Similar
<1>6. Shared(t, u) > 0
  <2>1. PICK s \in Nat \ {0} : s = Size(t) + Size(u)
    BY <1>3
  <2>2. Threshold100 * s \in Nat \ {0}
    BY <2>1, ProductIsPositive, DedupAssumption
  <2>3. PICK m \in Nat : m = Shared(t, u)
    BY <1>4
  <2>4. 200 * m >= Threshold100 * s
    BY <1>5, <2>1, <2>3
  <2>5. PICK r \in Nat \ {0} : r = Threshold100 * s
    BY <2>2
  <2>6. 200 * m >= r
    BY <2>4, <2>5
  <2> HIDE DEF t, u
  <2> QED
    BY <2>3, <2>5, <2>6
<1>7. Bigrams(t) \cap Bigrams(u) # {}
  BY <1>6, FS_EmptySet DEF Shared
<1>8. Size(t) # 0 /\ Size(u) # 0
  BY <1>2, <1>7, FS_EmptySet DEF Size
<1> QED
  BY <1>3, <1>8

-----------------------------------------------------------------------------
(* The steps.                                                              *)

(* No pass has run yet.                                                    *)
LEMMA PassStarts == DedupInit => PassOnTrack
<1> SUFFICES ASSUME DedupInit PROVE PassOnTrack
  OBVIOUS
<1> USE DEF DedupInit
<1>1. PICK p \in Postings : corpus = <<[p |-> p, first |-> 0]>>
  OBVIOUS
<1>2. [p |-> p, first |-> 0] \in StoredRow
  BY DEF StoredRow
<1>3. corpus \in Seq(StoredRow)
  BY <1>1, <1>2
<1>4. DedupTyped
  BY <1>3 DEF DedupTyped
<1>5. Pairs = {}
  BY DEF Pairs
<1> QED
  BY <1>4, <1>5 DEF PassOnTrack, GroupUnderWay, ReportSoFar

(* Rows stored while a pass runs do not touch it.                          *)
LEMMA StoringKeepsPass ==
  ASSUME PassOnTrack, UNCHANGED <<scanned, groups, queue, past, from, report, cut>>,
         today' \in Nat, corpus' \in Seq(StoredRow),
         \A i \in DOMAIN corpus : i \in DOMAIN corpus' /\ corpus'[i] = corpus[i]
  PROVE  PassOnTrack'
<1>1. DedupTyped'
  BY DEF PassOnTrack, DedupTyped
<1>2. /\ \A i \in scanned : CompanyOf(i)' = CompanyOf(i)
      /\ \A i, j \in scanned : Before(i, j)' <=> Before(i, j)
      /\ \A i, j \in scanned : WithinWindow(i, j)' <=> WithinWindow(i, j)
      /\ \A i, j \in scanned : LocationsAgree(i, j)' <=> LocationsAgree(i, j)
      /\ \A i, j \in scanned : Similar(i, j)' <=> Similar(i, j)
  BY RowsStayAsTheyAre DEF PassOnTrack, DedupTyped
<1>3. /\ scanned' = scanned /\ groups' = groups /\ queue' = queue /\ past' = past /\ from' = from
      /\ report' = report /\ cut' = cut
  OBVIOUS
<1>4. \A i, j \in scanned : Alike(i, j)' <=> Alike(i, j)
  BY <1>2 DEF Alike
<1>5. Pairs' = Pairs
  BY <1>3, <1>4 DEF Pairs
<1>6. \A i, j \in scanned : InBetween(i, j)' = InBetween(i, j)
  BY <1>2, <1>3 DEF InBetween
<1>7. Looked' = Looked
  BY <1>2, <1>3 DEF Looked
<1>8. GroupUnderWay'
  <2> SUFFICES ASSUME queue # <<>> PROVE GroupUnderWay'
    BY <1>3 DEF GroupUnderWay
  <2>0. /\ queue \in Seq(scanned) /\ past \in Seq(scanned) /\ from \in 1..(Len(past) + 1)
        /\ ToSet(past) \subseteq scanned /\ ToSet(queue) \subseteq scanned
        /\ \A k \in 1..Len(past) : past[k] \in scanned
        /\ \A k \in 1..Len(queue) : queue[k] \in scanned
    BY DEF PassOnTrack, DedupTyped, ToSet
  <2>1. /\ InOrder(past) /\ InOrder(queue) /\ \A x \in ToSet(past), y \in ToSet(queue) : Before(x, y)
        /\ \A k \in 1..(from - 1) : \A y \in ToSet(queue) : ~WithinWindow(past[k], y)
    BY DEF PassOnTrack, GroupUnderWay
  <2>2. PICK i \in scanned :
          /\ CompanyOf(i) \notin groups
          /\ ToSet(past) \cup ToSet(queue) = {x \in scanned : CompanyOf(x) = CompanyOf(i)}
    BY DEF PassOnTrack, GroupUnderWay
  <2>3. InOrder(past)' /\ InOrder(queue)'
    BY <1>2, <1>3, <2>0, <2>1 DEF InOrder
  <2>4. \A x \in ToSet(past), y \in ToSet(queue) : Before(x, y)'
    BY <1>2, <2>0, <2>1
  <2>5. \A k \in 1..(from - 1) : \A y \in ToSet(queue) : ~WithinWindow(past[k], y)'
    <3>1. \A k \in 1..(from - 1) : k \in 1..Len(past)
      BY <2>0
    <3>2. \A k \in 1..(from - 1) : past'[k] = past[k] /\ past[k] \in scanned
      BY <1>3, <2>0, <3>1
    <3>3. \A x, y \in scanned : ~WithinWindow(x, y) => ~WithinWindow(x, y)'
      BY <1>2
    <3>4. ASSUME NEW k \in 1..(from - 1), NEW y \in ToSet(queue)
          PROVE  ~WithinWindow(past[k], y)'
      <4>1. PICK x \in scanned : x = past[k]
        BY <3>2
      <4>2. ~WithinWindow(x, y)' /\ x = past'[k]
        BY <2>0, <2>1, <3>2, <3>3, <3>4, <4>1
      <4> QED
        BY <4>2
    <3> QED
      BY <3>4
  <2>6. ToSet(past) \cup ToSet(queue) = {x \in scanned : CompanyOf(x)' = CompanyOf(i)'}
    BY <1>2, <2>2
  <2>7. CompanyOf(i)' \notin groups
    BY <1>2, <2>2
  <2>8. ToSet(past)' = ToSet(past) /\ ToSet(queue)' = ToSet(queue)
    BY <1>3
  <2>9. \E x \in scanned' :
          /\ CompanyOf(x)' \notin groups'
          /\ ToSet(past)' \cup ToSet(queue)' = {y \in scanned' : CompanyOf(y)' = CompanyOf(x)'}
    BY <1>3, <2>6, <2>7, <2>8
  <2> QED
    BY <1>3, <2>3, <2>4, <2>5, <2>8, <2>9 DEF GroupUnderWay
<1>9. ReportSoFar'
  <2>1. /\ report \subseteq Pairs /\ \A x \in report : x[1] \in Looked
        /\ \A x, y \in report : x[1] = y[1] => x = y
        /\ \A x \in Pairs : x[1] \in Looked => Told(x)
    BY DEF PassOnTrack, ReportSoFar
  <2>2. \A x \in Pairs : x[1] \in scanned /\ x[2] \in scanned
    BY DEF Pairs
  <2>3. ASSUME NEW x \in Pairs, Told(x)
        PROVE  Told(x)'
    <3>1. CASE \E y \in report : y[1] = x[1] /\ ~Before(x[2], y[2])
      <4>1. PICK y \in report : y[1] = x[1] /\ ~Before(x[2], y[2])
        BY <3>1
      <4>2. y[2] \in scanned /\ x[2] \in scanned
        BY <2>1, <2>2
      <4>3. ~Before(x[2], y[2])'
        BY <1>2, <4>1, <4>2
      <4> QED
        BY <1>3, <4>1, <4>3 DEF Told
    <3>2. CASE x[1] \in cut /\ Cardinality(InBetween(x[2], x[1])) >= MaxComparisons
      <4>1. InBetween(x[2], x[1])' = InBetween(x[2], x[1])
        BY <1>6, <2>2
      <4> QED
        BY <1>3, <3>2, <4>1 DEF Told
    <3> QED
      BY <2>3, <3>1, <3>2 DEF Told
  <2> QED
    BY <1>3, <1>5, <1>7, <2>1, <2>3 DEF ReportSoFar
<1> QED
  BY <1>1, <1>8, <1>9 DEF PassOnTrack

(* What else happens meanwhile does not touch the pass either.             *)
LEMMA StoreKeepsPass ==
  ASSUME PassOnTrack, Tomorrow \/ TakeBack \/ (\E p \in Postings : Store(p)) \/ UNCHANGED dedupVars
  PROVE  PassOnTrack'
<1>1. UNCHANGED <<scanned, groups, queue, past, from, report, cut>>
  BY DEF Tomorrow, TakeBack, Store, dedupVars
<1>2. today \in Nat /\ corpus \in Seq(StoredRow)
  BY DEF PassOnTrack, DedupTyped
<1>3. CASE UNCHANGED corpus
  <2>1. today' \in Nat
    <3>1. today' = today \/ today' = today + 1
      BY DEF Tomorrow, TakeBack, Store, dedupVars
    <3> QED
      BY <1>2, <3>1
  <2> QED
    BY <1>1, <1>2, <1>3, <2>1, StoringKeepsPass
<1>4. CASE \E p \in Postings : Store(p)
  <2>1. PICK p \in Postings, first \in {today, IF today = 0 THEN 0 ELSE today - 1} :
          corpus' = Append(corpus, [p |-> p, first |-> first]) /\ today' = today
    BY <1>4 DEF Store
  <2>2. [p |-> p, first |-> first] \in StoredRow
    BY <1>2, <2>1 DEF StoredRow
  <2>3. /\ corpus' \in Seq(StoredRow)
        /\ \A i \in DOMAIN corpus : i \in DOMAIN corpus' /\ corpus'[i] = corpus[i]
    BY <1>2, <2>1, <2>2
  <2> QED
    BY <1>1, <1>2, <2>1, <2>3, StoringKeepsPass
<1> QED
  BY <1>3, <1>4 DEF Tomorrow, TakeBack, dedupVars

(* A pass begins with nothing looked at.                                   *)
LEMMA ReadKeepsPass ==
  ASSUME PassOnTrack, Read
  PROVE  PassOnTrack'
<1> USE DEF Read
<1>1. \A i \in DOMAIN corpus : CompanyOf(i)' = CompanyOf(i)
  BY RowsStayAsTheyAre
<1>2. DedupTyped'
  <2>1. <<>> \in Seq(scanned')
    OBVIOUS
  <2> QED
    BY <2>1 DEF PassOnTrack, DedupTyped
<1>3. Looked' = {}
  <2>1. \A j \in scanned' : CompanyOf(j)' \in groups'
    BY <1>1
  <2> QED
    BY <2>1 DEF Looked
<1>4. GroupUnderWay'
  BY DEF GroupUnderWay
<1>5. ReportSoFar'
  BY <1>3 DEF ReportSoFar
<1> QED
  BY <1>2, <1>4, <1>5 DEF PassOnTrack

(* What does not change while the rows do not.                             *)
LEMMA PassReadsOnly ==
  ASSUME DedupTyped, UNCHANGED <<corpus, scanned>>
  PROVE  /\ \A i \in scanned : CompanyOf(i)' = CompanyOf(i)
         /\ \A i, j \in scanned : Before(i, j)' <=> Before(i, j)
         /\ \A i, j \in scanned : WithinWindow(i, j)' <=> WithinWindow(i, j)
         /\ \A i, j \in scanned : InBetween(i, j)' = InBetween(i, j)
         /\ Pairs' = Pairs
<1>1. /\ \A i \in scanned : CompanyOf(i)' = CompanyOf(i)
      /\ \A i, j \in scanned : Before(i, j)' <=> Before(i, j)
      /\ \A i, j \in scanned : WithinWindow(i, j)' <=> WithinWindow(i, j)
      /\ \A i, j \in scanned : LocationsAgree(i, j)' <=> LocationsAgree(i, j)
      /\ \A i, j \in scanned : Similar(i, j)' <=> Similar(i, j)
  BY RowsStayAsTheyAre DEF DedupTyped
<1>2. \A i, j \in scanned : Alike(i, j)' <=> Alike(i, j)
  BY <1>1 DEF Alike
<1>3. Pairs' = Pairs
  BY <1>2 DEF Pairs
<1>4. \A i, j \in scanned : InBetween(i, j)' = InBetween(i, j)
  BY <1>1 DEF InBetween
<1> QED
  BY <1>1, <1>3, <1>4

(* The rows of a company are laid out in their order.                      *)
LEMMA OldestFirstIs ==
  ASSUME DedupTyped, NEW S \in SUBSET scanned
  PROVE  OldestFirst(S) \in Seq(S) /\ ToSet(OldestFirst(S)) = S /\ InOrder(OldestFirst(S))
<1> DEFINE R == {p \in S \X S : Before(p[1], p[2])}
<1>1. IsFiniteSet(S)
  BY ScannedIsFinite, FS_Subset
<1>2. \E s \in SetToSeqs(S) : \A i, j \in DOMAIN s : i < j => <<s[i], s[j]>> \in R
  <2>1. \A x \in S : <<x, x>> \notin R
    BY BeforeIsAnOrder
  <2>2. \A x, y \in S : x # y => <<x, y>> \in R \/ <<y, x>> \in R
    BY BeforeIsAnOrder
  <2>3. \A x, y, z \in S : <<x, y>> \in R /\ <<y, z>> \in R => <<x, z>> \in R
    BY BeforeIsAnOrder
  <2> HIDE DEF R
  <2> QED
    BY <1>1, <2>1, <2>2, <2>3, SortedSequenceExists
<1>3. \E s \in SetToSeqs(S) : \A k, l \in DOMAIN s : k < l => Before(s[k], s[l])
  BY <1>2
<1> DEFINE s == OldestFirst(S)
<1>4. s \in SetToSeqs(S) /\ \A k, l \in DOMAIN s : k < l => Before(s[k], s[l])
  BY <1>3 DEF OldestFirst
<1> HIDE DEF s
<1>5. s \in [1..Cardinality(S) -> S] /\ Len(s) = Cardinality(S) /\ ToSet(s) = S
  BY <1>1, <1>4, SeqOfSet
<1>6. Cardinality(S) \in Nat
  BY <1>1, FS_CardinalityType
<1>7. s \in Seq(S) /\ DOMAIN s = 1..Len(s)
  BY <1>5, <1>6
<1> QED
  BY <1>4, <1>5, <1>7 DEF InOrder, s

(* The next company is taken whole.                                        *)
LEMMA TakeGroupKeepsPass ==
  ASSUME PassOnTrack, NEW company \in groups, TakeGroup(company)
  PROVE  PassOnTrack'
<1> DEFINE S == {i \in scanned : CompanyOf(i) = company}
<1>1. /\ queue = <<>> /\ groups' = groups \ {company} /\ queue' = OldestFirst(S)
      /\ past' = <<>> /\ from' = 1
      /\ UNCHANGED <<today, corpus, flagged, scanned, report, cut>>
  BY DEF TakeGroup
<1>2. DedupTyped
  BY DEF PassOnTrack
<1>3. queue' \in Seq(S) /\ ToSet(queue') = S /\ InOrder(queue')
  BY <1>1, <1>2, OldestFirstIs
<1>4. DedupTyped'
  <2>1. queue' \in Seq(scanned)
    BY <1>3
  <2> QED
    BY <1>1, <1>2, <2>1 DEF DedupTyped
<1>5. /\ \A i \in scanned : CompanyOf(i)' = CompanyOf(i)
      /\ \A i, j \in scanned : Before(i, j)' <=> Before(i, j)
      /\ \A i, j \in scanned : WithinWindow(i, j)' <=> WithinWindow(i, j)
      /\ \A i, j \in scanned : InBetween(i, j)' = InBetween(i, j)
      /\ Pairs' = Pairs
  BY <1>1, <1>2, PassReadsOnly
<1>6. Looked' = Looked
  <2>1. ToSet(queue) = {}
    BY <1>1 DEF ToSet
  <2> QED
    BY <1>1, <1>3, <1>5, <2>1 DEF Looked
<1>7. GroupUnderWay'
  <2> SUFFICES ASSUME queue' # <<>> PROVE GroupUnderWay'
    BY DEF GroupUnderWay
  <2>1. PICK i \in S : TRUE
    <3>1. Len(queue') \in Nat /\ Len(queue') > 0 /\ \A k \in 1..Len(queue') : queue'[k] \in S
      BY <1>3
    <3> QED
      BY <3>1
  <2>2. InOrder(queue)'
    <3>1. \A k \in 1..Len(queue') : queue'[k] \in scanned
      BY <1>3
    <3>2. \A k, l \in 1..Len(queue') : k < l => Before(queue'[k], queue'[l])
      BY <1>3 DEF InOrder
    <3>3. \A x, y \in scanned : Before(x, y) => Before(x, y)'
      BY <1>5
    <3>4. \A k, l \in 1..Len(queue') : k < l => Before(queue[k], queue[l])'
      <4>1. ASSUME NEW k \in 1..Len(queue'), NEW l \in 1..Len(queue'), k < l
            PROVE  Before(queue[k], queue[l])'
        <5>1. PICK x \in scanned : x = queue'[k]
          BY <3>1
        <5>2. PICK y \in scanned : y = queue'[l]
          BY <3>1
        <5>3. Before(x, y)'
          BY <3>2, <3>3, <4>1, <5>1, <5>2
        <5> QED
          BY <5>1, <5>2, <5>3
      <4> QED
        BY <4>1
    <3> QED
      BY <3>4 DEF InOrder
  <2>3. /\ ToSet(past)' = {} /\ ToSet(queue)' = S /\ InOrder(past)'
        /\ \A k \in 1..(from' - 1) : FALSE
    BY <1>1, <1>3, SMTT(30) DEF ToSet, InOrder
  <2>4. CompanyOf(i)' \notin groups'
    BY <1>1, <1>5
  <2>5. S = {x \in scanned' : CompanyOf(x)' = CompanyOf(i)'}
    BY <1>1, <1>5
  <2>6. \E x \in scanned' :
          /\ CompanyOf(x)' \notin groups'
          /\ ToSet(past)' \cup ToSet(queue)' = {y \in scanned' : CompanyOf(y)' = CompanyOf(x)'}
    BY <1>1, <2>3, <2>4, <2>5
  <2> HIDE DEF S
  <2> QED
    BY <2>2, <2>3, <2>6 DEF GroupUnderWay
<1>8. ReportSoFar'
  <2>1. /\ report \subseteq Pairs /\ \A x \in report : x[1] \in Looked
        /\ \A x, y \in report : x[1] = y[1] => x = y
        /\ \A x \in Pairs : x[1] \in Looked => Told(x)
    BY DEF PassOnTrack, ReportSoFar
  <2>2. \A x \in Pairs : x[1] \in scanned /\ x[2] \in scanned
    BY DEF Pairs
  <2>3. \A x \in Pairs : Told(x) => Told(x)'
    BY <1>1, <1>5, <2>1, <2>2 DEF Told
  <2> QED
    BY <1>1, <1>5, <1>6, <2>1, <2>3 DEF ReportSoFar
<1> QED
  BY <1>4, <1>7, <1>8 DEF PassOnTrack

(* The first of the window, the first that may be compared.                *)
LEMMA WindowOf ==
  ASSUME DedupTyped, NEW j \in scanned
  PROVE  \E start \in from..(Len(past) + 1), low \in 1..(Len(past) + 1) :
           /\ start = FirstInWindow(j)
           /\ start <= Len(past) => WithinWindow(past[start], j)
           /\ \A k \in from..(start - 1) : ~WithinWindow(past[k], j)
           /\ start <= low
           /\ start < low => low = Len(past) - MaxComparisons + 1
           /\ Len(Compared(start)) = Len(past) + 1 - low
           /\ DOMAIN Compared(start) = 1..(Len(past) + 1 - low)
           /\ \A k \in 1..(Len(past) + 1 - low) :
                /\ low + k - 1 \in 1..Len(past) /\ Compared(start)[k] = past[low + k - 1]
<1> DEFINE n == Len(past)
           F == {k \in from..(n + 1) : k = n + 1 \/ WithinWindow(past[k], j)}
<1>1. n \in Nat /\ from \in 1..(n + 1) /\ past \in Seq(scanned) /\ MaxComparisons \in Nat \ {0}
  BY DedupAssumption DEF DedupTyped
<1>2. F \in SUBSET Nat /\ n + 1 \in F
  BY <1>1
<1>3. PICK start \in F : start = Min(F) /\ \A k \in F : start <= k
  <2> HIDE DEF F
  <2> QED
    BY <1>2, LeastOfNaturals
<1>4. start = FirstInWindow(j)
  BY <1>3 DEF FirstInWindow
<1>5. /\ start \in from..(n + 1)
      /\ start <= n => WithinWindow(past[start], j)
  BY <1>1, <1>3
<1>6. \A k \in from..(start - 1) : ~WithinWindow(past[k], j)
  <2>1. \A k \in from..(start - 1) : k \in from..(n + 1) /\ ~(start <= k)
    BY <1>1, <1>5
  <2> QED
    BY <1>3, <2>1
<1> HIDE DEF F
<1> DEFINE other == IF n < MaxComparisons THEN 1 ELSE n - MaxComparisons + 1
<1>7. other \in 1..(n + 1) /\ (start < other => other = n - MaxComparisons + 1)
  BY <1>1, <1>5
<1> HIDE DEF other
<1>8. PICK low \in {start, other} : low >= start /\ low >= other /\ low = Max({start, other})
  <2>1. start \in Nat /\ other \in Nat
    BY <1>1, <1>5, <1>7
  <2>2. \E x \in {start, other} : \A y \in {start, other} : x >= y
    BY <2>1
  <2>3. Max({start, other}) \in {start, other} /\ \A y \in {start, other} : Max({start, other}) >= y
    BY <2>2 DEF Max
  <2> QED
    BY <2>3
<1>9. low \in 1..(n + 1) /\ (start < low => low = n - MaxComparisons + 1)
  BY <1>1, <1>5, <1>7, <1>8
<1>10. Compared(start) = SubSeq(past, low, n)
  BY <1>8 DEF Compared, other
<1>11. /\ Len(SubSeq(past, low, n)) = n + 1 - low
       /\ DOMAIN SubSeq(past, low, n) = 1..(n + 1 - low)
       /\ \A k \in 1..(n + 1 - low) :
            low + k - 1 \in 1..n /\ SubSeq(past, low, n)[k] = past[low + k - 1]
  BY <1>1, <1>9
<1>12. start \in from..(Len(past) + 1) /\ low \in 1..(Len(past) + 1) /\ start <= low
  BY <1>5, <1>8, <1>9
<1>13. start < low => low = Len(past) - MaxComparisons + 1
  BY <1>9
<1>14. /\ Len(Compared(start)) = Len(past) + 1 - low
       /\ DOMAIN Compared(start) = 1..(Len(past) + 1 - low)
       /\ \A k \in 1..(Len(past) + 1 - low) :
            /\ low + k - 1 \in 1..Len(past) /\ Compared(start)[k] = past[low + k - 1]
  BY <1>10, <1>11
<1>15. /\ start <= Len(past) => WithinWindow(past[start], j)
       /\ \A k \in from..(start - 1) : ~WithinWindow(past[k], j)
  BY <1>5, <1>6
<1> HIDE DEF n
<1> QED
  BY <1>4, <1>12, <1>13, <1>14, <1>15

(* One posting is compared with those before it.                           *)
LEMMA CompareKeepsPass ==
  ASSUME PassOnTrack, Compare
  PROVE  PassOnTrack'
<1> DEFINE n == Len(past)
<1>1. /\ DedupTyped /\ queue # <<>> /\ queue \in Seq(scanned) /\ past \in Seq(scanned) /\ n \in Nat
      /\ from \in 1..(n + 1) /\ IsFiniteSet(scanned) /\ MaxComparisons \in Nat \ {0}
  BY ScannedIsFinite, DedupAssumption DEF Compare, PassOnTrack, DedupTyped
<1>2. /\ InOrder(past) /\ InOrder(queue) /\ \A x \in ToSet(past), y \in ToSet(queue) : Before(x, y)
      /\ \A k \in 1..(from - 1) : \A y \in ToSet(queue) : ~WithinWindow(past[k], y)
  BY <1>1 DEF PassOnTrack, GroupUnderWay
<1>3. PICK g \in scanned :
        /\ CompanyOf(g) \notin groups
        /\ ToSet(past) \cup ToSet(queue) = {x \in scanned : CompanyOf(x) = CompanyOf(g)}
  BY <1>1 DEF PassOnTrack, GroupUnderWay
<1>4. PICK j \in scanned :
        /\ j = Head(queue) /\ j \in ToSet(queue) /\ ToSet(queue) = {j} \cup ToSet(Tail(queue))
        /\ Tail(queue) \in Seq(scanned) /\ InOrder(Tail(queue))
        /\ \A y \in ToSet(Tail(queue)) : Before(j, y)
        /\ j \notin ToSet(Tail(queue))
  <2>1. /\ Head(queue) = queue[1] /\ 1 \in 1..Len(queue) /\ Len(queue) \in Nat
        /\ Tail(queue) \in Seq(scanned) /\ Len(Tail(queue)) = Len(queue) - 1
        /\ \A k \in 1..Len(Tail(queue)) : Tail(queue)[k] = queue[k + 1] /\ k + 1 \in 1..Len(queue)
        /\ \A k \in 1..Len(queue) : k # 1 => k - 1 \in 1..Len(Tail(queue)) /\ Tail(queue)[k - 1] = queue[k]
    BY <1>1
  <2>2. PICK j \in scanned : j = queue[1]
    BY <1>1, <2>1
  <2>3. ToSet(queue) = {j} \cup ToSet(Tail(queue))
    <3>1. /\ DOMAIN queue = 1..Len(queue) /\ DOMAIN Tail(queue) = 1..Len(Tail(queue))
      BY <1>1, <2>1
    <3>2. ToSet(queue) = {queue[k] : k \in 1..Len(queue)}
      BY <3>1 DEF ToSet
    <3>3. ToSet(Tail(queue)) = {Tail(queue)[k] : k \in 1..Len(Tail(queue))}
      BY <3>1 DEF ToSet
    <3>4. ASSUME NEW x \in ToSet(queue) PROVE x \in {j} \cup ToSet(Tail(queue))
      BY <2>1, <2>2, <3>2, <3>3, SMTT(30)
    <3>5. ASSUME NEW x \in {j} \cup ToSet(Tail(queue)) PROVE x \in ToSet(queue)
      BY <2>1, <2>2, <3>2, <3>3
    <3> QED
      BY <3>4, <3>5
  <2>4. InOrder(Tail(queue))
    <3>1. \A k, l \in 1..Len(Tail(queue)) : k < l =>
            k + 1 \in 1..Len(queue) /\ l + 1 \in 1..Len(queue) /\ k + 1 < l + 1
      BY <2>1
    <3> QED
      BY <1>2, <2>1, <3>1 DEF InOrder
  <2>5. \A y \in ToSet(Tail(queue)) : Before(j, y)
    <3> TAKE y \in ToSet(Tail(queue))
    <3>1. PICK k \in 1..Len(Tail(queue)) : y = Tail(queue)[k]
      BY <2>1 DEF ToSet
    <3>2. k + 1 \in 1..Len(queue) /\ y = queue[k + 1] /\ 1 < k + 1
      BY <2>1, <3>1
    <3> QED
      BY <1>2, <2>1, <2>2, <3>2 DEF InOrder
  <2>6. j \notin ToSet(Tail(queue))
    BY <1>1, <2>5, BeforeIsAnOrder
  <2> QED
    BY <2>1, <2>2, <2>3, <2>4, <2>5, <2>6
<1>5. PICK start \in from..(n + 1), low \in 1..(n + 1) :
           /\ start = FirstInWindow(j)
           /\ start <= n => WithinWindow(past[start], j)
           /\ \A k \in from..(start - 1) : ~WithinWindow(past[k], j)
           /\ start <= low
           /\ start < low => low = n - MaxComparisons + 1
           /\ Len(Compared(start)) = n + 1 - low
           /\ DOMAIN Compared(start) = 1..(n + 1 - low)
           /\ \A k \in 1..(n + 1 - low) :
                /\ low + k - 1 \in 1..n /\ Compared(start)[k] = past[low + k - 1]
  BY <1>1, WindowOf
<1> DEFINE earlier == Compared(start)
           alike == {k \in DOMAIN earlier : LocationsAgree(earlier[k], j) /\ Similar(earlier[k], j)}
<1>6. /\ from' = start
      /\ report' = (IF alike = {} THEN report ELSE report \cup {<<j, earlier[Min(alike)]>>})
      /\ cut' = (IF n + 1 - start > MaxComparisons THEN cut \cup {j} ELSE cut)
      /\ past' = Append(past, j) /\ queue' = Tail(queue)
      /\ UNCHANGED <<today, corpus, flagged, scanned, groups>>
  BY <1>4, <1>5 DEF Compare
<1>7. /\ \A i \in scanned : CompanyOf(i)' = CompanyOf(i)
      /\ \A i, k \in scanned : Before(i, k)' <=> Before(i, k)
      /\ \A i, k \in scanned : WithinWindow(i, k)' <=> WithinWindow(i, k)
      /\ \A i, k \in scanned : InBetween(i, k)' = InBetween(i, k)
      /\ Pairs' = Pairs
  BY <1>1, <1>6, PassReadsOnly
<1>8. /\ past' \in Seq(scanned) /\ Len(past') = n + 1 /\ past'[n + 1] = j
      /\ \A k \in 1..n : past'[k] = past[k] /\ past[k] \in scanned /\ past[k] \in ToSet(past)
      /\ \A x \in ToSet(past) : \E k \in 1..n : x = past[k]
  BY <1>1, <1>6 DEF ToSet
<1>9. ToSet(past') = ToSet(past) \cup {j}
  <2>1. ToSet(past') = {past'[k] : k \in 1..(n + 1)}
    <3>1. DOMAIN past' = 1..(n + 1)
      BY <1>8
    <3> QED
      BY <3>1 DEF ToSet
  <2>2. ASSUME NEW x \in ToSet(past') PROVE x \in ToSet(past) \cup {j}
    <3>1. PICK k \in 1..(n + 1) : x = past'[k]
      BY <2>1
    <3>2. k \in 1..n \/ k = n + 1
      BY <1>1
    <3> QED
      BY <1>8, <3>1, <3>2
  <2>3. ASSUME NEW x \in ToSet(past) \cup {j} PROVE x \in ToSet(past')
    <3>1. 1..n \subseteq 1..(n + 1) /\ n + 1 \in 1..(n + 1)
      BY <1>1
    <3> QED
      BY <1>8, <2>1, <3>1
  <2> QED
    BY <2>2, <2>3
<1>10. DedupTyped'
  <2>1. start \in 1..(Len(past') + 1)
    BY <1>1, <1>5, <1>8
  <2> QED
    BY <1>1, <1>4, <1>6, <1>8, <2>1 DEF DedupTyped
(* Those before the window lie before that of every later posting.         *)
<1>11. \A k \in 1..(start - 1) : ~WithinWindow(past[k], j)
  <2> TAKE k \in 1..(start - 1)
  <2>1. k \in 1..(from - 1) \/ k \in from..(start - 1)
    BY <1>1, <1>5
  <2> QED
    BY <1>2, <1>4, <1>5, <2>1
<1>12. GroupUnderWay'
  <2>1. /\ ToSet(past) \subseteq scanned /\ ToSet(queue) \subseteq scanned
        /\ ToSet(queue') = ToSet(Tail(queue)) /\ \A k \in 1..Len(queue') : queue'[k] \in scanned
    BY <1>3, <1>4, <1>6
  <2>2. \A x \in ToSet(past) : Before(x, j)
    BY <1>2, <1>4
  <2>3. ASSUME NEW k \in 1..(n + 1), NEW l \in 1..(n + 1), k < l
        PROVE  Before(past[k], past[l])'
    <3>1. k \in 1..n /\ (l \in 1..n \/ l = n + 1)
      BY <1>1, <2>3
    <3>2. PICK x \in scanned : x = past'[k] /\ x = past[k] /\ x \in ToSet(past)
      BY <1>8, <3>1
    <3>3. PICK y \in scanned : y = past'[l] /\ Before(x, y)
      <4>1. CASE l \in 1..n
        <5>1. Before(past[k], past[l])
          BY <1>2, <2>3, <3>1, <4>1 DEF InOrder
        <5> QED
          BY <1>8, <3>2, <4>1, <5>1
      <4>2. CASE l = n + 1
        BY <1>8, <2>2, <3>2, <4>2
      <4> QED
        BY <3>1, <4>1, <4>2
    <3>4. Before(x, y)'
      BY <1>7, <3>3
    <3> QED
      BY <3>2, <3>3, <3>4
  <2>4. InOrder(past)'
    BY <1>8, <2>3 DEF InOrder
  <2>5. InOrder(queue)'
    <3>1. ASSUME NEW k \in 1..Len(queue'), NEW l \in 1..Len(queue'), k < l
          PROVE  Before(queue[k], queue[l])'
      <4>1. PICK x \in scanned : x = queue'[k]
        BY <2>1
      <4>2. PICK y \in scanned : y = queue'[l]
        BY <2>1
      <4>3. Before(x, y)
        BY <1>4, <1>6, <3>1, <4>1, <4>2 DEF InOrder
      <4>4. Before(x, y)'
        BY <1>7, <4>3
      <4> QED
        BY <4>1, <4>2, <4>4
    <3> QED
      BY <3>1 DEF InOrder
  <2>6. \A x \in ToSet(past'), y \in ToSet(queue') : x \in scanned /\ y \in scanned /\ Before(x, y)
    BY <1>2, <1>4, <1>9, <2>1
  <2>7. \A x \in ToSet(past'), y \in ToSet(queue') : Before(x, y)'
    BY <1>7, <2>6
  <2>8. ToSet(past') \cup ToSet(queue') = {x \in scanned' : CompanyOf(x)' = CompanyOf(g)'}
    BY <1>3, <1>4, <1>6, <1>7, <1>9, <2>1
  <2>9. \E i \in scanned' :
          /\ CompanyOf(i)' \notin groups'
          /\ ToSet(past)' \cup ToSet(queue)' = {y \in scanned' : CompanyOf(y)' = CompanyOf(i)'}
    BY <1>3, <1>6, <1>7, <2>8
  <2>10. ASSUME NEW k \in 1..(start - 1), NEW y \in ToSet(queue')
         PROVE  ~WithinWindow(past[k], y)'
    <3>1. k \in 1..n
      BY <1>1, <1>5
    <3>2. PICK x \in scanned : x = past[k] /\ x = past'[k] /\ x \in ToSet(past)
      BY <1>8, <3>1
    <3>3. Before(x, j) /\ Before(j, y) /\ y \in scanned
      BY <1>4, <2>1, <2>2, <3>2
    <3>4. ~WithinWindow(x, j)
      BY <1>11, <3>2
    <3>5. ~WithinWindow(x, y)
      BY <1>1, <3>3, <3>4, WindowMovesOn
    <3>6. ~WithinWindow(x, y)'
      BY <1>7, <3>3, <3>5
    <3> QED
      BY <3>2, <3>6
  <2>11. \A k \in 1..(from' - 1) : \A y \in ToSet(queue)' : ~WithinWindow(past[k], y)'
    BY <1>6, <2>10
  <2>12. \A x \in ToSet(past)', y \in ToSet(queue)' : Before(x, y)'
    BY <2>7
  <2> QED
    BY <2>4, <2>5, <2>9, <2>11, <2>12 DEF GroupUnderWay
<1>13. Looked' = Looked \cup {j} /\ j \notin Looked
  <2>1. CompanyOf(j) \notin groups
    BY <1>3, <1>4
  <2> QED
    BY <1>4, <1>6, <1>7, <2>1 DEF Looked
(* The posting that is reported is the oldest there is to report.          *)
<1>14. ASSUME alike # {}
       PROVE  \E m \in 1..n : /\ past[m] = earlier[Min(alike)] /\ <<j, past[m]>> \in Pairs
                              /\ \A k \in low..n : LocationsAgree(past[k], j) /\ Similar(past[k], j) => m <= k
  <2>1. alike \in SUBSET Nat /\ \A k \in alike : k \in 1..(n + 1 - low)
    BY <1>5
  <2>2. PICK a \in alike : a = Min(alike) /\ \A k \in alike : a <= k
    <3> HIDE DEF alike
    <3> QED
      BY <1>14, <2>1, LeastOfNaturals
  <2>3. PICK m \in 1..n : m = low + a - 1 /\ earlier[a] = past[m]
    BY <1>5, <2>1
  <2>4. LocationsAgree(past[m], j) /\ Similar(past[m], j)
    BY <2>2, <2>3
  <2>5. \A k \in low..n : LocationsAgree(past[k], j) /\ Similar(past[k], j) => m <= k
    <3> SUFFICES ASSUME NEW k \in low..n, LocationsAgree(past[k], j), Similar(past[k], j)
                 PROVE  m <= k
      OBVIOUS
    <3>1. PICK b \in 1..(n + 1 - low) : k = low + b - 1
      <4>1. k - low + 1 \in 1..(n + 1 - low) /\ k = low + (k - low + 1) - 1
        BY <1>1, <1>5
      <4> QED
        BY <4>1
    <3>2. b \in alike
      BY <1>5, <3>1
    <3>3. a <= b
      BY <2>2, <3>2
    <3> QED
      BY <1>1, <1>5, <2>1, <2>3, <3>1, <3>3
  <2>6. past[m] \in scanned /\ Before(past[m], j) /\ CompanyOf(past[m]) = CompanyOf(j)
    BY <1>2, <1>3, <1>4, <1>8
  <2>7. WithinWindow(past[m], j)
    <3>1. start <= m
      BY <1>1, <1>5, <2>1, <2>3
    <3>2. start \in 1..n /\ WithinWindow(past[start], j)
      BY <1>1, <1>5, <3>1
    <3>3. CASE start = m
      BY <3>2, <3>3
    <3>4. CASE start < m
      <4>1. Before(past[start], past[m]) /\ past[start] \in scanned
        BY <1>2, <1>8, <3>2, <3>4 DEF InOrder
      <4> QED
        BY <1>1, <2>6, <3>2, <4>1, WindowMovesOn
    <3> QED
      BY <1>1, <3>1, <3>2, <3>3, <3>4
  <2>8. <<j, past[m]>> \in Pairs
    BY <2>4, <2>6, <2>7 DEF Pairs, Alike
  <2> QED
    BY <2>2, <2>3, <2>5, <2>8
<1> HIDE DEF alike, earlier
(* What was told stays told.                                               *)
<1>15. report \subseteq report' /\ cut \subseteq cut'
  BY <1>6
<1>16. ASSUME NEW x \in Pairs, Told(x) PROVE Told(x)'
  <2>1. x[1] \in scanned /\ x[2] \in scanned
    BY DEF Pairs
  <2>2. \A y \in report : y[2] \in scanned
    BY DEF PassOnTrack, ReportSoFar, Pairs
  <2>3. InBetween(x[2], x[1])' = InBetween(x[2], x[1])
    BY <1>7, <2>1
  <2>4. \A y \in report : ~Before(x[2], y[2]) => ~Before(x[2], y[2])'
    BY <1>7, <2>1, <2>2
  <2>5. CASE \E y \in report : y[1] = x[1] /\ ~Before(x[2], y[2])
    BY <1>15, <2>4, <2>5 DEF Told
  <2>6. CASE x[1] \in cut /\ Cardinality(InBetween(x[2], x[1])) >= MaxComparisons
    BY <1>15, <2>3, <2>6 DEF Told
  <2> QED
    BY <1>16, <2>5, <2>6 DEF Told
<1>17. ASSUME NEW x \in Pairs, x[1] = j PROVE Told(x)'
  <2>1. PICK i \in scanned : i = x[2] /\ Alike(j, i)
    BY <1>17 DEF Pairs
  <2>2. PICK k \in 1..n : i = past[k]
    <3>1. i \in ToSet(past) \cup ToSet(queue) /\ Before(i, j)
      BY <1>3, <1>4, <2>1 DEF Alike
    <3>2. i \notin ToSet(queue)
      BY <1>1, <1>4, <3>1, BeforeIsAnOrder
    <3> QED
      BY <1>8, <3>1, <3>2
  <2>3. WithinWindow(i, j) /\ LocationsAgree(i, j) /\ Similar(i, j)
    BY <2>1 DEF Alike
  <2>4. start <= k
    <3>1. ~(k \in 1..(start - 1))
      BY <1>11, <2>2, <2>3
    <3> QED
      BY <1>1, <1>5, <3>1
  <2>5. CASE low <= k
    <3>1. k \in low..n
      BY <1>5, <2>5
    <3>2. alike # {}
      <4>1. PICK b \in 1..(n + 1 - low) : k = low + b - 1
        <5>1. k - low + 1 \in 1..(n + 1 - low) /\ k = low + (k - low + 1) - 1
          BY <1>1, <1>5, <3>1
        <5> QED
          BY <5>1
      <4>2. b \in DOMAIN earlier /\ earlier[b] = i
        BY <1>5, <2>2, <4>1 DEF earlier
      <4> QED
        BY <2>3, <4>2 DEF alike
    <3>3. PICK m \in 1..n : past[m] = earlier[Min(alike)] /\ m <= k
      BY <1>14, <2>2, <2>3, <3>1, <3>2
    <3>4. <<j, past[m]>> \in report' /\ past[m] \in scanned
      BY <1>6, <1>8, <3>2, <3>3
    <3>5. ~Before(i, past[m])
      <4>1. CASE m = k
        BY <1>1, <2>2, <4>1, BeforeIsAnOrder
      <4>2. CASE m < k
        <5>1. Before(past[m], i)
          BY <1>2, <2>2, <4>2 DEF InOrder
        <5> QED
          BY <1>1, <3>4, <5>1, BeforeIsAnOrder
      <4> QED
        BY <3>3, <4>1, <4>2
    <3>6. PICK z \in scanned : z = past[m]
      BY <3>4
    <3>7. ~Before(x[2], z)' /\ <<j, z>> \in report'
      BY <1>7, <2>1, <3>4, <3>5, <3>6
    <3>8. \E y \in report' : y[1] = x[1] /\ ~Before(x[2], y[2])'
      <4> DEFINE y == <<j, z>>
      <4>1. y \in report' /\ y[1] = x[1] /\ y[2] = z
        BY <1>17, <3>7
      <4>2. ~Before(x[2], y[2])'
        BY <3>7
      <4> QED
        BY <4>1, <4>2
    <3> QED
      BY <3>8 DEF Told
  <2>6. CASE k < low
    <3>1. low = n - MaxComparisons + 1 /\ k <= n - MaxComparisons
      BY <1>1, <1>5, <2>4, <2>6
    <3>2. n + 1 - start > MaxComparisons /\ j \in cut'
      <4>1. n + 1 - start > MaxComparisons
        BY <1>1, <1>5, <2>4, <3>1, SMTT(30)
      <4> QED
        BY <1>6, <4>1
    <3> DEFINE P == [l \in (k + 1)..n |-> past[l]]
    <3>3. P \in Injection((k + 1)..n, InBetween(i, j))
      <4>1. ASSUME NEW l \in (k + 1)..n PROVE past[l] \in InBetween(i, j)
        <5>1. l \in 1..n /\ k < l
          BY <1>1
        <5>2. past[l] \in scanned /\ Before(i, past[l]) /\ Before(past[l], j)
              /\ CompanyOf(past[l]) = CompanyOf(j)
          BY <1>2, <1>3, <1>4, <1>8, <2>2, <5>1 DEF InOrder
        <5> QED
          BY <5>2 DEF InBetween
      <4>2. ASSUME NEW l \in (k + 1)..n, NEW o \in (k + 1)..n, past[l] = past[o]
            PROVE  l = o
        <5>1. l \in 1..n /\ o \in 1..n /\ past[l] \in scanned
          BY <1>1, <1>8
        <5>2. ~(l < o) /\ ~(o < l)
          BY <1>1, <1>2, <4>2, <5>1, BeforeIsAnOrder DEF InOrder
        <5> QED
          BY <5>1, <5>2
      <4> QED
        BY <4>1, <4>2 DEF Injection, IsInjective
    <3>4. IsFiniteSet(InBetween(i, j))
      <4>1. InBetween(i, j) \subseteq scanned
        BY DEF InBetween
      <4> QED
        BY <1>1, <4>1, FS_Subset
    <3>5. Cardinality((k + 1)..n) = n - k
      <4>1. Cardinality((k + 1)..n) = IF k + 1 > n THEN 0 ELSE n - (k + 1) + 1
        BY <1>1, FS_Interval, k + 1 \in Int, n \in Int
      <4> QED
        BY <1>1, <4>1
    <3>6. Cardinality((k + 1)..n) <= Cardinality(InBetween(i, j))
      BY <3>3, <3>4, FS_Injection
    <3>7. Cardinality(InBetween(i, j)) \in Nat
      BY <3>4, FS_CardinalityType
    <3>8. Cardinality(InBetween(i, j)) >= MaxComparisons
      BY <1>1, <3>1, <3>5, <3>6, <3>7
    <3>9. InBetween(x[2], x[1])' = InBetween(i, j)
      BY <1>7, <1>17, <2>1
    <3> QED
      BY <1>17, <3>2, <3>8, <3>9 DEF Told
  <2> QED
    BY <1>1, <1>5, <2>5, <2>6
<1>18. ReportSoFar'
  <2>1. /\ report \subseteq Pairs /\ \A x \in report : x[1] \in Looked
        /\ \A x, y \in report : x[1] = y[1] => x = y
        /\ \A x \in Pairs : x[1] \in Looked => Told(x)
    BY DEF PassOnTrack, ReportSoFar
  <2>2. \/ report' = report
        \/ \E z \in Pairs : z[1] = j /\ report' = report \cup {z}
    <3>1. CASE alike = {}
      BY <1>6, <3>1
    <3>2. CASE alike # {}
      <4>1. PICK m \in 1..n : past[m] = earlier[Min(alike)] /\ <<j, past[m]>> \in Pairs
        BY <1>14, <3>2
      <4> QED
        BY <1>6, <3>2, <4>1
    <3> QED
      BY <3>1, <3>2
  <2>3. PICK z : report' = report \/ (z \in Pairs /\ z[1] = j /\ report' = report \cup {z})
    BY <2>2
  <2>4. report' \subseteq Pairs' /\ \A x \in report' : x[1] \in Looked'
    BY <1>7, <1>13, <2>1, <2>3
  <2>5. \A x, y \in report' : x[1] = y[1] => x = y
    BY <1>13, <2>1, <2>3
  <2>6. \A x \in Pairs' : x[1] \in Looked' => Told(x)'
    BY <1>7, <1>13, <1>16, <1>17, <2>1
  <2> QED
    BY <2>4, <2>5, <2>6 DEF ReportSoFar
<1> QED
  BY <1>10, <1>12, <1>18 DEF PassOnTrack

(* The invariant of a pass.                                                *)
LEMMA PassOnTrackAlways == DedupSpec => []PassOnTrack
<1>1. PassOnTrack /\ [DedupNext]_dedupVars => PassOnTrack'
  BY StoreKeepsPass, ReadKeepsPass, TakeGroupKeepsPass, CompareKeepsPass DEF DedupNext
<1> QED
  BY <1>1, PassStarts, PTL DEF DedupSpec

(* A pass reports the pairs a human would have to judge and no other, one  *)
(* for each candidate and with the oldest posting it repeats, and misses   *)
(* one only for the bound on comparisons, which it then tells of: whatever *)
(* was stored, in whatever order, before and while it runs.                *)
THEOREM PassIsComplete == DedupSpec => []ShadowIsComplete
<1>1. ASSUME PassOnTrack PROVE ShadowIsComplete
  <2> SUFFICES ASSUME ~Running PROVE ShadowIsComplete
    BY DEF ShadowIsComplete
  <2>1. DedupTyped /\ ReportSoFar
    BY <1>1 DEF PassOnTrack
  <2>2. Looked = scanned
    BY DEF Running, Looked, ToSet
  <2>3. \A x \in Pairs : x[1] \in scanned /\ x[2] \in scanned /\ Similar(x[2], x[1])
    BY DEF Pairs, Alike
  <2>4. report \subseteq Pairs /\ \A x, y \in report : x[1] = y[1] => x = y
    BY <2>1 DEF ReportSoFar
  <2>5. \A x \in report : Size(corpus[x[1]].p.title) > 0 /\ Size(corpus[x[2]].p.title) > 0
    <3>1. scanned \subseteq DOMAIN corpus
      BY <2>1 DEF DedupTyped
    <3> QED
      BY <2>1, <2>3, <2>4, <3>1, SimilarSaysSomething
  <2>6. \A x \in Pairs : Told(x)
    BY <2>1, <2>2, <2>3 DEF ReportSoFar
  <2>7. \A x \in Pairs : (\A y \in report : y[1] # x[1] \/ Before(x[2], y[2]))
                           => x[1] \in cut /\ Cardinality(InBetween(x[2], x[1])) >= MaxComparisons
    BY <2>6 DEF Told
  <2> QED
    BY <2>4, <2>5, <2>7 DEF ShadowIsComplete
<1> QED
  BY <1>1, PassOnTrackAlways, PTL

-----------------------------------------------------------------------------
(* The watch (Watchdog).                                                   *)

(* The watch: days, hours and the windows in whose span an instant lies.   *)

WatchTyped ==
  /\ clock \in Nat /\ clock >= 24 /\ written \in {0, 24}
  /\ checks \subseteq 24..clock /\ digests \subseteq 24..clock
  /\ collectedAt \in {Unset} \cup 24..clock
  /\ seen \in [Sources -> {Unset} \cup 24..clock]

(* An instant is an hour of a day.                                         *)
LEMMA DayAndHour ==
  ASSUME NEW t \in Nat
  PROVE  Day(t) \in Nat /\ Hour(t) \in 0..23 /\ t = 24 * Day(t) + Hour(t)
BY DEF Day, Hour

(* An hour of a day is one instant.                                        *)
LEMMA DayIsUnique ==
  ASSUME NEW d \in Nat, NEW h \in 0..23
  PROVE  Day(24 * d + h) = d /\ Hour(24 * d + h) = h
BY DEF Day, Hour

(* The digests of a day have hours, and there is one.                      *)
LEMMA WindowsAreHours == Windows \subseteq 0..23 /\ Windows # {}
BY WatchAssumption

(* The hours in which the window w is the last one that has passed.        *)
Span(w) == {t \in w..(Midnight(w) + 23) : LastPassed(w, t)}

(* The hours of a window are those of its day that no later one begins in. *)
LEMMA SpanOfWindow ==
  ASSUME NEW d \in Nat, NEW h \in Windows, NEW t \in Nat
  PROVE  t \in Span(24 * d + h)
           <=> Day(t) = d /\ Hour(t) >= h /\ \A v \in Windows : ~(h < v /\ v <= Hour(t))
<1>1. h \in 0..23 /\ Windows \subseteq 0..23
  BY WindowsAreHours
<1>2. Midnight(24 * d + h) = 24 * d
  BY <1>1, DayIsUnique DEF Midnight
<1>3. Day(t) \in Nat /\ Hour(t) \in 0..23 /\ t = 24 * Day(t) + Hour(t)
  BY DayAndHour
<1>4. t \in (24 * d + h)..(24 * d + 23) <=> Day(t) = d /\ Hour(t) >= h
  BY <1>1, <1>3
<1>5. \A v \in Windows : Day(t) = d =>
        ((24 * d + h < 24 * d + v /\ 24 * d + v <= t) <=> (h < v /\ v <= Hour(t)))
  BY <1>1, <1>3
<1>6. t \in Span(24 * d + h)
        <=> /\ t \in (24 * d + h)..(24 * d + 23)
            /\ \A v \in Windows : ~(24 * d + h < 24 * d + v /\ 24 * d + v <= t)
  BY <1>2 DEF Span, LastPassed
<1> QED
  BY <1>4, <1>5, <1>6

(* The last digest is one of them, and the latest.                         *)
LEMMA LastDigest ==
  ASSUME WatchTyped, digests # {}
  PROVE  Max(digests) \in digests /\ \A x \in digests : Max(digests) >= x
<1>1. digests \subseteq Nat /\ \A x \in digests : x <= clock
  BY DEF WatchTyped
<1> QED
  BY <1>1, GreatestOfBounded DEF WatchTyped

(* The window a cycle asks about: the one in whose span it is, or in the   *)
(* hour after midnight, if wallClock writes 24 for it, the day's last.     *)
LEMMA WindowAskedAbout ==
  ASSUME WatchTyped, NEW d \in Nat, NEW h \in Windows, clock \in Span(24 * d + h)
  PROVE  /\ Day(clock) = d /\ PassedToday # {}
         /\ \/ written = 24 /\ Hour(clock) = 0 /\ h = 0 /\ PassedToday = Windows
            \/ ~(written = 24 /\ Hour(clock) = 0) /\ Max(PassedToday) = h
<1>1. clock \in Nat /\ h \in 0..23 /\ Windows \subseteq 0..23 /\ written \in {0, 24}
  BY WindowsAreHours DEF WatchTyped
<1>2. /\ Day(clock) = d /\ Hour(clock) >= h
      /\ \A v \in Windows : ~(h < v /\ v <= Hour(clock))
  BY <1>1, SpanOfWindow
<1>3. Hour(clock) \in 0..23
  BY <1>1, DayAndHour
<1>4. TimeOf(clock) \in Nat /\ TimeOf(clock) >= h
  BY <1>1, <1>2, <1>3 DEF TimeOf
<1>5. h \in PassedToday /\ PassedToday \subseteq 0..23
  BY <1>1, <1>4 DEF PassedToday
<1>6. CASE written = 24 /\ Hour(clock) = 0
  <2>1. TimeOf(clock) = 24
    BY <1>6 DEF TimeOf
  <2>2. \A v \in Windows : v <= TimeOf(clock)
    BY <1>1, <2>1
  <2>3. PassedToday = Windows
    BY <2>2 DEF PassedToday
  <2> QED
    BY <1>1, <1>2, <1>5, <1>6, <2>3
<1>7. CASE ~(written = 24 /\ Hour(clock) = 0)
  <2>1. TimeOf(clock) = Hour(clock)
    BY <1>1, <1>7 DEF TimeOf
  <2>2. \A v \in PassedToday : v <= h
    BY <1>1, <1>2, <1>3, <2>1 DEF PassedToday
  <2>3. Max(PassedToday) \in PassedToday /\ \A v \in PassedToday : Max(PassedToday) >= v
    BY <1>5, GreatestOfBounded, PassedToday \in SUBSET Nat, PassedToday # {}, 23 \in Nat,
       \A x \in PassedToday : x <= 23
  <2>4. Max(PassedToday) <= h /\ Max(PassedToday) >= h /\ Max(PassedToday) \in 0..23
    BY <1>5, <2>2, <2>3
  <2>5. Max(PassedToday) = h
    BY <1>1, <2>4
  <2> QED
    BY <1>2, <1>5, <1>7, <2>5
<1> QED
  BY <1>6, <1>7

(* What a cycle says of the window in whose span it is.                    *)
LEMMA CycleJudgesWindow ==
  ASSUME WatchTyped, NEW d \in Nat, NEW h \in Windows, clock \in Span(24 * d + h)
  PROVE  /\ DigestMissed => 24 * Day(clock) + Max(PassedToday) \in Named(24 * d + h)
         /\ ~ DigestMissed => Span(24 * d + h) \cap digests # {} \/ Hidden(24 * d + h)
<1> DEFINE w == 24 * d + h
<1>1. clock \in Nat /\ h \in 0..23 /\ written \in {0, 24} /\ digests \subseteq 24..clock
  BY WindowsAreHours DEF WatchTyped
<1>2. Day(w) = d /\ Hour(w) = h /\ Midnight(w) = 24 * d
  BY <1>1, DayIsUnique DEF Midnight
<1>3. /\ Day(clock) = d /\ PassedToday # {}
      /\ \/ written = 24 /\ Hour(clock) = 0 /\ h = 0 /\ PassedToday = Windows
         \/ ~(written = 24 /\ Hour(clock) = 0) /\ Max(PassedToday) = h
  BY WindowAskedAbout
<1>4. /\ Hour(clock) >= h
      /\ \A v \in Windows : ~(h < v /\ v <= Hour(clock))
  BY <1>1, SpanOfWindow
<1>5. 24 * Day(clock) + Max(PassedToday) \in Named(w)
  <2>1. CASE written = 24 /\ Hour(clock) = 0 /\ h = 0 /\ PassedToday = Windows
    BY <1>2, <1>3, <2>1 DEF Named
  <2>2. CASE Max(PassedToday) = h
    BY <1>3, <2>2 DEF Named
  <2> QED
    BY <1>3, <2>1, <2>2
<1>6. ASSUME ~ DigestMissed
      PROVE  Span(w) \cap digests # {} \/ Hidden(w)
  <2>0. digests # {}
    BY <1>3, <1>6 DEF DigestMissed
  <2> PICK last \in digests : last = Max(digests)
    BY <2>0, LastDigest
  <2>1. Day(last) = d /\ ~(TimeOf(last) < Max(PassedToday))
    BY <1>3, <1>6 DEF DigestMissed
  <2>2. last \in Nat /\ last <= clock
    BY <1>1
  <2>3. /\ last = 24 * d + Hour(last) /\ Hour(last) \in 0..23
        /\ clock = 24 * d + Hour(clock) /\ Hour(clock) \in 0..23
    BY <1>1, <1>3, <2>1, <2>2, DayAndHour
  <2>4. Hour(last) <= Hour(clock)
    BY <1>1, <2>2, <2>3
  <2>5. \A v \in Windows : ~(h < v /\ v <= Hour(last))
    BY <1>4, <2>3, <2>4, WindowsAreHours
  <2>6. CASE Hour(last) >= h
    BY <2>1, <2>2, <2>5, <2>6, SpanOfWindow
  <2>7. CASE ~(Hour(last) >= h)
    <3>1. Hour(clock) # 0 /\ Max(PassedToday) = h
      BY <1>1, <1>3, <1>4, <2>3, <2>7
    <3>2. Hour(last) = 0 /\ written = 24
      BY <1>1, <2>1, <2>3, <2>7, <3>1 DEF TimeOf
    <3> QED
      BY <1>2, <2>2, <2>3, <3>2 DEF Hidden
  <2> QED
    BY <2>6, <2>7, <2>3, <1>1
<1> QED
  BY <1>5, <1>6

(* Conversely: the window an alert names is the one in whose span the      *)
(* cycle is, and no digest came in it so far.                              *)
LEMMA MissedWindow ==
  ASSUME WatchTyped, written = 0, DigestMissed, NEW d \in Nat, NEW h \in Windows,
         24 * d + h = 24 * Day(clock) + Max(PassedToday)
  PROVE  clock \in Span(24 * d + h) /\ ((24 * d + h)..(clock - 1)) \cap digests = {}
<1>1. clock \in Nat /\ clock >= 24 /\ h \in 0..23 /\ Windows \subseteq 0..23
      /\ digests \subseteq 24..clock
  BY WindowsAreHours DEF WatchTyped
<1>2. clock = 24 * Day(clock) + Hour(clock) /\ Hour(clock) \in 0..23 /\ Day(clock) \in Nat
  BY <1>1, DayAndHour
<1>3. TimeOf(clock) = Hour(clock)
  BY DEF TimeOf
<1>4. PassedToday # {} /\ PassedToday \subseteq 0..23
  BY <1>1 DEF DigestMissed, PassedToday
<1>5. Max(PassedToday) \in PassedToday /\ \A v \in PassedToday : Max(PassedToday) >= v
  BY <1>4, GreatestOfBounded, PassedToday \in SUBSET Nat, 23 \in Nat,
     \A x \in PassedToday : x <= 23
<1>6. Max(PassedToday) \in 0..23
  BY <1>4, <1>5
<1>7. d = Day(clock) /\ h = Max(PassedToday)
  BY <1>1, <1>2, <1>6
<1>8. h <= Hour(clock) /\ \A v \in Windows : ~(h < v /\ v <= Hour(clock))
  BY <1>1, <1>2, <1>3, <1>5, <1>7 DEF PassedToday
<1>9. clock \in Span(24 * d + h)
  BY <1>1, <1>2, <1>7, <1>8, SpanOfWindow
<1>10. ASSUME NEW x \in digests, x >= 24 * d + h, x <= clock - 1
       PROVE  FALSE
  <2> PICK last \in digests : last = Max(digests) /\ \A y \in digests : last >= y
    BY <1>10, LastDigest
  <2>1. Day(last) # d \/ TimeOf(last) < h
    BY <1>7, <1>10 DEF DigestMissed
  <2>2. last >= x /\ last <= clock /\ last \in Nat /\ x \in Nat
    BY <1>1, <1>10
  <2>3. last = 24 * Day(last) + Hour(last) /\ Hour(last) \in 0..23 /\ Day(last) \in Nat
    BY <2>2, DayAndHour
  <2>4. TimeOf(last) = Hour(last)
    BY DEF TimeOf
  <2>5. Day(last) = d /\ Hour(last) >= h
    <3>1. 24 * d + h <= last /\ last <= 24 * d + 23
      BY <1>1, <1>2, <1>7, <1>10, <2>2
    <3> HIDE DEF Day
    <3> QED
      BY <1>1, <2>3, <3>1
  <2> QED
    BY <1>1, <2>1, <2>3, <2>4, <2>5
<1>11. \A x \in digests : ~(x \in (24 * d + h)..(clock - 1))
  BY <1>1, <1>10
<1> QED
  BY <1>9, <1>11

-----------------------------------------------------------------------------
(* What a cycle says when it reaches its alerts.                           *)

(* A window in whose span a cycle reached its alerts was announced, or a   *)
(* digest came in it; one that was announced had none by then.             *)
WindowsWatched ==
  \A d \in Nat, h \in Windows :
    /\ Span(24 * d + h) \cap checks # {}
         => \/ Named(24 * d + h) \cap told # {}
            \/ Span(24 * d + h) \cap digests # {}
            \/ Hidden(24 * d + h)
    /\ (24 * d + h \in told /\ written = 0)
         => \E c \in Span(24 * d + h) \cap checks : ((24 * d + h)..(c - 1)) \cap digests = {}

(* What the last cycle raised still stands, and nothing that no cycle saw. *)
SourcesWatched ==
  /\ raised.stale \subseteq Sources
  /\ \A s \in Sources :
     /\ (seen[s] = Unset /\ checks # {}) => s \in raised.never
     /\ (seen[s] # Unset /\ \E c \in checks : c > seen[s] + Freshness[s]) => s \in raised.stale
     /\ s \in raised.stale => \A c \in checks :
          (\A x \in checks : c >= x) /\ c > seen[s] => c > seen[s] + Freshness[s]

CollectionWatched ==
  /\ (collectedAt = Unset /\ checks # {}) => raised.collection
  /\ (collectedAt # Unset /\ \E c \in checks : c > collectedAt + 2 * Interval) => raised.collection

Watched == WatchTyped /\ WindowsWatched /\ SourcesWatched /\ CollectionWatched

(* The watch starts with nothing to tell.                                  *)
LEMMA WatchStarts == WatchInit => Watched
<1> SUFFICES ASSUME WatchInit PROVE Watched
  OBVIOUS
<1>1. WatchTyped
  BY DEF WatchInit, WatchTyped, Unset
<1>2. WindowsWatched
  BY DEF WatchInit, WindowsWatched
<1>3. SourcesWatched
  BY DEF WatchInit, SourcesWatched, Quiet
<1>4. CollectionWatched
  BY DEF WatchInit, CollectionWatched
<1> QED
  BY <1>1, <1>2, <1>3, <1>4 DEF Watched

(* Most steps touch nothing that the alerts are about.                     *)
LEMMA WatchIsUntouched ==
  ASSUME Watched,
         UNCHANGED <<collectedAt, digests, seen, raised, written, checks, told>>,
         clock' \in Nat /\ clock' >= clock
  PROVE  Watched'
<1>1. WatchTyped'
  BY DEF Watched, WatchTyped, Unset
<1>2. WindowsWatched'
  BY DEF Watched, WindowsWatched, Span, LastPassed, Midnight, Day, Hour, Named, Hidden
<1>3. SourcesWatched'
  BY DEF Watched, SourcesWatched
<1>4. CollectionWatched'
  BY DEF Watched, CollectionWatched
<1> QED
  BY <1>1, <1>2, <1>3, <1>4 DEF Watched

(* A collection, or a push, is heard no earlier than any cycle looked.     *)
LEMMA HeardNow ==
  ASSUME Watched, UNCHANGED <<clock, digests, raised, written, checks, told>>,
         collectedAt' \in {collectedAt, clock},
         seen' \in [Sources -> {Unset} \cup 24..clock],
         \A s \in Sources : seen'[s] \in {seen[s], clock}
  PROVE  Watched'
<1>1. WatchTyped'
  BY DEF Watched, WatchTyped, Unset
<1>2. WindowsWatched'
  BY DEF Watched, WindowsWatched, Span, LastPassed, Midnight, Day, Hour, Named, Hidden
<1>3. clock \in Nat /\ clock # Unset /\ checks \subseteq Nat /\ \A c \in checks : c <= clock
  BY DEF Watched, WatchTyped, Unset
<1>4. Interval \in Nat /\ \A s \in Sources : Freshness[s] \in Nat
  BY WatchAssumption
<1>5. SourcesWatched'
  <2>1. raised'.stale \subseteq Sources
    BY DEF Watched, SourcesWatched
  <2>2. ASSUME NEW s \in Sources
        PROVE  /\ (seen'[s] = Unset /\ checks # {}) => s \in raised.never
               /\ (seen'[s] # Unset /\ \E c \in checks : c > seen'[s] + Freshness[s])
                    => s \in raised.stale
               /\ s \in raised.stale => \A c \in checks :
                    (\A x \in checks : c >= x) /\ c > seen'[s] => c > seen'[s] + Freshness[s]
    <3>1. CASE seen'[s] = seen[s]
      BY <3>1 DEF Watched, SourcesWatched
    <3>2. CASE seen'[s] = clock
      <4>1. Freshness[s] \in Nat
        BY <1>4
      <4> QED
        BY <1>3, <3>2, <4>1
    <3> QED
      BY <3>1, <3>2
  <2> QED
    BY <2>1, <2>2 DEF SourcesWatched
<1>6. CollectionWatched'
  BY <1>3, <1>4 DEF Watched, CollectionWatched
<1> QED
  BY <1>1, <1>2, <1>5, <1>6 DEF Watched

(* A delivery that ends may add a digest; no alert is taken back.          *)
LEMMA DigestKeepsWatch ==
  ASSUME Watched, NEW run \in Runs, DeliverEnds(run)
  PROVE  Watched'
<1> USE DEF DeliverEnds
<1>1. clock \in Nat /\ checks \subseteq Nat /\ digests \subseteq digests'
      /\ digests' \subseteq digests \cup {clock} /\ \A c \in checks : c <= clock
  BY DEF Watched, WatchTyped
<1>2. WatchTyped'
  BY DEF Watched, WatchTyped, Unset
<1>3. WindowsWatched'
  <2> SUFFICES ASSUME NEW d \in Nat, NEW h \in Windows
               PROVE  /\ Span(24 * d + h) \cap checks # {}
                           => \/ Named(24 * d + h)' \cap told # {}
                              \/ Span(24 * d + h) \cap digests' # {}
                              \/ Hidden(24 * d + h)'
                      /\ (24 * d + h \in told /\ written = 0)
                           => \E c \in Span(24 * d + h) \cap checks :
                                ((24 * d + h)..(c - 1)) \cap digests' = {}
    BY DEF WindowsWatched, Span, LastPassed, Midnight, Day
  <2>1. Named(24 * d + h)' = Named(24 * d + h)
    BY DEF Named, Midnight, Hour, Day
  <2>2. Hidden(24 * d + h) => Hidden(24 * d + h)'
    BY <1>1 DEF Hidden, Midnight, Day
  <2>3. ASSUME NEW c \in checks
        PROVE  ((24 * d + h)..(c - 1)) \cap digests = {} => ((24 * d + h)..(c - 1)) \cap digests' = {}
    BY <1>1
  <2> QED
    <3>1. /\ Span(24 * d + h) \cap checks # {}
               => \/ Named(24 * d + h) \cap told # {}
                  \/ Span(24 * d + h) \cap digests # {}
                  \/ Hidden(24 * d + h)
          /\ (24 * d + h \in told /\ written = 0)
               => \E c \in Span(24 * d + h) \cap checks : ((24 * d + h)..(c - 1)) \cap digests = {}
      BY DEF Watched, WindowsWatched
    <3>2. Span(24 * d + h) \cap digests # {} => Span(24 * d + h) \cap digests' # {}
      BY <1>1
    <3> QED
      BY <2>1, <2>2, <2>3, <3>1, <3>2
<1>4. SourcesWatched' /\ CollectionWatched'
  BY DEF Watched, SourcesWatched, CollectionWatched
<1> QED
  BY <1>2, <1>3, <1>4 DEF Watched

(* A cycle tells what is silent when it checks.                            *)
LEMMA CheckKeepsWatch ==
  ASSUME Watched, Check
  PROVE  Watched'
<1> USE DEF Check
<1>1. /\ clock \in Nat /\ clock >= 24 /\ checks \subseteq Nat /\ \A c \in checks : c <= clock
      /\ checks' = checks \cup {clock} /\ told \subseteq told'
  BY DEF Watched, WatchTyped
<1>2. WatchTyped'
  BY DEF Watched, WatchTyped, Unset
<1>3. WindowsWatched'
  <2> SUFFICES ASSUME NEW d \in Nat, NEW h \in Windows
               PROVE  /\ Span(24 * d + h) \cap checks' # {}
                           => \/ Named(24 * d + h) \cap told' # {}
                              \/ Span(24 * d + h) \cap digests # {}
                              \/ Hidden(24 * d + h)
                      /\ (24 * d + h \in told' /\ written = 0)
                           => \E c \in Span(24 * d + h) \cap checks' :
                                ((24 * d + h)..(c - 1)) \cap digests = {}
    BY DEF WindowsWatched, Span, LastPassed, Midnight, Day, Hour, Named, Hidden
  <2> DEFINE w == 24 * d + h
  <2>1. /\ Span(w) \cap checks # {} => \/ Named(w) \cap told # {}
                                        \/ Span(w) \cap digests # {}
                                        \/ Hidden(w)
        /\ (w \in told /\ written = 0)
             => \E c \in Span(w) \cap checks : (w..(c - 1)) \cap digests = {}
    BY DEF Watched, WindowsWatched
  <2>2. ASSUME clock \in Span(w)
        PROVE  Named(w) \cap told' # {} \/ Span(w) \cap digests # {} \/ Hidden(w)
    <3>1. /\ DigestMissed => 24 * Day(clock) + Max(PassedToday) \in Named(w)
          /\ ~ DigestMissed => Span(w) \cap digests # {} \/ Hidden(w)
      BY <2>2, CycleJudgesWindow DEF Watched
    <3>2. DigestMissed => 24 * Day(clock) + Max(PassedToday) \in told'
      OBVIOUS
    <3> QED
      BY <3>1, <3>2
  <2>3. Span(w) \cap checks' # {} => \/ Named(w) \cap told' # {}
                                     \/ Span(w) \cap digests # {}
                                     \/ Hidden(w)
    BY <1>1, <2>1, <2>2
  <2>4. ASSUME w \in told', w \notin told, written = 0
        PROVE  clock \in Span(w) /\ (w..(clock - 1)) \cap digests = {}
    <3>1. DigestMissed /\ w = 24 * Day(clock) + Max(PassedToday)
      BY <2>4
    <3> QED
      BY <2>4, <3>1, MissedWindow DEF Watched
  <2>5. (w \in told' /\ written = 0)
          => \E c \in Span(w) \cap checks' : (w..(c - 1)) \cap digests = {}
    BY <1>1, <2>1, <2>4
  <2> QED
    BY <2>3, <2>5
<1>5. Interval \in Nat /\ \A s \in Sources : Freshness[s] \in Nat
  BY WatchAssumption
<1>6. raised'.never = Never /\ raised'.stale = Stale
  BY DEF Alerts
<1>7. SourcesWatched'
  <2> SUFFICES ASSUME NEW s \in Sources
               PROVE  /\ seen[s] = Unset => s \in Never
                      /\ (seen[s] # Unset /\ \E c \in checks' : c > seen[s] + Freshness[s]) => s \in Stale
                      /\ s \in Stale => \A c \in checks' :
                           (\A x \in checks' : c >= x) /\ c > seen[s] => c > seen[s] + Freshness[s]
    BY <1>6 DEF SourcesWatched, Stale
  <2>1. seen[s] \in Nat /\ seen[s] <= clock
    BY <1>1 DEF Watched, WatchTyped, Unset
  <2> QED
    BY <1>1, <1>5, <2>1 DEF Never, Stale
<1>8. CollectionWatched'
  <2>1. raised'.collection = CollectionMissed
    BY DEF Alerts
  <2>2. collectedAt \in Nat /\ collectedAt <= clock
    BY <1>1 DEF Watched, WatchTyped, Unset
  <2>3. collectedAt = Unset => CollectionMissed
    BY DEF CollectionMissed
  <2>4. (\E c \in checks' : c > collectedAt + 2 * Interval) => CollectionMissed
    BY <1>1, <1>5, <2>2 DEF CollectionMissed
  <2> QED
    BY <2>1, <2>3, <2>4 DEF CollectionWatched
<1> QED
  BY <1>2, <1>3, <1>7, <1>8 DEF Watched

(* The invariant of the watch, step by step.                               *)
LEMMA WatchGoesOn == Watched /\ [WatchNext]_watchVars => Watched'
<1> SUFFICES ASSUME Watched, [WatchNext]_watchVars PROVE Watched'
  OBVIOUS
<1>1. clock \in Nat /\ clock >= clock /\ seen \in [Sources -> {Unset} \cup 24..clock] /\ clock >= 24
  BY DEF Watched, WatchTyped
<1>2. CASE Pass
  <2>1. clock' \in Nat /\ clock' >= clock
    BY <1>1, <1>2, WatchAssumption DEF Pass
  <2> QED
    BY <1>2, <2>1, WatchIsUntouched DEF Pass
<1>3. CASE CollectTick
  BY <1>1, <1>3, WatchIsUntouched DEF CollectTick
<1>4. CASE DeliverTick
  BY <1>1, <1>4, WatchIsUntouched DEF DeliverTick
<1>5. CASE Manual
  BY <1>1, <1>5, WatchIsUntouched DEF Manual
<1>6. CASE Check
  BY <1>6, CheckKeepsWatch
<1>7. CASE Exit
  BY <1>1, <1>7, WatchIsUntouched DEF Exit
<1>8. CASE Boot
  BY <1>1, <1>8, WatchIsUntouched DEF Boot
<1>9. ASSUME NEW outcome \in {"found", "empty", "failed"}, CollectEnds(outcome)
      PROVE  Watched'
  <2>1. PICK S \in SUBSET Pulled : seen' = [s \in Sources |-> IF s \in S THEN clock ELSE seen[s]]
    BY <1>9 DEF CollectEnds
  <2>2. /\ seen' \in [Sources -> {Unset} \cup 24..clock]
        /\ \A s \in Sources : seen'[s] \in {seen[s], clock}
    BY <1>1, <2>1
  <2>3. collectedAt' \in {collectedAt, clock}
        /\ UNCHANGED <<clock, digests, raised, written, checks, told>>
    BY <1>9 DEF CollectEnds
  <2> QED
    BY <2>2, <2>3, HeardNow
<1>10. ASSUME NEW run \in Runs, DeliverEnds(run)
       PROVE  Watched'
  BY <1>10, DigestKeepsWatch
<1>11. ASSUME NEW s \in Sources \ Pulled, NEW known \in BOOLEAN, Push(s, known)
       PROVE  Watched'
  <2>1. seen' = IF known THEN [seen EXCEPT ![s] = clock] ELSE seen
    BY <1>11 DEF Push
  <2>2. /\ seen' \in [Sources -> {Unset} \cup 24..clock]
        /\ \A t \in Sources : seen'[t] \in {seen[t], clock}
    BY <1>1, <2>1
  <2>3. collectedAt' \in {collectedAt, clock}
        /\ UNCHANGED <<clock, digests, raised, written, checks, told>>
    BY <1>11 DEF Push
  <2> QED
    BY <2>2, <2>3, HeardNow
<1>12. CASE UNCHANGED watchVars
  BY <1>1, <1>12, WatchIsUntouched DEF watchVars
<1> QED
  BY <1>2, <1>3, <1>4, <1>5, <1>6, <1>7, <1>8, <1>9, <1>10, <1>11, <1>12 DEF WatchNext

(* The invariant of the watch.                                             *)
LEMMA WatchedAlways == WatchSpec => []Watched
<1> QED
  BY WatchStarts, WatchGoesOn, PTL DEF WatchSpec

(* The invariant says what the property asks.                              *)
LEMMA WatchedIsAnnounced == Watched => SilenceIsAnnounced
<1> SUFFICES ASSUME Watched PROVE SilenceIsAnnounced
  OBVIOUS
<1>1. clock \in Nat /\ checks \subseteq Nat /\ \A c \in checks : c <= clock
  BY DEF Watched, WatchTyped
<1>2. ASSUME NEW d \in 1..Day(clock), NEW h \in Windows, NEW w, w = 24 * d + h
      PROVE  /\ (\E c \in checks : LastPassed(w, c)) /\ ~ Hidden(w)
                  => Named(w) \cap told # {} \/ \E x \in digests : LastPassed(w, x)
             /\ (w \in told /\ written = 0)
                  => \E c \in checks : LastPassed(w, c) /\ (w..(c - 1)) \cap digests = {}
  <2>1. d \in Nat
    BY <1>1, <1>2 DEF Day
  <2>2. \A t : t \in Span(w) <=> LastPassed(w, t)
    BY DEF Span, LastPassed
  <2>3. /\ Span(w) \cap checks # {}
             => Named(w) \cap told # {} \/ Span(w) \cap digests # {} \/ Hidden(w)
        /\ (w \in told /\ written = 0)
             => \E c \in Span(w) \cap checks : (w..(c - 1)) \cap digests = {}
    BY <1>2, <2>1 DEF Watched, WindowsWatched
  <2> QED
    BY <2>2, <2>3
<1>3. \A s \in Sources :
        /\ (seen[s] = Unset /\ checks # {}) => s \in raised.never
        /\ (seen[s] # Unset /\ \E c \in checks : c > seen[s] + Freshness[s]) => s \in raised.stale
  BY DEF Watched, SourcesWatched
<1>4. (IF collectedAt = Unset THEN checks # {} ELSE \E c \in checks : c > collectedAt + 2 * Interval)
        => raised.collection
  BY DEF Watched, CollectionWatched
<1>5. ASSUME checks # {}, NEW s \in raised.stale, s \in Sources, Max(checks) > seen[s]
      PROVE  Max(checks) > seen[s] + Freshness[s]
  <2>1. Max(checks) \in checks /\ \A x \in checks : Max(checks) >= x
    BY <1>1, <1>5, GreatestOfBounded
  <2> QED
    BY <1>5, <2>1 DEF Watched, SourcesWatched
<1>6. raised.stale \subseteq Sources
  BY DEF Watched, SourcesWatched
<1> QED
  BY <1>2, <1>3, <1>4, <1>5, <1>6 DEF SilenceIsAnnounced

THEOREM SilenceIsTold == WatchSpec => []SilenceIsAnnounced
<1> QED
  BY WatchedAlways, WatchedIsAnnounced, PTL
=============================================================================
