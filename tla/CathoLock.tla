------------------------------ MODULE CathoLock ------------------------------
(***************************************************************************)
(* The lock file of the Catho collector's checkpoint and its takeover      *)
(* mutex: acquireLock, refreshLock and releaseLock of                      *)
(* collectors/catho/state.ts, one file-system call per step, for any       *)
(* number of collector and requeue processes.                              *)
(*                                                                         *)
(* A file is [owner, fresh]: whose token it holds (None: no such file) and *)
(* whether its mtime is within the stale limit.  Both files are leases:    *)
(* "<lock>.takeover" may be removed by a contender that finds it old.      *)
(*   Suspendable  the processes that, as running owners, may miss their    *)
(*                heartbeats for longer than the limit;                    *)
(*   MutexFaults  what may befall a process that has the takeover mutex in *)
(*                its hands: "dies", or is "heldUp" past the limit.        *)
(***************************************************************************)
EXTENDS Naturals

CONSTANTS Procs, None, Suspendable, MutexFaults

ASSUME NoneAssumption == None \notin Procs
ASSUME FlagsAssumption ==
    Suspendable \subseteq Procs /\ MutexFaults \subseteq {"dies", "heldUp"}

VARIABLES
    lock,      \* the lock file
    mutex,     \* the takeover file
    pc         \* [Procs -> Stage]

vars == <<lock, mutex, pc>>

Absent == [owner |-> None, fresh |-> FALSE]

(* An owner (it got a token back) refreshes or releases; a process that    *)
(* was refused, threw or was told its lease is lost may start over.        *)
Acquiring == {"stat", "mutexCreate", "mutexStat", "mutexRemove", "mutexRecreate",
              "recheck", "create", "remove", "recreate"}
Refreshing == {"refreshCheck", "refreshTouch"}
Releasing  == {"releaseCheck", "releaseRemove"}
InMutex  == {"recheck", "create", "remove", "recreate", "dropRefused", "dropOwner",
             "dropLost", "dropDone"} \cup Refreshing \cup Releasing
Owning   == {"owner", "dropOwner"} \cup Refreshing
Stage    == {"idle", "down", "owner", "lost"} \cup Acquiring \cup InMutex

Goto(p, stage) == pc' = [pc EXCEPT ![p] = stage]

Init ==
    /\ lock = Absent
    /\ mutex = Absent
    /\ pc = [p \in Procs |-> "idle"]

-----------------------------------------------------------------------------
(* acquireLock.                                                            *)

(* The first wx: free, or to be looked at.                                 *)
TryCreate(p) ==
    /\ pc[p] \in {"idle", "down"}
    /\ IF lock = Absent
       THEN lock' = [owner |-> p, fresh |-> TRUE] /\ Goto(p, "owner")
       ELSE Goto(p, "stat") /\ UNCHANGED lock
    /\ UNCHANGED mutex

StatLock(p) ==
    /\ pc[p] = "stat"
    /\ Goto(p, IF lock = Absent \/ lock.fresh THEN "idle" ELSE "mutexCreate")
    /\ UNCHANGED <<lock, mutex>>

(* wx on the takeover file, at the first try and after removing an old one.*)
CreateMutex(p) ==
    /\ pc[p] \in {"mutexCreate", "mutexRecreate"}
    /\ IF mutex = Absent
       THEN mutex' = [owner |-> p, fresh |-> TRUE] /\ Goto(p, "recheck")
       ELSE /\ Goto(p, IF pc[p] = "mutexCreate" THEN "mutexStat" ELSE "idle")
            /\ UNCHANGED mutex
    /\ UNCHANGED lock

(* Mutation of Abandoned: the takeover file is a tombstone, never old.     *)
Tombstone == FALSE

Abandoned == mutex # Absent /\ ~mutex.fresh

(* Gone in the meantime: statSync throws ENOENT out of acquireLock.        *)
StatMutex(p) ==
    /\ pc[p] = "mutexStat"
    /\ Goto(p, IF Abandoned THEN "mutexRemove" ELSE "idle")
    /\ UNCHANGED <<lock, mutex>>

(* rmSync removes whatever file is there now.                              *)
RemoveMutex(p) ==
    /\ pc[p] = "mutexRemove"
    /\ mutex' = Absent
    /\ Goto(p, IF mutex = Absent THEN "idle" ELSE "mutexRecreate")
    /\ UNCHANGED lock

(* Mutation of StillStale: no second look at the lock under the mutex.     *)
AnyLock == lock # Absent

StillStale == lock # Absent /\ ~lock.fresh

Recheck(p) ==
    /\ pc[p] = "recheck"
    /\ \/ lock = Absent /\ Goto(p, "create")
       \/ StillStale /\ Goto(p, "remove")
       \/ lock # Absent /\ ~StillStale /\ Goto(p, "dropRefused")
    /\ UNCHANGED <<lock, mutex>>

RemoveLock(p) ==
    /\ pc[p] = "remove"
    /\ lock' = Absent
    /\ Goto(p, IF lock = Absent THEN "dropRefused" ELSE "recreate")
    /\ UNCHANGED mutex

(* wx on the lock inside the mutex; EEXIST leaves through the finally.     *)
CreateLock(p) ==
    /\ pc[p] \in {"create", "recreate"}
    /\ IF lock = Absent
       THEN lock' = [owner |-> p, fresh |-> TRUE] /\ Goto(p, "dropOwner")
       ELSE Goto(p, "dropRefused") /\ UNCHANGED lock
    /\ UNCHANGED mutex

-----------------------------------------------------------------------------
(* refreshLock and releaseLock, by a process that holds a token.           *)

(* Mutation of ReleaseEnter: without the takeover mutex.                   *)
ReleaseUnguarded(p) ==
    /\ pc[p] \in {"owner", "lost"}
    /\ Goto(p, "releaseCheck")
    /\ UNCHANGED <<lock, mutex>>

RefreshEnter(p) ==
    /\ pc[p] = "owner"
    /\ IF mutex = Absent
       THEN mutex' = [owner |-> p, fresh |-> TRUE] /\ Goto(p, "refreshCheck")
       ELSE Goto(p, "lost") /\ UNCHANGED mutex
    /\ UNCHANGED lock

RefreshCheck(p) ==
    /\ pc[p] = "refreshCheck"
    /\ Goto(p, IF lock.owner = p THEN "refreshTouch" ELSE "dropLost")
    /\ UNCHANGED <<lock, mutex>>

(* utimes, whoever owns the file by now.                                   *)
RefreshTouch(p) ==
    /\ pc[p] = "refreshTouch"
    /\ lock' = IF lock = Absent THEN Absent ELSE [lock EXCEPT !.fresh = TRUE]
    /\ Goto(p, IF lock = Absent THEN "dropLost" ELSE "dropOwner")
    /\ UNCHANGED mutex

ReleaseEnter(p) ==
    /\ pc[p] \in {"owner", "lost"}
    /\ IF mutex = Absent
       THEN mutex' = [owner |-> p, fresh |-> TRUE] /\ Goto(p, "releaseCheck")
       ELSE Goto(p, "idle") /\ UNCHANGED mutex
    /\ UNCHANGED lock

ReleaseCheck(p) ==
    /\ pc[p] = "releaseCheck"
    /\ Goto(p, IF lock.owner = p THEN "releaseRemove" ELSE "dropDone")
    /\ UNCHANGED <<lock, mutex>>

ReleaseRemove(p) ==
    /\ pc[p] = "releaseRemove"
    /\ lock' = Absent
    /\ Goto(p, "dropDone")
    /\ UNCHANGED mutex

(* The finally of all three: remove the takeover file, whoever's it is.    *)
DropMutex(p) ==
    /\ pc[p] \in {"dropRefused", "dropOwner", "dropLost", "dropDone"}
    /\ mutex' = Absent
    /\ Goto(p, CASE pc[p] = "dropOwner" -> "owner"
                 [] pc[p] = "dropLost"  -> "lost"
                 [] OTHER               -> "idle")
    /\ UNCHANGED lock

-----------------------------------------------------------------------------
(* Failures and time.                                                      *)

Crash(p) ==
    /\ pc[p] \notin {"idle", "down"}
    /\ "dies" \in MutexFaults \/ pc[p] \notin InMutex
    /\ Goto(p, "down")
    /\ UNCHANGED <<lock, mutex>>

LockGoesStale ==
    /\ lock.fresh
    /\ lock.owner \in Suspendable \/ pc[lock.owner] \notin Owning
    /\ lock' = [lock EXCEPT !.fresh = FALSE]
    /\ UNCHANGED <<mutex, pc>>

MutexGoesStale ==
    /\ mutex.fresh
    /\ "heldUp" \in MutexFaults \/ pc[mutex.owner] \notin InMutex
    /\ mutex' = [mutex EXCEPT !.fresh = FALSE]
    /\ UNCHANGED <<lock, pc>>

-----------------------------------------------------------------------------
Acquire(p) ==
    \/ TryCreate(p) \/ StatLock(p) \/ CreateMutex(p) \/ StatMutex(p) \/ RemoveMutex(p)
    \/ Recheck(p) \/ RemoveLock(p) \/ CreateLock(p)
Refresh(p) == RefreshEnter(p) \/ RefreshCheck(p) \/ RefreshTouch(p)
Release(p) == ReleaseEnter(p) \/ ReleaseCheck(p) \/ ReleaseRemove(p)

Next ==
    \/ \E p \in Procs : Acquire(p) \/ Refresh(p) \/ Release(p) \/ DropMutex(p) \/ Crash(p)
    \/ LockGoesStale \/ MutexGoesStale

Spec == Init /\ [][Next]_vars

(* Calls go on, an owner refreshes or ends its run, the timer starts the   *)
(* next one; the clock goes on.                                            *)
FairSpec ==
    /\ Spec
    /\ WF_vars(LockGoesStale) /\ WF_vars(MutexGoesStale)
    /\ \A p \in Procs : WF_vars(Acquire(p) \/ Refresh(p) \/ Release(p) \/ DropMutex(p))

-----------------------------------------------------------------------------
(* Properties.                                                             *)

(* The files have an owner or do not exist: nothing ever leaves an         *)
(* ownerless lock behind, which no refresh or release would recognise.     *)
TypeOK ==
    LET File == {Absent} \cup [owner : Procs, fresh : BOOLEAN]
    IN  lock \in File /\ mutex \in File /\ pc \in [Procs -> Stage]

(* Two processes that keep their heartbeats never both believe they own    *)
(* the state file, whatever the suspended ones do when they wake up, as    *)
(* long as nobody dies or is held up inside the takeover mutex.            *)
OneOwner ==
    \A p, q \in Procs \ Suspendable : pc[p] \in Owning /\ pc[q] \in Owning => p = q

(* With a suspended owner two may believe it, but the file tells them      *)
(* apart: a process past its refresh check is the file's owner, so no      *)
(* takeover ever slips between the check and the touch or the removal.     *)
CheckedOwnerIsOwner ==
    \A p \in Procs : pc[p] \in {"refreshTouch", "releaseRemove"} => lock.owner = p

(* The lock file implements a lease.                                       *)
Lease == INSTANCE StateLease WITH
            holder <- lock.owner, fresh <- lock.fresh,
            leaving <- {p \in Procs : pc[p] = "releaseRemove"}
ImplementsLease == Lease!Spec

(* The mutex, too, has one process inside.                                 *)
OneInMutex == \A p, q \in Procs : pc[p] \in InMutex /\ pc[q] \in InMutex => p = q

(* Once the crashes stop, a lock left behind is eventually refreshed,      *)
(* released or taken over, wherever its owner or a contender died: no      *)
(* takeover file left in the way blocks the state file for good.           *)
CrashesStop == <>[][~\E p \in Procs : Crash(p)]_vars
StaleLockGoes ==
    CrashesStop => ((lock # Absent /\ ~lock.fresh) ~> (lock = Absent \/ lock.fresh))
=============================================================================
