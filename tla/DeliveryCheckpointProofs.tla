---------------------- MODULE DeliveryCheckpointProofs ----------------------
(***************************************************************************)
(* Theorems about DeliveryCheckpoint for any set of attempts, any number   *)
(* of chunks and any lease: first in any surroundings, then in calm ones.  *)
(***************************************************************************)
EXTENDS DeliveryCheckpoint, FiniteSetTheorems, TLAPS

(* A chunk an attempt does not list as open was confirmed when it looked,  *)
(* or acknowledged to it since; a request that arrived is one message more *)
(* in the chat; success is only reported with nothing left to send.        *)
Ledger ==
    /\ \A c \in Chunks : chunk[c] = "confirmed" => Accounted(c)
    /\ op = "complete" => AllAccounted
    /\ \A a \in Attempts : pc[a] # "idle" =>
          \A c \in Chunks \ todo[a] : Accounted(c)
    /\ \A a \in Attempts : pc[a] = "idle" => wire[a] = "none"
    /\ \A a \in Attempts : wire[a] = "arrived" =>
          \A c \in Chunks : IsCurrent(a, c) => copies[c] > 0
    /\ \A a \in Attempts :
          pc[a] \in {"allConfirmed", "completed", "ok"} => todo[a] = {}

(* Every reachable state has the declared types.                           *)
THEOREM TypeInvariant == Spec => []TypeOK
<1> USE ChunksAssumption, NoneAssumption, LeaseAssumption, RetriesAssumption
<1>1. Init => TypeOK
  BY DEF Init, TypeOK, ChunkState, OpStatus, Request, Stage, Running, Holding
<1>2. TypeOK /\ [Next]_vars => TypeOK'
  <2> SUFFICES ASSUME TypeOK, [Next]_vars PROVE TypeOK'
    OBVIOUS
  <2> USE DEF TypeOK, ChunkState, OpStatus, Request, Stage, Running, Holding,
              Goto, SetChunk, TakeClaim, DropClaim, rows, local, past
  <2>1. ASSUME NEW a \in Attempts, Step(a) PROVE TypeOK'
    <3>1. CASE Prepare(a)
      BY <3>1 DEF Prepare
    <3>2. CASE CloseConfirmed(a)
      BY <3>2 DEF CloseConfirmed
    <3>3. CASE ClaimFirst(a)
      BY <3>3 DEF ClaimFirst
    <3>4. CASE RefreshClaim(a)
      BY <3>4 DEF RefreshClaim, RefreshGranted, RefreshRefused
    <3>5. CASE StartChunk(a)
      BY <3>5 DEF StartChunk
    <3>6. CASE Send(a)
      BY <3>6 DEF Send
    <3>7. CASE Acknowledged(a)
      BY <3>7 DEF Acknowledged
    <3>8. CASE Refused(a)
      BY <3>8 DEF Refused
    <3>9. CASE Ambiguous(a)
      BY <3>9 DEF Ambiguous
    <3>10. CASE SettleOperation(a)
      BY <3>10 DEF SettleOperation
    <3>11. CASE CompleteOperation(a)
      BY <3>11 DEF CompleteOperation
    <3>12. CASE Release(a)
      BY <3>12 DEF Release, DropOwnClaim
    <3> QED
      BY <2>1, <3>1, <3>2, <3>3, <3>4, <3>5, <3>6, <3>7, <3>8, <3>9, <3>10,
         <3>11, <3>12 DEF Step
  <2>2. ASSUME NEW a \in Attempts, Arrive(a) PROVE TypeOK'
    BY <2>2 DEF Arrive
  <2>3. ASSUME NEW a \in Attempts, Crash(a) PROVE TypeOK'
    BY <2>3 DEF Crash
  <2>4. ASSUME NEW c \in Chunks, ReconcileConfirmed(c) PROVE TypeOK'
    BY <2>4 DEF ReconcileConfirmed
  <2>5. ASSUME NEW c \in Chunks, ReconcileRetry(c) PROVE TypeOK'
    BY <2>5 DEF ReconcileRetry
  <2>6. CASE Tick
    BY <2>6 DEF Tick
  <2>7. CASE UNCHANGED vars
    BY <2>7 DEF vars
  <2> QED
    BY <2>1, <2>2, <2>3, <2>4, <2>5, <2>6, <2>7 DEF Next, Reconcile
<1> QED
  BY <1>1, <1>2, PTL DEF Spec

(* The attempts keep the ledger: a step of an attempt can only add to what *)
(* is accounted for, and marks confirmed only what an answer has proven.   *)
LEMMA StepKeepsLedger ==
  ASSUME TypeOK, Ledger, NEW a \in Attempts, Step(a)
  PROVE  Ledger'
<1> USE ChunksAssumption DEF Ledger, Accounted, AllAccounted, IsCurrent
<1> USE DEF TypeOK, Goto, SetChunk, TakeClaim, DropClaim, rows, local, past
<1>1. CASE Prepare(a)
  <2>1. \A c \in Chunks \ todo'[a] : Accounted(c)'
    BY <1>1 DEF Prepare
  <2>2. \A c \in Chunks : Accounted(c)' <=> Accounted(c)
    BY <1>1 DEF Prepare
  <2>3. pc'[a] = "allConfirmed" => todo'[a] = {}
    BY <1>1 DEF Prepare
  <2>4. pc'[a] \notin {"idle", "completed", "ok"} /\ wire'[a] = "none"
    BY <1>1 DEF Prepare
  <2> QED
    BY <1>1, <2>1, <2>2, <2>3, <2>4 DEF Prepare
<1>2. CASE CloseConfirmed(a)
  BY <1>2 DEF CloseConfirmed
<1>3. CASE ClaimFirst(a)
  BY <1>3 DEF ClaimFirst
<1>4. CASE RefreshClaim(a)
  BY <1>4 DEF RefreshClaim, RefreshGranted, RefreshRefused
<1>5. CASE StartChunk(a)
  BY <1>5 DEF StartChunk
<1>6. CASE Send(a)
  BY <1>6 DEF Send
<1>7. CASE Acknowledged(a)
  BY <1>7 DEF Acknowledged, Proven
<1>8. CASE Refused(a)
  BY <1>8 DEF Refused
<1>9. CASE Ambiguous(a)
  BY <1>9 DEF Ambiguous
<1>10. CASE SettleOperation(a)
  BY <1>10 DEF SettleOperation
<1>11. CASE CompleteOperation(a)
  BY <1>11 DEF CompleteOperation
<1>12. CASE Release(a)
  BY <1>12 DEF Release, DropOwnClaim
<1> QED
  BY <1>1, <1>2, <1>3, <1>4, <1>5, <1>6, <1>7, <1>8, <1>9, <1>10, <1>11,
     <1>12 DEF Step

(* So do the chat, crashes, the operator and the clock.                    *)
LEMMA SurroundingsKeepLedger ==
  ASSUME TypeOK, Ledger,
         \/ \E a \in Attempts : Arrive(a) \/ Crash(a)
         \/ \E c \in Chunks : Reconcile(c)
         \/ Tick
         \/ UNCHANGED vars
  PROVE  Ledger'
<1> USE ChunksAssumption DEF Ledger, Accounted, AllAccounted, IsCurrent
<1> USE DEF TypeOK, Goto, SetChunk, DropClaim, rows, local, past
<1>1. ASSUME NEW a \in Attempts, Arrive(a) PROVE Ledger'
  <2>1. PICK c \in Chunks : IsCurrent(a, c) /\ copies' = [copies EXCEPT ![c] = @ + 1]
    BY <1>1 DEF Arrive
  <2>2. \A d \in Chunks : IsCurrent(a, d) => d = c
    BY <2>1 DEF Chunks
  <2>3. \A d \in Chunks : copies'[d] \in Nat /\ copies'[d] >= copies[d]
    BY <2>1
  <2>4. copies'[c] > 0
    BY <2>1
  <2>5. \A d \in Chunks : Accounted(d) => Accounted(d)'
    BY <1>1, <2>3 DEF Arrive
  <2>6. wire' = [wire EXCEPT ![a] = "arrived"] /\ wire[a] = "out"
    BY <1>1 DEF Arrive
  <2>7. UNCHANGED <<chunk, op, pc, todo>>
    BY <1>1 DEF Arrive
  <2>8. \A b \in Attempts : wire'[b] = "arrived" =>
          \A d \in Chunks : IsCurrent(b, d)' => copies'[d] > 0
    BY <2>2, <2>3, <2>4, <2>6, <2>7
  <2> QED
    BY <2>5, <2>6, <2>7, <2>8
<1>2. ASSUME NEW a \in Attempts, Crash(a) PROVE Ledger'
  BY <1>2 DEF Crash, Alive, Running, Holding
<1>3. ASSUME NEW c \in Chunks, ReconcileConfirmed(c) PROVE Ledger'
  BY <1>3 DEF ReconcileConfirmed
<1>4. ASSUME NEW c \in Chunks, ReconcileRetry(c) PROVE Ledger'
  BY <1>4 DEF ReconcileRetry
<1>5. CASE Tick
  BY <1>5 DEF Tick
<1>6. CASE UNCHANGED vars
  BY <1>6 DEF vars
<1> QED
  BY <1>1, <1>2, <1>3, <1>4, <1>5, <1>6 DEF Reconcile

(* The ledger holds in any surroundings.                                   *)
LEMMA LedgerHolds == Spec => []Ledger
<1>1. Init => Ledger
  BY DEF Init, Ledger, Accounted, AllAccounted
<1>2. TypeOK /\ Ledger /\ [Next]_vars => Ledger'
  BY StepKeepsLedger, SurroundingsKeepLedger DEF Next
<1> QED
  BY <1>1, <1>2, TypeInvariant, PTL DEF Spec

(* Nothing is recorded as delivered that was not, in any surroundings:     *)
(* stale snapshots, expired leases, crashes and hasty reconciliations can  *)
(* duplicate a chunk or block it, but never lose one silently.             *)
THEOREM NothingIsLost == Spec => []NothingLost
<1>1. Ledger => NothingLost
  BY DEF Ledger, NothingLost, AllAccounted
<1> QED
  BY <1>1, LedgerHolds, PTL

-----------------------------------------------------------------------------
(* The rest is about calm surroundings: nothing runs between a prepare()   *)
(* and the first claim(), a running attempt keeps its lease, the operator  *)
(* waits until nobody is running.                                          *)
Calm == ~Preemptible /\ ~Suspendable /\ ~HastyOperator

(* From its claim until both rows say what became of its chunk.            *)
AtWork == Holding \cup {"settling"}

(* Whoever is at work has the claim, unless somebody found the digest      *)
(* already delivered and closed it; nobody else is at work.                *)
Claims ==
    /\ \A a, b \in Attempts : pc[a] \in AtWork /\ pc[b] \in AtWork => a = b
    /\ \A a \in Attempts : pc[a] \in AtWork =>
          \/ claimedBy = a /\ leaseLeft >= 0
          \/ pc[a] = "holding" /\ todo[a] = {}

(* What an attempt read in prepare() is still so: its own answers are the  *)
(* only changes, and the one chunk it works on is the only one open.       *)
Snapshot ==
    /\ \A a \in Attempts : pc[a] \in AtWork \cup {"prepared"} =>
          todo[a] = {c \in Chunks : chunk[c] # "confirmed"}
    /\ \A a \in Attempts :
          pc[a] \in {"prepared", "leased", "started", "sending", "settling"} => todo[a] # {}
    /\ \A a \in Attempts : pc[a] \in {"prepared", "holding", "leased"} =>
          \A c \in Chunks : ~Blocked(c)
    /\ \A a \in Attempts : pc[a] \in {"started", "sending"} =>
          \A c \in Chunks : Blocked(c) => IsCurrent(a, c)
    /\ \A a \in Attempts : pc[a] \in {"started", "sending"} =>
          \A c \in Chunks : IsCurrent(a, c) => chunk[c] = "sending"
    /\ \A a \in Attempts : pc[a] = "allConfirmed" =>
          \A c \in Chunks : chunk[c] = "confirmed"
    /\ op = "complete" => \A c \in Chunks : chunk[c] = "confirmed"

Exclusive == Claims /\ Snapshot

(* The requests for a chunk that may still arrive.                         *)
InFlight(c) == {a \in Attempts : wire[a] = "out" /\ IsCurrent(a, c)}

(* No request for the chunk has left since it was last free to be sent.    *)
Unsent(c) ==
    \/ chunk[c] \in {"pending", "failed"}
    \/ \E a \in Attempts : pc[a] = "started" /\ IsCurrent(a, c)

(* What reached the chat and what still may, against what was allowed.     *)
Permits ==
    /\ \A a \in Attempts : wire[a] # "none" =>
          pc[a] \in {"sending", "settling", "failing", "error", "crashed"}
    /\ \A c \in Chunks :
          /\ IsFiniteSet(InFlight(c))
          /\ copies[c] + Cardinality(InFlight(c)) <= 1 + authorised[c]
          /\ Unsent(c) => copies[c] + Cardinality(InFlight(c)) <= authorised[c]

(* A step of an attempt keeps the claims exclusive and snapshots true.     *)
LEMMA StepKeepsExclusion ==
  ASSUME Calm, TypeOK, Exclusive, NEW a \in Attempts, Undisturbed(a), Step(a)
  PROVE  Exclusive'
<1> USE ChunksAssumption, NoneAssumption, LeaseAssumption
<1> USE DEF Exclusive, Claims, Snapshot, AtWork, Holding, Blocked, IsCurrent
<1> USE DEF TypeOK, ChunkState, Goto, SetChunk, TakeClaim, DropClaim, rows, local, past
<1>0. \A b \in Attempts \ {a} : pc[b] \notin {"prepared", "allConfirmed"}
  BY DEF Calm, Undisturbed
<1>1. CASE Prepare(a)
  BY <1>0, <1>1 DEF Prepare
<1>2. CASE CloseConfirmed(a)
  BY <1>0, <1>2 DEF CloseConfirmed
<1>3. CASE ClaimFirst(a)
  BY <1>0, <1>3 DEF ClaimFirst, Claimable
<1>4. CASE RefreshClaim(a)
  BY <1>0, <1>4 DEF RefreshClaim, RefreshGranted, RefreshRefused, Claimable
<1>5. CASE StartChunk(a)
  <2>1. PICK c \in Chunks : IsCurrent(a, c) /\ chunk' = [chunk EXCEPT ![c] = "sending"]
    BY <1>5 DEF StartChunk
  <2>2. \A d \in Chunks : IsCurrent(a, d) <=> d = c
    BY <2>1 DEF Chunks
  <2>3. \A d \in Chunks : chunk'[d] = "confirmed" <=> chunk[d] = "confirmed"
    BY <1>5, <2>1 DEF StartChunk
  <2>4. \A d \in Chunks : Blocked(d)' <=> d = c
    BY <1>5, <2>1 DEF StartChunk
  <2>5. \A b \in Attempts \ {a} : pc'[b] \notin AtWork \cup {"prepared", "allConfirmed"}
    BY <1>0, <1>5 DEF StartChunk
  <2>6. Claims'
    BY <1>5, <2>5 DEF StartChunk
  <2>7. Snapshot'
    BY <1>5, <2>1, <2>2, <2>3, <2>4, <2>5 DEF StartChunk
  <2> QED
    BY <2>6, <2>7
<1>6. CASE Send(a)
  BY <1>0, <1>6 DEF Send
<1>7. CASE Acknowledged(a)
  <2>1. PICK c \in Chunks :
          /\ IsCurrent(a, c)
          /\ chunk' = [chunk EXCEPT ![c] = "confirmed"]
          /\ todo' = [todo EXCEPT ![a] = @ \ {c}]
    BY <1>7 DEF Acknowledged
  <2>2. \A d \in Chunks : IsCurrent(a, d) <=> d = c
    BY <2>1 DEF Chunks
  <2>3. \A d \in Chunks : ~Blocked(d)'
    BY <1>7, <2>1, <2>2 DEF Acknowledged
  <2>4. todo'[a] = {d \in Chunks : chunk'[d] # "confirmed"}
    BY <1>7, <2>1 DEF Acknowledged
  <2>5. \A b \in Attempts \ {a} : pc'[b] \notin AtWork \cup {"prepared", "allConfirmed"}
    BY <1>0, <1>7 DEF Acknowledged
  <2>6. Claims'
    BY <1>7, <2>5 DEF Acknowledged
  <2>7. Snapshot'
    BY <1>7, <2>1, <2>3, <2>4, <2>5 DEF Acknowledged
  <2> QED
    BY <2>6, <2>7
<1>8. CASE Refused(a)
  BY <1>0, <1>8 DEF Refused
<1>9. CASE Ambiguous(a)
  BY <1>0, <1>9 DEF Ambiguous
<1>10. CASE SettleOperation(a)
  BY <1>0, <1>10 DEF SettleOperation
<1>11. CASE CompleteOperation(a)
  BY <1>0, <1>11 DEF CompleteOperation
<1>12. CASE Release(a)
  BY <1>0, <1>12 DEF Release, DropOwnClaim
<1> QED
  BY <1>1, <1>2, <1>3, <1>4, <1>5, <1>6, <1>7, <1>8, <1>9, <1>10, <1>11,
     <1>12 DEF Step

(* So do the chat, crashes, the operator and the clock.                    *)
LEMMA SurroundingsKeepExclusion ==
  ASSUME Calm, TypeOK, Exclusive,
         \/ \E a \in Attempts : Arrive(a) \/ Crash(a)
         \/ \E c \in Chunks : Reconcile(c)
         \/ Tick
         \/ UNCHANGED vars
  PROVE  Exclusive'
<1> USE ChunksAssumption, NoneAssumption, LeaseAssumption
<1> USE DEF Exclusive, Claims, Snapshot, AtWork, Holding, Blocked, IsCurrent
<1> USE DEF TypeOK, ChunkState, Goto, SetChunk, DropClaim, rows, local, past
<1>1. ASSUME NEW a \in Attempts, Arrive(a) PROVE Exclusive'
  BY <1>1 DEF Arrive
<1>2. ASSUME NEW a \in Attempts, Crash(a) PROVE Exclusive'
  BY <1>2 DEF Crash
<1>3. ASSUME NEW c \in Chunks, Reconcile(c) PROVE Exclusive'
  <2>1. \A a \in Attempts : pc[a] \notin AtWork \cup {"prepared", "allConfirmed"}
    BY <1>3 DEF Calm, Reconcile, ReconcileConfirmed, ReconcileRetry,
                OperatorReady, Alive, Running
  <2> QED
    BY <1>3, <2>1 DEF Reconcile, ReconcileConfirmed, ReconcileRetry
<1>4. CASE Tick
  BY <1>4 DEF Tick, Calm, Alive, Running
<1>5. CASE UNCHANGED vars
  BY <1>5 DEF vars
<1> QED
  BY <1>1, <1>2, <1>3, <1>4, <1>5

(* In calm surroundings every reachable state has both invariants.         *)
THEOREM CalmInvariance ==
  ASSUME Calm
  PROVE  Spec => [](TypeOK /\ Ledger /\ Exclusive)
<1>1. Init => Exclusive
  BY DEF Init, Exclusive, Claims, Snapshot, AtWork, Holding
<1>2. TypeOK /\ Exclusive /\ [Next]_vars => Exclusive'
  BY StepKeepsExclusion, SurroundingsKeepExclusion DEF Next
<1> QED
  BY <1>1, <1>2, TypeInvariant, LedgerHolds, PTL DEF Spec

(* The claim excludes concurrent senders: it is refreshed before every     *)
(* chunk, and whoever is past it read the rows when nobody was sending.    *)
THEOREM SendersExclude == ASSUME Calm PROVE Spec => []SingleSender
<1>1. Exclusive => SingleSender
  BY DEF Exclusive, Claims, SingleSender, AtWork
<1> QED
  BY <1>1, CalmInvariance, PTL

(* A chunk of unknown outcome waits for the operator: a prepare() that     *)
(* sees one gives up, and no attempt that saw none can meet one.           *)
THEOREM AmbiguityWaits == ASSUME Calm PROVE Spec => AmbiguityNeedsOperator
<1> DEFINE Waits == \A c \in Chunks : OutcomeUnknown(c) =>
                      Reconcile(c) \/ (OutcomeUnknown(c)' /\ UNCHANGED chunk[c])
<1>1. TypeOK /\ Exclusive /\ [Next]_vars => [Waits]_vars
  <2> SUFFICES ASSUME TypeOK, Exclusive, Next, NEW c \in Chunks, OutcomeUnknown(c),
                      ~Reconcile(c)
               PROVE  OutcomeUnknown(c)' /\ UNCHANGED chunk[c]
    OBVIOUS
  <2> USE DEF TypeOK, Goto, SetChunk
  <2>1. \A a \in Attempts :
          pc[a] \notin {"prepared", "holding", "leased", "started", "sending"}
    BY DEF Exclusive, Snapshot, Blocked, OutcomeUnknown, SenderAlive
  <2>2. ASSUME chunk'[c] = chunk[c], \A a \in Attempts : pc'[a] \notin {"started", "sending"}
        PROVE  OutcomeUnknown(c)' /\ UNCHANGED chunk[c]
    BY <2>2 DEF OutcomeUnknown, SenderAlive
  <2>3. ASSUME NEW a \in Attempts, Step(a)
        PROVE  chunk'[c] = chunk[c] /\ \A b \in Attempts : pc'[b] \notin {"started", "sending"}
    <3>1. CASE Prepare(a)
      BY <2>1, <3>1 DEF Prepare
    <3>2. CASE CloseConfirmed(a) \/ SettleOperation(a) \/ Release(a)
      BY <2>1, <3>2 DEF CloseConfirmed, SettleOperation, Release
    <3> QED
      BY <2>1, <2>3, <3>1, <3>2 DEF Step, ClaimFirst, RefreshClaim, RefreshGranted,
         RefreshRefused, StartChunk, Send, Acknowledged, Refused, Ambiguous,
         CompleteOperation
  <2>4. ASSUME NEW a \in Attempts, Arrive(a) \/ Crash(a)
        PROVE  chunk'[c] = chunk[c] /\ \A b \in Attempts : pc'[b] \notin {"started", "sending"}
    BY <2>1, <2>4 DEF Arrive, Crash, rows
  <2>5. ASSUME NEW d \in Chunks, Reconcile(d)
        PROVE  chunk'[c] = chunk[c] /\ \A b \in Attempts : pc'[b] \notin {"started", "sending"}
    BY <2>1, <2>5 DEF Reconcile, ReconcileConfirmed, ReconcileRetry, local
  <2>6. CASE Tick
    BY <2>1, <2>2, <2>6 DEF Tick, local
  <2> QED
    BY <2>2, <2>3, <2>4, <2>5, <2>6 DEF Next
<1> QED
  BY <1>1, CalmInvariance, PTL DEF Spec, AmbiguityNeedsOperator

(* Permits for one chunk.                                                  *)
Within(c) ==
    /\ IsFiniteSet(InFlight(c))
    /\ copies[c] + Cardinality(InFlight(c)) <= 1 + authorised[c]
    /\ Unsent(c) => copies[c] + Cardinality(InFlight(c)) <= authorised[c]

(* A step that neither sends nor settles a request of the chunk, and does  *)
(* not free it, keeps it within what is allowed.                           *)
LEMMA UntouchedStaysWithin ==
  ASSUME NEW c \in Chunks, Within(c), InFlight(c)' = InFlight(c),
         copies'[c] = copies[c], authorised'[c] = authorised[c],
         Unsent(c)' => Unsent(c)
  PROVE  Within(c)'
BY DEF Within

(* A step of an attempt sends nothing that was not allowed.                *)
LEMMA StepKeepsPermits ==
  ASSUME TypeOK, Exclusive, Permits, NEW a \in Attempts, Step(a)
  PROVE  Permits'
<1> USE DEF TypeOK, ChunkState, Goto, SetChunk, rows, local, past
<1> DEFINE Placed == \A b \in Attempts : wire[b] # "none" =>
                       pc[b] \in {"sending", "settling", "failing", "error", "crashed"}
<1>0. Placed /\ \A c \in Chunks : Within(c)
  BY DEF Permits, Within
<1>a. SUFFICES Placed' /\ \A c \in Chunks : Within(c)'
  BY DEF Permits, Within
<1>1. CASE Prepare(a)
  <2>1. wire[a] = "none" /\ wire' = wire
    BY <1>0, <1>1 DEF Prepare
  <2>2. \A c \in Chunks : InFlight(c)' = InFlight(c) /\ (Unsent(c)' => Unsent(c))
    BY <1>1, <2>1 DEF Prepare, InFlight, Unsent, IsCurrent
  <2> QED
    BY <1>0, <1>1, <2>1, <2>2, UntouchedStaysWithin DEF Prepare
<1>2. CASE CloseConfirmed(a) \/ ClaimFirst(a) \/ RefreshClaim(a) \/ SettleOperation(a)
        \/ CompleteOperation(a) \/ Release(a)
  <2> USE DEF CloseConfirmed, ClaimFirst, RefreshClaim, RefreshGranted, RefreshRefused,
              SettleOperation, CompleteOperation, Release
  <2>1. Placed'
    BY <1>0, <1>2
  <2>2. \A c \in Chunks : InFlight(c)' = InFlight(c) /\ (Unsent(c)' => Unsent(c))
    BY <1>2 DEF InFlight, Unsent, IsCurrent
  <2>3. UNCHANGED <<copies, authorised>>
    BY <1>2
  <2> QED
    BY <1>0, <2>1, <2>2, <2>3, UntouchedStaysWithin
<1>3. CASE StartChunk(a)
  <2>1. \A c \in Chunks : InFlight(c)' = InFlight(c)
    BY <1>3 DEF StartChunk, InFlight, IsCurrent
  <2>2. \A c \in Chunks : IsCurrent(a, c) => Unsent(c)
    BY <1>3 DEF StartChunk, Unsent, Exclusive, Snapshot, AtWork, Holding, Blocked, IsCurrent
  <2>3. \A c \in Chunks : Unsent(c)' => Unsent(c)
    BY <1>3, <2>2 DEF StartChunk, Unsent, IsCurrent
  <2> QED
    BY <1>0, <1>3, <2>1, <2>3, UntouchedStaysWithin DEF StartChunk
<1>4. CASE Send(a)
  <2>1. wire[a] = "none"
    BY <1>0, <1>4 DEF Send
  <2>2. ASSUME NEW c \in Chunks, IsCurrent(a, c) PROVE Within(c)'
    <3>1. Unsent(c) /\ ~Unsent(c)'
      BY <1>4, <2>2 DEF Send, Unsent, Exclusive, Claims, Snapshot, AtWork, Holding, IsCurrent
    <3>2. InFlight(c)' = InFlight(c) \cup {a} /\ a \notin InFlight(c)
      BY <1>4, <2>1, <2>2 DEF Send, InFlight, IsCurrent
    <3>3. /\ IsFiniteSet(InFlight(c)')
          /\ Cardinality(InFlight(c)') = Cardinality(InFlight(c)) + 1
      BY <1>0, <3>2, FS_AddElement DEF Within
    <3> QED
      BY <1>0, <1>4, <3>1, <3>3, FS_CardinalityType DEF Send, Within
  <2>3. ASSUME NEW c \in Chunks, ~IsCurrent(a, c) PROVE Within(c)'
    <3>1. InFlight(c)' = InFlight(c) /\ (Unsent(c)' => Unsent(c))
      BY <1>4, <2>3 DEF Send, InFlight, Unsent, IsCurrent
    <3> QED
      BY <1>0, <1>4, <3>1, UntouchedStaysWithin DEF Send
  <2> QED
    BY <1>0, <1>4, <2>2, <2>3 DEF Send
<1>5. CASE Acknowledged(a)
  <2>1. \A c \in Chunks : InFlight(c)' = InFlight(c) /\ (Unsent(c)' => Unsent(c))
    BY <1>5 DEF Acknowledged, Proven, InFlight, Unsent, IsCurrent
  <2> QED
    BY <1>0, <1>5, <2>1, UntouchedStaysWithin DEF Acknowledged
<1>6. CASE Refused(a)
  <2>1. PICK c \in Chunks : IsCurrent(a, c) /\ chunk' = [chunk EXCEPT ![c] = "failed"]
    BY <1>6 DEF Refused
  <2>2. Within(c)'
    <3>1. InFlight(c)' = InFlight(c) \ {a} /\ a \in InFlight(c)
      BY <1>6, <2>1 DEF Refused, InFlight, IsCurrent
    <3>2. /\ IsFiniteSet(InFlight(c)')
          /\ Cardinality(InFlight(c)') = Cardinality(InFlight(c)) - 1
      BY <1>0, <3>1, FS_RemoveElement DEF Within
    <3> QED
      BY <1>0, <1>6, <3>2, FS_CardinalityType DEF Refused, Within
  <2>3. ASSUME NEW d \in Chunks, d # c PROVE Within(d)'
    <3>1. ~IsCurrent(a, d)
      BY <2>1, <2>3 DEF IsCurrent, Chunks
    <3>2. InFlight(d)' = InFlight(d) /\ (Unsent(d)' => Unsent(d))
      BY <1>6, <2>1, <2>3, <3>1 DEF Refused, InFlight, Unsent, IsCurrent
    <3> QED
      BY <1>0, <1>6, <3>2, UntouchedStaysWithin DEF Refused
  <2> QED
    BY <1>0, <1>6, <2>2, <2>3 DEF Refused
<1>7. CASE Ambiguous(a)
  <2>1. \A c \in Chunks : InFlight(c)' = InFlight(c) /\ (Unsent(c)' => Unsent(c))
    BY <1>7 DEF Ambiguous, InFlight, Unsent, IsCurrent
  <2> QED
    BY <1>0, <1>7, <2>1, UntouchedStaysWithin DEF Ambiguous
<1> QED
  BY <1>1, <1>2, <1>3, <1>4, <1>5, <1>6, <1>7 DEF Step

(* A request that arrives was allowed, and the operator allows one more    *)
(* for every retry.                                                        *)
LEMMA SurroundingsKeepPermits ==
  ASSUME TypeOK, Permits,
         \/ \E a \in Attempts : Arrive(a) \/ Crash(a)
         \/ \E c \in Chunks : Reconcile(c)
         \/ Tick
         \/ UNCHANGED vars
  PROVE  Permits'
<1> USE DEF TypeOK, ChunkState, Goto, SetChunk, rows, local, past
<1> DEFINE Placed == \A b \in Attempts : wire[b] # "none" =>
                       pc[b] \in {"sending", "settling", "failing", "error", "crashed"}
<1>0. Placed /\ \A c \in Chunks : Within(c)
  BY DEF Permits, Within
<1>a. SUFFICES Placed' /\ \A c \in Chunks : Within(c)'
  BY DEF Permits, Within
<1>1. ASSUME NEW a \in Attempts, Arrive(a) PROVE Placed' /\ \A c \in Chunks : Within(c)'
  <2>1. PICK c \in Chunks : IsCurrent(a, c) /\ copies' = [copies EXCEPT ![c] = @ + 1]
    BY <1>1 DEF Arrive
  <2>2. Within(c)'
    <3>1. InFlight(c)' = InFlight(c) \ {a} /\ a \in InFlight(c)
      BY <1>1, <2>1 DEF Arrive, InFlight, IsCurrent
    <3>2. /\ IsFiniteSet(InFlight(c)')
          /\ Cardinality(InFlight(c)') = Cardinality(InFlight(c)) - 1
      BY <1>0, <3>1, FS_RemoveElement DEF Within
    <3>3. copies'[c] = copies[c] + 1 /\ (Unsent(c)' <=> Unsent(c))
      BY <1>1, <2>1 DEF Arrive, Unsent, IsCurrent
    <3> QED
      BY <1>0, <1>1, <3>2, <3>3, FS_CardinalityType, SMTT(30) DEF Arrive, Within
  <2>3. ASSUME NEW d \in Chunks, d # c PROVE Within(d)'
    <3>1. ~IsCurrent(a, d)
      BY <2>1, <2>3 DEF IsCurrent, Chunks
    <3>2. InFlight(d)' = InFlight(d) /\ (Unsent(d)' => Unsent(d))
      BY <1>1, <3>1 DEF Arrive, InFlight, Unsent, IsCurrent
    <3> QED
      BY <1>0, <1>1, <2>1, <2>3, <3>2, UntouchedStaysWithin DEF Arrive
  <2> QED
    BY <1>0, <1>1, <2>2, <2>3 DEF Arrive
<1>2. ASSUME NEW a \in Attempts, Crash(a) PROVE Placed' /\ \A c \in Chunks : Within(c)'
  <2>1. \A c \in Chunks : InFlight(c)' = InFlight(c) /\ (Unsent(c)' => Unsent(c))
    BY <1>2 DEF Crash, InFlight, Unsent, IsCurrent
  <2> QED
    BY <1>0, <1>2, <2>1, UntouchedStaysWithin DEF Crash
<1>3. ASSUME NEW c \in Chunks, Reconcile(c) PROVE Placed' /\ \A d \in Chunks : Within(d)'
  <2> USE DEF Reconcile, ReconcileConfirmed, ReconcileRetry
  <2>1. \A d \in Chunks : InFlight(d)' = InFlight(d)
    BY <1>3 DEF InFlight, IsCurrent
  <2>2. CASE ReconcileConfirmed(c)
    <3>1. \A d \in Chunks : Unsent(d)' => Unsent(d)
      BY <2>2 DEF Unsent, IsCurrent
    <3> QED
      BY <1>0, <2>1, <2>2, <3>1, UntouchedStaysWithin
  <2>3. CASE ReconcileRetry(c)
    <3>1. \A d \in Chunks \ {c} : Unsent(d)' => Unsent(d)
      BY <2>3 DEF Unsent, IsCurrent
    <3>2. \A d \in Chunks \ {c} : Within(d)'
      BY <1>0, <2>1, <2>3, <3>1, UntouchedStaysWithin
    <3>3. Within(c)'
      BY <1>0, <2>1, <2>3, FS_CardinalityType DEF Within
    <3> QED
      BY <1>0, <2>3, <3>2, <3>3
  <2> QED
    BY <1>3, <2>2, <2>3
<1>4. CASE Tick
  <2>1. \A c \in Chunks : InFlight(c)' = InFlight(c) /\ (Unsent(c)' => Unsent(c))
    BY <1>4 DEF Tick, InFlight, Unsent, IsCurrent
  <2> QED
    BY <1>0, <1>4, <2>1, UntouchedStaysWithin DEF Tick
<1>5. CASE UNCHANGED vars
  <2>1. \A c \in Chunks : InFlight(c)' = InFlight(c) /\ (Unsent(c)' => Unsent(c))
    BY <1>5 DEF vars, InFlight, Unsent, IsCurrent
  <2> QED
    BY <1>0, <1>5, <2>1, UntouchedStaysWithin DEF vars
<1> QED
  BY <1>1, <1>2, <1>3, <1>4, <1>5

(* In calm surroundings what was sent stays within what was allowed.       *)
LEMMA PermitsHold == ASSUME Calm PROVE Spec => []Permits
<1>1. Init => Permits
  <2> SUFFICES ASSUME Init PROVE Permits
    OBVIOUS
  <2>1. \A c \in Chunks : InFlight(c) = {}
    BY DEF Init, InFlight
  <2> QED
    BY <2>1, FS_EmptySet DEF Init, Permits
<1>2. TypeOK /\ Exclusive /\ Permits /\ [Next]_vars => Permits'
  BY StepKeepsPermits, SurroundingsKeepPermits DEF Next
<1> QED
  BY <1>1, <1>2, CalmInvariance, PTL DEF Spec

(* docs/adr/048 in calm surroundings: a chunk reaches the chat once, plus  *)
(* once for each retry the operator authorised.                            *)
THEOREM OncePerPermit == ASSUME Calm PROVE Spec => []NoDuplicate
<1>1. TypeOK /\ Permits => NoDuplicate
  <2> SUFFICES ASSUME TypeOK, Permits, NEW c \in Chunks
               PROVE  copies[c] <= 1 + authorised[c]
    BY DEF NoDuplicate
  <2>1. Cardinality(InFlight(c)) \in Nat
    BY FS_CardinalityType DEF Permits
  <2> QED
    BY <2>1 DEF TypeOK, Permits
<1> QED
  BY <1>1, TypeInvariant, PermitsHold, PTL

(* Every step of the delivery is one the digest promises, or none of its   *)
(* business.                                                               *)
LEMMA StepIsDigestStep ==
  ASSUME TypeOK, Ledger, Exclusive, Permits, Next
  PROVE  [Digest!Next]_Digest!vars
<1> USE DEF TypeOK, Goto, SetChunk, TakeClaim, DropClaim, rows, local, past, Digest!vars
<1>0. (\A c \in Chunks : chunk[c] = "confirmed") => \A c \in Chunks : Digest!Accounted(c)
  BY DEF Ledger, Accounted, Digest!Accounted
<1>1. ASSUME NEW a \in Attempts, Step(a), UNCHANGED past,
             (op' = "complete") <=> (op = "complete")
      PROVE  UNCHANGED Digest!vars
  BY <1>1
<1>2. ASSUME NEW a \in Attempts, Step(a) PROVE [Digest!Next]_Digest!vars
  <2>1. CASE CloseConfirmed(a) \/ CompleteOperation(a)
    <3>1. \A c \in Chunks : chunk[c] = "confirmed"
      BY <2>1 DEF CloseConfirmed, CompleteOperation, Exclusive, Snapshot, AtWork, Holding
    <3> QED
      BY <1>0, <2>1, <3>1 DEF CloseConfirmed, CompleteOperation, Digest!Next, Digest!Complete
  <2>2. CASE Prepare(a) \/ ClaimFirst(a) \/ RefreshClaim(a)
    BY <1>1, <1>2, <2>2 DEF Prepare, ClaimFirst, RefreshClaim, RefreshGranted,
                            RefreshRefused, Claimable
  <2>3. CASE StartChunk(a) \/ Acknowledged(a) \/ Refused(a) \/ Ambiguous(a) \/ Release(a)
    BY <1>1, <1>2, <2>3 DEF StartChunk, Acknowledged, Refused, Ambiguous, Release
  <2>4. CASE Send(a) \/ SettleOperation(a)
    <3>1. op # "complete"
      BY <2>4 DEF Send, SettleOperation, Exclusive, Snapshot, AtWork, Holding
    <3> QED
      BY <1>1, <1>2, <2>4, <3>1 DEF Send, SettleOperation
  <2> QED
    BY <1>2, <2>1, <2>2, <2>3, <2>4 DEF Step
<1>3. ASSUME NEW a \in Attempts, Arrive(a) PROVE Digest!Next
  <2>1. PICK c \in Chunks : IsCurrent(a, c) /\ copies' = [copies EXCEPT ![c] = @ + 1]
    BY <1>3 DEF Arrive
  <2>2. a \in InFlight(c)
    BY <1>3, <2>1 DEF Arrive, InFlight
  <2>3. IsFiniteSet(InFlight(c)) /\ Cardinality(InFlight(c)) # 0
    BY <2>2, FS_EmptySet DEF Permits
  <2>4. copies[c] < 1 + authorised[c]
    BY <2>3, FS_CardinalityType DEF Permits
  <2>5. Digest!Arrive(c)
    BY <1>3, <2>1, <2>4 DEF Arrive, Digest!Arrive
  <2> QED
    BY <2>5 DEF Digest!Next
<1>4. ASSUME NEW a \in Attempts, Crash(a) PROVE UNCHANGED Digest!vars
  BY <1>4 DEF Crash
<1>5. ASSUME NEW c \in Chunks, Reconcile(c) PROVE Digest!Next
  <2>1. op # "complete"
    BY <1>5 DEF Reconcile, ReconcileConfirmed, ReconcileRetry, Exclusive, Snapshot, Blocked
  <2>2. CASE ReconcileConfirmed(c)
    <3>1. (\A d \in Chunks \ {c} : chunk[d] = "confirmed")
             => \A d \in Chunks \ {c} : Digest!Accounted(d)
      BY DEF Ledger, Accounted, Digest!Accounted
    <3>2. Digest!Vouch(c)
      BY <2>1, <2>2, <3>1 DEF ReconcileConfirmed, Digest!Vouch
    <3> QED
      BY <3>2 DEF Digest!Next
  <2>3. CASE ReconcileRetry(c)
    <3>1. Digest!Authorise(c)
      BY <2>1, <2>3 DEF ReconcileRetry, Digest!Authorise
    <3> QED
      BY <3>1 DEF Digest!Next
  <2> QED
    BY <1>5, <2>2, <2>3 DEF Reconcile
<1>6. CASE Tick
  BY <1>6 DEF Tick
<1> QED
  BY <1>2, <1>3, <1>4, <1>5, <1>6 DEF Next

(* The rows, claims and requests of a calm delivery implement the promise  *)
(* of DigestDelivery: nothing in the chat without a permit, complete only  *)
(* with every chunk accounted for, and complete for good.                  *)
THEOREM DeliveryKeepsItsPromise == ASSUME Calm PROVE Spec => ImplementsDigest
<1>1. Init => Digest!Init
  BY DEF Init, Digest!Init
<1>2. TypeOK /\ Ledger /\ Exclusive /\ Permits /\ [Next]_vars => [Digest!Next]_Digest!vars
  <2>1. UNCHANGED vars => UNCHANGED Digest!vars
    BY DEF vars, rows, local, past, Digest!vars
  <2> QED
    BY <2>1, StepIsDigestStep
<1> QED
  BY <1>1, <1>2, CalmInvariance, PermitsHold, PTL DEF Spec, ImplementsDigest, Digest!Spec
=============================================================================
