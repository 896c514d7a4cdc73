------------------------- MODULE DeliveryCheckpoint -------------------------
(***************************************************************************)
(* Checkpointed delivery of one rendered digest: the delivery_operations   *)
(* row and its delivery_chunks rows (DeliveryOperationsRepository), and    *)
(* the attempts that send it (TelegramNotifier.notify).                    *)
(*                                                                         *)
(* Every attempt is one call of notify(), with its own owner uuid, in any  *)
(* of the processes that share the SQLite file: the server, or an `argos   *)
(* deliver` started by hand.  A step is one SQL statement or transaction   *)
(* of an attempt, so statements of different processes interleave; the     *)
(* request an attempt has sent travels on its own, may arrive after the    *)
(* attempt gave up or crashed, and may arrive with the answer lost.        *)
(*                                                                         *)
(* Three constants say how hostile the surroundings are:                   *)
(*   Preemptible    another process may run between notify's prepare()     *)
(*                  and its first claim(), which the code does not guard;  *)
(*   Suspendable    a running attempt may be stopped (host asleep) past    *)
(*                  the end of its lease;                                  *)
(*   HastyOperator  `argos reconcile-delivery` may be used while an        *)
(*                  attempt is still running.                              *)
(***************************************************************************)
EXTENDS Integers

CONSTANTS
    Attempts,       \* calls of notify() for this digest
    NumChunks,      \* chunks the rendered digest is cut into
    None,           \* no owner
    Lease,          \* deliveryLeaseMs, in ticks
    MaxRetries,     \* bound: retries the operator authorises per chunk
    Preemptible, Suspendable, HastyOperator

Chunks == 1 .. NumChunks

ASSUME ChunksAssumption == NumChunks \in Nat \ {0}
ASSUME NoneAssumption == None \notin Attempts
ASSUME LeaseAssumption == Lease \in Nat
ASSUME RetriesAssumption == MaxRetries \in Nat
ASSUME SurroundingsAssumption ==
    /\ Preemptible \in BOOLEAN
    /\ Suspendable \in BOOLEAN
    /\ HastyOperator \in BOOLEAN

VARIABLES
    chunk,       \* [Chunks -> ChunkState]: delivery_chunks.status
    op,          \* delivery_operations.status, "absent" before the insert
    claimedBy,   \* delivery_operations.claimed_by
    leaseLeft,   \* claim_expires_at - now; -1 once the claim has expired
    pc,          \* [Attempts -> Stage]: where each attempt stands
    todo,        \* [Attempts -> SUBSET Chunks]: its prepared chunks still to send
    wire,        \* [Attempts -> Request]: the request it has in flight
    copies,      \* history: messages of each chunk that reached the chat
    authorised,  \* history: retries the operator authorised
    vouched      \* history: chunks the operator reconciled as confirmed

rows  == <<chunk, op, claimedBy, leaseLeft>>
local == <<pc, todo, wire>>
past  == <<copies, authorised, vouched>>
vars  == <<rows, local, past>>

ChunkState == {"pending", "sending", "failed", "uncertain", "confirmed"}
OpStatus   == {"absent", "pending", "in_progress", "failed", "complete"}
Request    == {"none", "out", "arrived"}

Holding  == {"holding", "leased", "started", "sending"}
Running  == Holding \cup {"prepared", "settling", "failing", "completed"}
Stage    == Running \cup {"idle", "allConfirmed", "ok", "error", "crashed"}
Alive(a) == pc[a] \in Running \cup {"allConfirmed"}

(* Mutations of Blocked: a send cut short by a crash, or an ambiguous      *)
(* answer, forgotten by the next attempt.                                  *)
BlockedIfUncertain(c) == chunk[c] = "uncertain"
BlockedIfSending(c)   == chunk[c] = "sending"

Blocked(c) == chunk[c] \in {"sending", "uncertain"}

(* The chunk an attempt is working on: the first it has not confirmed.     *)
IsCurrent(a, c) == c \in todo[a] /\ \A d \in todo[a] : c <= d

TypeOK ==
    /\ chunk \in [Chunks -> ChunkState]
    /\ op \in OpStatus
    /\ claimedBy \in Attempts \cup {None}
    /\ leaseLeft \in -1 .. Lease
    /\ pc \in [Attempts -> Stage]
    /\ todo \in [Attempts -> SUBSET Chunks]
    /\ wire \in [Attempts -> Request]
    /\ copies \in [Chunks -> Nat]
    /\ authorised \in [Chunks -> 0 .. MaxRetries]
    /\ vouched \subseteq Chunks

Init ==
    /\ chunk = [c \in Chunks |-> "pending"]
    /\ op = "absent"
    /\ claimedBy = None
    /\ leaseLeft = -1
    /\ pc = [a \in Attempts |-> "idle"]
    /\ todo = [a \in Attempts |-> {}]
    /\ wire = [a \in Attempts |-> "none"]
    /\ copies = [c \in Chunks |-> 0]
    /\ authorised = [c \in Chunks |-> 0]
    /\ vouched = {}

Goto(a, stage) == pc' = [pc EXCEPT ![a] = stage]

-----------------------------------------------------------------------------
(* The repository's writes.                                                *)

(* Mutations of Claimable: the owner is not looked at; an expired claim    *)
(* is never given up.                                                      *)
ClaimableByAnyone(a) == op # "complete" /\ a \in Attempts
ClaimableIfFree(a)   == op # "complete" /\ claimedBy \in {None, a}

Claimable(a) ==
    /\ op # "complete"
    /\ claimedBy \in {None, a} \/ leaseLeft < 0

TakeClaim(a) ==
    /\ claimedBy' = a
    /\ leaseLeft' = Lease
    /\ op' = "in_progress"

SetChunk(c, state) == chunk' = [chunk EXCEPT ![c] = state]

DropClaim ==
    /\ claimedBy' = None
    /\ leaseLeft' = -1

(* Mutation of DropOwnClaim: no release() on the way out.                  *)
KeepClaim(a) == a \in Attempts /\ UNCHANGED <<claimedBy, leaseLeft>>

(* release(): only the owner's own claim.                                  *)
DropOwnClaim(a) ==
    IF claimedBy = a THEN DropClaim ELSE UNCHANGED <<claimedBy, leaseLeft>>

-----------------------------------------------------------------------------
(* One call of notify().                                                   *)

(* prepare(): insert what is absent, read every chunk, decide.             *)
Prepare(a) ==
    /\ pc[a] = "idle"
    /\ op' = IF op = "absent" THEN "pending" ELSE op
    /\ todo' = [todo EXCEPT ![a] = {c \in Chunks : chunk[c] # "confirmed"}]
    /\ \/ /\ todo'[a] = {}
          /\ Goto(a, "allConfirmed")
       \/ /\ \E c \in Chunks : Blocked(c)
          /\ Goto(a, "error")
       \/ /\ todo'[a] # {}
          /\ \A c \in Chunks : ~Blocked(c)
          /\ Goto(a, "prepared")
    /\ UNCHANGED <<chunk, claimedBy, leaseLeft, wire, past>>

(* Everything was confirmed already: complete() repairs a lost last write. *)
CloseConfirmed(a) ==
    /\ pc[a] = "allConfirmed"
    /\ op' = "complete"
    /\ DropClaim
    /\ Goto(a, "ok")
    /\ UNCHANGED <<chunk, todo, wire, past>>

ClaimFirst(a) ==
    /\ pc[a] = "prepared"
    /\ \/ /\ Claimable(a)
          /\ TakeClaim(a)
          /\ Goto(a, "holding")
       \/ /\ ~Claimable(a)
          /\ Goto(a, "error")
          /\ UNCHANGED <<op, claimedBy, leaseLeft>>
    /\ UNCHANGED <<chunk, todo, wire, past>>

(* After the pacing sleep: the same claim() again, before every chunk.     *)
RefreshGranted(a) ==
    /\ pc[a] = "holding"
    /\ todo[a] # {}
    /\ Claimable(a)
    /\ TakeClaim(a)
    /\ Goto(a, "leased")
    /\ UNCHANGED <<chunk, todo, wire, past>>

RefreshRefused(a) ==
    /\ pc[a] = "holding"
    /\ todo[a] # {}
    /\ ~Claimable(a)
    /\ Goto(a, "failing")
    /\ UNCHANGED <<rows, todo, wire, past>>

(* RefreshGranted alone is the mutation that waits for a lost claim.       *)
RefreshClaim(a) == RefreshGranted(a) \/ RefreshRefused(a)

StartChunk(a) ==
    /\ pc[a] = "leased"
    /\ \E c \in Chunks : IsCurrent(a, c) /\ SetChunk(c, "sending")
    /\ Goto(a, "started")
    /\ UNCHANGED <<op, claimedBy, leaseLeft, todo, wire, past>>

(* startChunk's second statement, and the request leaves the process.      *)
Send(a) ==
    /\ pc[a] = "started"
    /\ op' = "in_progress"
    /\ wire' = [wire EXCEPT ![a] = "out"]
    /\ Goto(a, "sending")
    /\ UNCHANGED <<chunk, claimedBy, leaseLeft, todo, past>>

(* The chat accepts the message, whether or not the sender still waits.    *)
Arrive(a) ==
    /\ wire[a] = "out"
    /\ wire' = [wire EXCEPT ![a] = "arrived"]
    /\ \E c \in Chunks : IsCurrent(a, c) /\ copies' = [copies EXCEPT ![c] = @ + 1]
    /\ UNCHANGED <<rows, pc, todo, authorised, vouched>>

(* Mutation of Proven: any answer to a request counts as delivery.         *)
AnyAnswer(a) == wire[a] # "none"

(* ok:true and an integer message_id in the answer prove the delivery.     *)
Proven(a) == wire[a] = "arrived"

(* confirmChunk().                                                         *)
Acknowledged(a) ==
    /\ pc[a] = "sending"
    /\ Proven(a)
    /\ \E c \in Chunks :
          /\ IsCurrent(a, c)
          /\ SetChunk(c, "confirmed")
          /\ todo' = [todo EXCEPT ![a] = @ \ {c}]
    /\ wire' = [wire EXCEPT ![a] = "none"]
    /\ Goto(a, "holding")
    /\ UNCHANGED <<op, claimedBy, leaseLeft, past>>

(* A definite refusal (4xx, 429 to the last retry, a connection that never *)
(* opened): nothing arrived, failChunk() makes the chunk sendable again.   *)
Refused(a) ==
    /\ pc[a] = "sending"
    /\ wire[a] = "out"
    /\ \E c \in Chunks : IsCurrent(a, c) /\ SetChunk(c, "failed")
    /\ wire' = [wire EXCEPT ![a] = "none"]
    /\ Goto(a, "settling")
    /\ UNCHANGED <<op, claimedBy, leaseLeft, todo, past>>

(* A timeout, a 5xx, a broken connection or a malformed answer: the        *)
(* message may have arrived or may still arrive.  markChunkUncertain().    *)
Ambiguous(a) ==
    /\ pc[a] = "sending"
    /\ \E c \in Chunks : IsCurrent(a, c) /\ SetChunk(c, "uncertain")
    /\ Goto(a, "settling")
    /\ UNCHANGED <<op, claimedBy, leaseLeft, todo, wire, past>>

(* The second statement of failChunk() and markChunkUncertain().           *)
SettleOperation(a) ==
    /\ pc[a] = "settling"
    /\ op' = "failed"
    /\ Goto(a, "failing")
    /\ UNCHANGED <<chunk, claimedBy, leaseLeft, todo, wire, past>>

CompleteOperation(a) ==
    /\ pc[a] = "holding"
    /\ todo[a] = {}
    /\ op' = "complete"
    /\ DropClaim
    /\ Goto(a, "completed")
    /\ UNCHANGED <<chunk, todo, wire, past>>

(* The finally block.                                                      *)
Release(a) ==
    /\ \/ pc[a] = "failing" /\ Goto(a, "error")
       \/ pc[a] = "completed" /\ Goto(a, "ok")
    /\ DropOwnClaim(a)
    /\ UNCHANGED <<chunk, op, todo, wire, past>>

Crash(a) ==
    /\ Alive(a)
    /\ Goto(a, "crashed")
    /\ UNCHANGED <<rows, todo, wire, past>>

-----------------------------------------------------------------------------
(* The operator and the clock.                                             *)

OperatorReady == HastyOperator \/ \A a \in Attempts : ~Alive(a)

ReconcileConfirmed(c) ==
    /\ OperatorReady
    /\ Blocked(c)
    /\ SetChunk(c, "confirmed")
    /\ op' = IF \A d \in Chunks \ {c} : chunk[d] = "confirmed"
             THEN "complete" ELSE "pending"
    /\ DropClaim
    /\ vouched' = vouched \cup {c}
    /\ UNCHANGED <<local, copies, authorised>>

ReconcileRetry(c) ==
    /\ OperatorReady
    /\ Blocked(c)
    /\ authorised[c] < MaxRetries
    /\ SetChunk(c, "pending")
    /\ op' = "pending"
    /\ DropClaim
    /\ authorised' = [authorised EXCEPT ![c] = @ + 1]
    /\ UNCHANGED <<local, copies, vouched>>

(* Time passes.  Unless Suspendable, a running owner refreshes its claim   *)
(* before it runs out: pacing, timeouts and retries add up to far less     *)
(* than the half hour of a lease.                                          *)
Tick ==
    /\ claimedBy # None
    /\ leaseLeft >= 0
    /\ Suspendable \/ leaseLeft > 0 \/ ~Alive(claimedBy)
    /\ leaseLeft' = leaseLeft - 1
    /\ UNCHANGED <<chunk, op, claimedBy, local, past>>

-----------------------------------------------------------------------------
(* Unless Preemptible, nobody writes between an attempt's prepare() and    *)
(* its first claim() (or, everything confirmed, its complete()).           *)
Undisturbed(a) ==
    Preemptible \/ \A b \in Attempts \ {a} : pc[b] \notin {"prepared", "allConfirmed"}

Step(a) ==
    \/ Prepare(a) \/ CloseConfirmed(a) \/ ClaimFirst(a) \/ RefreshClaim(a)
    \/ StartChunk(a) \/ Send(a) \/ Acknowledged(a) \/ Refused(a) \/ Ambiguous(a)
    \/ SettleOperation(a) \/ CompleteOperation(a) \/ Release(a)

Reconcile(c) == ReconcileConfirmed(c) \/ ReconcileRetry(c)

Next ==
    \/ \E a \in Attempts : Undisturbed(a) /\ Step(a)
    \/ \E a \in Attempts : Arrive(a) \/ Crash(a)
    \/ \E c \in Chunks : (\A a \in Attempts : Undisturbed(a)) /\ Reconcile(c)
    \/ Tick

(* A running attempt keeps running and time keeps passing.  Nothing says   *)
(* that a request arrives, that an attempt starts or that anybody          *)
(* reconciles.                                                             *)
Spec == Init /\ [][Next]_vars

FairSpec ==
    /\ Spec
    /\ WF_vars(Tick)
    /\ \A a \in Attempts : WF_vars(pc[a] # "idle" /\ Undisturbed(a) /\ Step(a))

-----------------------------------------------------------------------------
(* Properties.                                                             *)

Accounted(c) == copies[c] > 0 \/ c \in vouched
AllAccounted == \A c \in Chunks : Accounted(c)

(* Nothing is recorded as delivered that was not: a confirmed chunk, a     *)
(* complete operation and an attempt that answered ok (on which the        *)
(* pipeline marks postings as notified) each mean that every chunk they    *)
(* speak of reached the chat, or that the operator said so.                *)
NothingLost ==
    /\ \A c \in Chunks : chunk[c] = "confirmed" => Accounted(c)
    /\ op = "complete" => AllAccounted
    /\ \A a \in Attempts : pc[a] = "ok" => AllAccounted

(* The claim excludes concurrent senders in calm surroundings: two         *)
(* attempts are never past claim() at the same time.                       *)
SingleSender ==
    \A a, b \in Attempts :
        pc[a] \in Holding /\ pc[b] \in Holding => a = b

(* docs/adr/048: a chunk reaches the chat once, plus once for each retry   *)
(* the operator authorised.                                                *)
NoDuplicate == \A c \in Chunks : copies[c] <= 1 + authorised[c]

(* What the delivery promises, as the abstract specification.              *)
Digest == INSTANCE DigestDelivery WITH complete <- op = "complete"
ImplementsDigest == Digest!Spec

(* What became of the chunk is unknown, and no attempt is sending it: its  *)
(* answer was ambiguous, or its sender died before it recorded one.        *)
SenderAlive(c) ==
    \E a \in Attempts : pc[a] \in {"started", "sending"} /\ IsCurrent(a, c)
OutcomeUnknown(c) ==
    \/ chunk[c] = "uncertain"
    \/ chunk[c] = "sending" /\ ~SenderAlive(c)

(* An ambiguous or interrupted chunk waits for the operator: only a        *)
(* reconciliation changes its row or lets an attempt send it again.        *)
AmbiguityNeedsOperator ==
    [][ \A c \in Chunks : OutcomeUnknown(c) =>
          Reconcile(c) \/ (OutcomeUnknown(c)' /\ UNCHANGED chunk[c]) ]_vars

(* Every attempt that starts returns or crashes, whatever the others do,   *)
(* and one that returned has left no claim, on which the next run would    *)
(* wait for the length of a lease.                                         *)
EveryAttemptEnds ==
    \A a \in Attempts :
        Alive(a) ~> ~Alive(a) /\ (claimedBy = a => pc[a] = "crashed")

(* The claim of a crashed attempt does not lock the digest out: it becomes *)
(* anybody's, unless the operation was completed or taken over before.     *)
DeadClaimExpires ==
    \A a \in Attempts :
        claimedBy = a /\ pc[a] = "crashed"
            ~> \/ claimedBy # a
               \/ op = "complete"
               \/ \A b \in Attempts : Claimable(b)
=============================================================================
