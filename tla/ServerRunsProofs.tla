-------------------------- MODULE ServerRunsProofs --------------------------
(***************************************************************************)
(* Facts of the server's handlers, for any number of them, any conditions  *)
(* to alert about and any limits of the queue: the run lock is held by     *)
(* exactly the handlers inside a section, a request for cancellation       *)
(* reaches the run it was made for, and the queue of alerts loses, repeats *)
(* and reorders nothing.                                                   *)
(***************************************************************************)
EXTENDS ServerRuns, SequenceTheorems, TLAPS

JobRecord == [pc : PCs, tick : BOOLEAN, held : Kinds \cup {"none"}, row : Rows,
              asked : BOOLEAN, caught : BOOLEAN, todo : Seq(Listed), alerts : Seq(Keys)]

-----------------------------------------------------------------------------
(* The lock.                                                               *)

(* Where a handler holds nothing, and where only a delivery holds its lock. *)
Stations ==
    \A j \in Jobs :
       /\ job[j].pc \in {"idle", "dedupNext", "backup"} => job[j].held = "none"
       /\ job[j].pc = "alerts" => job[j].held \in {"none", "deliver"}

Held ==
    /\ active \in SUBSET Kinds
    /\ \A kind \in Kinds : kind \in active <=> \E j \in Jobs : job[j].held = kind
    /\ \A i, j \in Jobs : job[i].held = job[j].held /\ job[i].held # "none" => i = j

Requests == CancelReachesItsRun /\ cancel \in SUBSET {"deliver"}

LockInv == ServerTypeOK /\ Stations /\ Held /\ Requests

-----------------------------------------------------------------------------
(* The queue.                                                              *)

NoRepeats == \A a, b \in DOMAIN queue : queue[a] = queue[b] => a = b

(* Somebody's listing has the watched alert in row n.                      *)
Has(j, n) == n \in DOMAIN job[j].todo /\ job[j].todo[n].key = Watched

(* While a single redelivery has the watched alert in hand, its row stands;*)
(* after it, nobody has it and it is not queued.                           *)
InOneHand ==
    /\ told = "once" => Watched \notin Queued /\ \A j \in Jobs : \A n \in Nat : ~Has(j, n)
    /\ told = "no" =>
          /\ \A i, j \in Jobs : \A m, n \in Nat : Has(i, m) /\ Has(j, n) => i = j /\ m = n
          /\ \A j \in Jobs : \A n \in Nat :
                Has(j, n) => job[j].todo[n].live /\ Watched \in Queued
    /\ told # "again"

QueueInv == ServerTypeOK /\ NoRepeats /\ InOneHand

Inv == LockInv /\ QueueInv

-----------------------------------------------------------------------------
(* What becomes of the lock.                                               *)

(* What the lock depends on of a handler is as it was.                     *)
Kept(i) == /\ job'[i].pc = job[i].pc /\ job'[i].held = job[i].held
           /\ job'[i].row = job[i].row /\ job'[i].asked = job[i].asked

(* Handler j, wherever it is now, may be there.                            *)
WellPlaced(j) ==
    /\ job'[j].pc \in {"idle", "dedupNext", "backup"} => job'[j].held = "none"
    /\ job'[j].pc = "alerts" => job'[j].held \in {"none", "deliver"}
    /\ job'[j].row = "cancelled" => job'[j].asked

LEMMA Placed ==
    ASSUME LockInv, NEW j \in Jobs, WellPlaced(j), \A i \in Jobs \ {j} : Kept(i)
    PROVE  Stations' /\ \A i \in Jobs : job'[i].row = "cancelled" => job'[i].asked
  <1>1. \A i \in Jobs \ {j} : Kept(i) /\ (job[i].row = "cancelled" => job[i].asked)
    BY DEF LockInv, Requests, CancelReachesItsRun
  <1> QED
    BY <1>1 DEF LockInv, Stations, WellPlaced, Kept

LEMMA Stays ==
    ASSUME LockInv, NEW j \in Jobs, WellPlaced(j), \A i \in Jobs \ {j} : Kept(i),
           UNCHANGED lockVars, job'[j].held = job[j].held,
           job[j].held = "deliver" /\ job[j].asked => job'[j].asked
    PROVE  Stations' /\ Held' /\ Requests'
  <1>1. Stations' /\ \A i \in Jobs : job'[i].row = "cancelled" => job'[i].asked
    BY Placed
  <1>2. \A i \in Jobs : job'[i].held = job[i].held
    BY DEF Kept
  <1>3. Held'
    BY <1>2 DEF LockInv, Held, lockVars
  <1>4. cancel' # {} => \E i \in Jobs : job'[i].held = "deliver" /\ job'[i].asked
    BY <1>2 DEF LockInv, Requests, CancelReachesItsRun, lockVars, Kept
  <1> QED
    BY <1>1, <1>3, <1>4 DEF LockInv, Requests, CancelReachesItsRun, lockVars

LEMMA Enters ==
    ASSUME LockInv, NEW j \in Jobs, NEW kind \in Kinds, TryAcquire(kind), job[j].held = "none",
           job'[j].held = kind, WellPlaced(j), \A i \in Jobs \ {j} : Kept(i)
    PROVE  Stations' /\ Held' /\ Requests'
  <1>1. Stations' /\ \A i \in Jobs : job'[i].row = "cancelled" => job'[i].asked
    BY Placed
  <1>2. \A i \in Jobs \ {j} : job'[i].held = job[i].held /\ job'[i].asked = job[i].asked
    BY DEF Kept
  <1>3. kind \notin active /\ active' = active \cup {kind} /\ cancel' = cancel
    BY DEF TryAcquire
  <1>4. \A i \in Jobs \ {j} : job'[i].held # kind
    BY <1>2, <1>3 DEF LockInv, Held
  <1>5. kind # "none"
    BY DEF Kinds
  <1>6. Held'
    <2>1. active' \in SUBSET Kinds
      BY <1>3 DEF LockInv, Held
    <2>2. \A k \in Kinds : k \in active' <=> \E i \in Jobs : job'[i].held = k
      <3> SUFFICES ASSUME NEW k \in Kinds
                   PROVE  k \in active' <=> \E i \in Jobs : job'[i].held = k
        OBVIOUS
      <3>1. CASE k = kind
        BY <3>1, <1>3
      <3>2. CASE k # kind
        <4>1. k # "none"
          BY DEF Kinds
        <4>2. (\E i \in Jobs : job'[i].held = k) <=> \E i \in Jobs : job[i].held = k
          BY <3>2, <4>1, <1>2
        <4> QED
          BY <3>2, <4>2, <1>3 DEF LockInv, Held
      <3> QED BY <3>1, <3>2
    <2>3. \A i, l \in Jobs : job'[i].held = job'[l].held /\ job'[i].held # "none" => i = l
      BY <1>2, <1>4 DEF LockInv, Held
    <2> QED
      BY <2>1, <2>2, <2>3 DEF Held
  <1>7. cancel' # {} => \E i \in Jobs : job'[i].held = "deliver" /\ job'[i].asked
    BY <1>2, <1>3 DEF LockInv, Requests, CancelReachesItsRun
  <1> QED
    BY <1>1, <1>3, <1>6, <1>7 DEF LockInv, Requests, CancelReachesItsRun

LEMMA Leaves ==
    ASSUME LockInv, NEW j \in Jobs, job[j].held \in Kinds, ReleaseRun(job[j].held),
           job'[j].held = "none", WellPlaced(j), \A i \in Jobs \ {j} : Kept(i)
    PROVE  Stations' /\ Held' /\ Requests'
  <1>1. Stations' /\ \A i \in Jobs : job'[i].row = "cancelled" => job'[i].asked
    BY Placed
  <1>2. \A i \in Jobs \ {j} : job'[i].held = job[i].held /\ job'[i].asked = job[i].asked
    BY DEF Kept
  <1>3. active' = active \ {job[j].held} /\ cancel' = cancel \ {job[j].held}
    BY DEF ReleaseRun
  <1>4. job[j].held # "none" /\ \A i \in Jobs \ {j} : job[i].held # job[j].held
    BY DEF LockInv, Held, Kinds
  <1>5. Held'
    <2>1. active' \in SUBSET Kinds
      BY <1>3 DEF LockInv, Held
    <2>2. \A k \in Kinds : k \in active' <=> \E i \in Jobs : job'[i].held = k
      <3> SUFFICES ASSUME NEW k \in Kinds
                   PROVE  k \in active' <=> \E i \in Jobs : job'[i].held = k
        OBVIOUS
      <3>0. k # "none"
        BY DEF Kinds
      <3>1. CASE k = job[j].held
        BY <3>0, <3>1, <1>2, <1>3, <1>4
      <3>2. CASE k # job[j].held
        <4>1. (\E i \in Jobs : job'[i].held = k) <=> \E i \in Jobs : job[i].held = k
          BY <3>0, <3>2, <1>2
        <4> QED
          BY <3>2, <4>1, <1>3 DEF LockInv, Held
      <3> QED BY <3>1, <3>2
    <2>3. \A i, l \in Jobs : job'[i].held = job'[l].held /\ job'[i].held # "none" => i = l
      BY <1>2 DEF LockInv, Held
    <2> QED
      BY <2>1, <2>2, <2>3 DEF Held
  <1>6. cancel' # {} => \E i \in Jobs : job'[i].held = "deliver" /\ job'[i].asked
    BY <1>2, <1>3, <1>4 DEF LockInv, Requests, CancelReachesItsRun
  <1> QED
    BY <1>1, <1>3, <1>5, <1>6 DEF LockInv, Requests, CancelReachesItsRun

-----------------------------------------------------------------------------
(* What becomes of the queue.                                              *)

LEMMA LeastIsLeast ==
    ASSUME NEW a \in Nat, NEW b \in Nat
    PROVE  Least(a, b) \in Nat /\ Least(a, b) <= a /\ Least(a, b) <= b
             /\ (Least(a, b) = a \/ Least(a, b) = b)
  BY DEF Least

LEMMA Listings ==
    ASSUME queue \in Seq(Keys)
    PROVE  /\ Listing \in Seq(Listed)
           /\ \A n \in DOMAIN Listing :
                 n \in DOMAIN queue /\ Listing[n].key = queue[n] /\ Listing[n].live
  <1>1. Len(queue) \in Nat /\ PerCycle \in Nat /\ DOMAIN queue = 1..Len(queue)
    BY ServerAssumption
  <1> DEFINE m == Least(Len(queue), PerCycle)
  <1>2. m \in Nat /\ m <= Len(queue)
    BY <1>1, LeastIsLeast
  <1> HIDE DEF m
  <1>3. Listing = [i \in 1..m |-> [key |-> queue[i], live |-> TRUE]]
    BY DEF Listing, m
  <1>4. \A n \in 1..m : n \in DOMAIN queue /\ [key |-> queue[n], live |-> TRUE] \in Listed
    BY <1>1, <1>2 DEF Listed
  <1> QED
    BY <1>2, <1>3, <1>4

(* Taking the one row of a key out leaves the others, in their order.      *)
LEMMA Removals ==
    ASSUME queue \in Seq(Keys), NoRepeats, NEW listed \in Listed, listed.live,
           listed.key \in Queued
    PROVE  \E n \in DOMAIN queue :
              /\ queue[n] = listed.key
              /\ Removed(listed) \in Seq(Keys)
              /\ Len(Removed(listed)) = Len(queue) - 1
              /\ \A i \in 1..Len(queue) - 1 :
                    Removed(listed)[i] = IF i < n THEN queue[i] ELSE queue[i + 1]
  <1> DEFINE n == CHOOSE i \in DOMAIN queue : queue[i] = listed.key
  <1>1. n \in DOMAIN queue /\ queue[n] = listed.key
    BY DEF Queued
  <1>2. Removed(listed) = SubSeq(queue, 1, n - 1) \o SubSeq(queue, n + 1, Len(queue))
    BY DEF Removed
  <1> HIDE DEF n
  <1>3. Len(queue) \in Nat /\ n \in 1..Len(queue)
    BY <1>1
  <1>4. /\ SubSeq(queue, 1, n - 1) \in Seq(Keys) /\ Len(SubSeq(queue, 1, n - 1)) = n - 1
        /\ \A i \in 1..n - 1 : SubSeq(queue, 1, n - 1)[i] = queue[i]
    BY <1>3
  <1>5. /\ SubSeq(queue, n + 1, Len(queue)) \in Seq(Keys)
        /\ Len(SubSeq(queue, n + 1, Len(queue))) = Len(queue) - n
        /\ \A i \in 1..Len(queue) - n : SubSeq(queue, n + 1, Len(queue))[i] = queue[n + i]
    BY <1>3
  <1> DEFINE front == SubSeq(queue, 1, n - 1)
             back == SubSeq(queue, n + 1, Len(queue))
  <1> HIDE DEF front, back
  <1>6. front \o back \in Seq(Keys) /\ Len(front \o back) = Len(queue) - 1
    <2>1. front \in Seq(Keys) /\ back \in Seq(Keys) /\ Len(front) = n - 1 /\ Len(back) = Len(queue) - n
      BY <1>4, <1>5 DEF front, back
    <2>2. front \o back \in Seq(Keys) /\ Len(front \o back) = Len(front) + Len(back)
      BY <2>1, ConcatProperties
    <2> QED
      BY <1>3, <2>1, <2>2
  <1>7. \A i \in 1..Len(queue) - 1 :
           (front \o back)[i] = IF i < n THEN queue[i] ELSE queue[i + 1]
    <2> SUFFICES ASSUME NEW i \in 1..Len(queue) - 1
                 PROVE  (front \o back)[i] = IF i < n THEN queue[i] ELSE queue[i + 1]
      OBVIOUS
    <2>0. front \in Seq(Keys) /\ back \in Seq(Keys) /\ Len(front) = n - 1 /\ Len(back) = Len(queue) - n
      BY <1>4, <1>5 DEF front, back
    <2>1. CASE i < n
      <3>1. (front \o back)[i] = front[i]
        BY <2>0, <2>1, <1>3
      <3>2. front[i] = queue[i]
        BY <1>3, <1>4, <2>1 DEF front
      <3> QED BY <2>1, <3>1, <3>2
    <2>2. CASE ~ (i < n)
      <3>1. (front \o back)[i] = back[i - (n - 1)]
        BY <2>0, <2>2, <1>3
      <3>2. i - (n - 1) \in 1..Len(queue) - n /\ n + (i - (n - 1)) = i + 1
        BY <1>3, <2>2
      <3>3. back[i - (n - 1)] = queue[i + 1]
        BY <1>5, <3>2 DEF back
      <3> QED BY <2>2, <3>1, <3>3
    <2> QED BY <2>1, <2>2
  <1> QED
    BY <1>1, <1>2, <1>6, <1>7 DEF front, back

(* A new key goes last, and only if there is room.                         *)
LEMMA Additions ==
    ASSUME queue \in Seq(Keys), Len(queue) <= MaxQueued, NEW key \in Keys, key \notin Queued
    PROVE  /\ Enqueued(key) \in Seq(Keys) /\ Len(Enqueued(key)) <= MaxQueued
           /\ Len(Enqueued(key)) = Len(queue) \/ Len(Enqueued(key)) = Len(queue) + 1
           /\ \A i \in 1..Len(queue) : Enqueued(key)[i] = queue[i]
           /\ Len(Enqueued(key)) = Len(queue) + 1 => Enqueued(key)[Len(queue) + 1] = key
  <1> DEFINE all == Append(queue, key)
             m == Least(Len(queue) + 1, MaxQueued)
  <1>1. Len(queue) \in Nat /\ MaxQueued \in Nat
    BY ServerAssumption
  <1>2. all \in Seq(Keys) /\ Len(all) = Len(queue) + 1 /\ all[Len(queue) + 1] = key
           /\ \A i \in 1..Len(queue) : all[i] = queue[i]
    BY <1>1
  <1>3. m \in Nat /\ m <= Len(queue) + 1 /\ m <= MaxQueued /\ m >= Len(queue)
    BY <1>1 DEF Least
  <1>4. Enqueued(key) = SubSeq(all, 1, m)
    BY DEF Enqueued
  <1> HIDE DEF all, m
  <1>5. SubSeq(all, 1, m) \in Seq(Keys) /\ Len(SubSeq(all, 1, m)) = m
           /\ \A i \in 1..m : SubSeq(all, 1, m)[i] = all[i]
    BY <1>1, <1>2, <1>3
  <1> QED
    BY <1>1, <1>2, <1>3, <1>4, <1>5

-----------------------------------------------------------------------------
(* What becomes of the listings.                                           *)

LEMMA NoJobTyped == NoJob \in JobRecord /\ NoJob.todo = <<>> /\ NoJob.held = "none"
                      /\ NoJob.row = "none" /\ NoJob.pc = "idle"
  BY DEF NoJob, JobRecord, PCs, Rows

LEMMA TodoTyped ==
    ASSUME ServerTypeOK, NEW j \in Jobs
    PROVE  job[j] \in JobRecord /\ job[j].todo \in Seq(Listed) /\ job[j].alerts \in Seq(Keys)
  BY DEF ServerTypeOK, JobRecord

LEMMA SameAlerts ==
    ASSUME QueueInv, queue' = queue, told' \in {told, "shared"},
           \A i \in Jobs : job'[i].todo = job[i].todo \/ job'[i].todo = <<>>
    PROVE  NoRepeats' /\ InOneHand'
  <1>1. \A i \in Jobs : \A n \in Nat :
           Has(i, n)' => Has(i, n) /\ job'[i].todo[n] = job[i].todo[n]
    BY DEF Has
  <1>2. NoRepeats'
    BY DEF QueueInv, NoRepeats
  <1>3. InOneHand'
    BY <1>1 DEF QueueInv, InOneHand, Queued
  <1> QED
    BY <1>2, <1>3

LEMMA InTheirHands ==
    ASSUME ServerTypeOK, NEW j \in Jobs, Watched \notin InHand(j)
    PROVE  \A i \in Jobs \ {j} : \A n \in Nat : ~Has(i, n)
  BY DEF InHand, Has

LEMMA Sends ==
    ASSUME QueueInv, NEW j \in Jobs, NEW r \in JobRecord, NEW alerts \in Seq(Keys),
           SendAlerts(j, r, alerts)
    PROVE  /\ job' \in [Jobs -> JobRecord]
           /\ \A i \in Jobs \ {j} : job'[i] = job[i]
           /\ job'[j].pc = "alerts" /\ job'[j].held = r.held /\ job'[j].row = r.row
           /\ job'[j].asked = r.asked
           /\ queue' = queue /\ told' \in {told, "shared"}
           /\ NoRepeats' /\ InOneHand'
  <1>1. queue \in Seq(Keys) /\ job \in [Jobs -> JobRecord]
    BY DEF QueueInv, ServerTypeOK, JobRecord
  <1>2. /\ Listing \in Seq(Listed)
        /\ \A n \in DOMAIN Listing :
              n \in DOMAIN queue /\ Listing[n].key = queue[n] /\ Listing[n].live
    BY <1>1, Listings
  <1> DEFINE rec == [r EXCEPT !.pc = "alerts", !.todo = Listing, !.alerts = alerts]
  <1>3. job' = [job EXCEPT ![j] = rec] /\ queue' = queue
    BY DEF SendAlerts
  <1>4. rec \in JobRecord /\ rec.pc = "alerts" /\ rec.held = r.held /\ rec.row = r.row
          /\ rec.asked = r.asked /\ rec.todo = Listing
    BY <1>2 DEF JobRecord, PCs
  <1> HIDE DEF rec
  <1>5. job' \in [Jobs -> JobRecord] /\ job'[j] = rec /\ \A i \in Jobs \ {j} : job'[i] = job[i]
    BY <1>1, <1>3, <1>4
  <1>6. NoRepeats'
    BY <1>3 DEF QueueInv, NoRepeats
  <1>7. told' \in {told, "shared"}
    BY DEF SendAlerts
  <1>8. \A n \in Nat : Has(j, n)' => n \in DOMAIN queue /\ queue[n] = Watched /\ Watched \in Queued
                                       /\ n \in DOMAIN Listing /\ job'[j].todo[n].live
    BY <1>2, <1>4, <1>5 DEF Has, Queued
  <1>9. \A i \in Jobs \ {j} : \A n \in Nat :
           Has(i, n)' => Has(i, n) /\ job'[i].todo[n] = job[i].todo[n]
    BY <1>5 DEF Has
  <1>10. InOneHand'
    <2>1. CASE told' = "shared"
      BY <2>1 DEF InOneHand
    <2>2. CASE told' = told /\ told = "once"
      <3>1. Watched \notin Queued /\ \A i \in Jobs : \A n \in Nat : ~Has(i, n)
        BY <2>2 DEF QueueInv, InOneHand
      <3>2. \A i \in Jobs : \A n \in Nat : ~Has(i, n)'
        BY <1>8, <1>9, <3>1
      <3> QED
        BY <1>3, <2>2, <3>1, <3>2 DEF InOneHand, Queued
    <2>3. CASE told' = told /\ told = "no"
      <3>1. \A n \in Nat : Has(j, n)' => \A i \in Jobs \ {j} : \A m \in Nat : ~Has(i, m)
        <4> SUFFICES ASSUME NEW n \in Nat, Has(j, n)'
                     PROVE  \A i \in Jobs \ {j} : \A m \in Nat : ~Has(i, m)
          OBVIOUS
        <4>1. n \in DOMAIN Listing /\ queue[n] = Watched
          BY <1>8
        <4>2. Watched \notin InHand(j)
          BY <2>3, <4>1 DEF SendAlerts
        <4> QED
          BY <4>2, InTheirHands DEF QueueInv
      <3>2. \A i, l \in Jobs : \A m, n \in Nat : Has(i, m)' /\ Has(l, n)' => i = l /\ m = n
        <4> SUFFICES ASSUME NEW i \in Jobs, NEW l \in Jobs, NEW m \in Nat, NEW n \in Nat,
                            Has(i, m)', Has(l, n)'
                     PROVE  i = l /\ m = n
          OBVIOUS
        <4>1. CASE i = j /\ l = j
          BY <4>1, <1>8 DEF QueueInv, NoRepeats
        <4>2. CASE i = j /\ l # j
          BY <4>2, <1>9, <3>1
        <4>3. CASE i # j /\ l = j
          BY <4>3, <1>9, <3>1
        <4>4. CASE i # j /\ l # j
          BY <4>4, <1>9, <2>3 DEF QueueInv, InOneHand
        <4> QED
          BY <4>1, <4>2, <4>3, <4>4
      <3>3. \A i \in Jobs : \A n \in Nat : Has(i, n)' => job'[i].todo[n].live /\ Watched \in Queued
        BY <1>8, <1>9, <2>3 DEF QueueInv, InOneHand
      <3> QED
        BY <1>3, <2>3, <3>2, <3>3 DEF InOneHand, Queued
    <2>4. told \in {"no", "once", "shared"}
      BY DEF QueueInv, InOneHand, ServerTypeOK, Told
    <2> QED
      BY <1>7, <2>1, <2>2, <2>3, <2>4
  <1> QED
    BY <1>3, <1>4, <1>5, <1>6, <1>7, <1>10

-----------------------------------------------------------------------------
(* What becomes of the others' listings when a row goes.                   *)
LEMMA Outdating ==
    ASSUME NEW todo \in Seq(Listed), NEW listed \in Listed
    PROVE  /\ Outdated(todo, listed) \in Seq(Listed)
           /\ DOMAIN Outdated(todo, listed) = DOMAIN todo
           /\ \A n \in DOMAIN todo :
                 /\ Outdated(todo, listed)[n].key = todo[n].key
                 /\ todo[n].key # listed.key =>
                       Outdated(todo, listed)[n].live = todo[n].live
  <1> DEFINE new(n) == [todo[n] EXCEPT !.live = @ /\ ~(listed.live /\ todo[n].key = listed.key)]
  <1>1. \A n \in DOMAIN todo : todo[n] \in Listed
    OBVIOUS
  <1>2. \A n \in DOMAIN todo :
           /\ new(n) \in Listed /\ new(n).key = todo[n].key
           /\ todo[n].key # listed.key => new(n).live = todo[n].live
    <2> SUFFICES ASSUME NEW n \in DOMAIN todo
                 PROVE  /\ new(n) \in Listed /\ new(n).key = todo[n].key
                        /\ todo[n].key # listed.key => new(n).live = todo[n].live
      OBVIOUS
    <2>1. todo[n] \in Listed /\ todo[n].live \in BOOLEAN /\ todo[n].key \in Keys
      BY <1>1 DEF Listed
    <2> DEFINE still == todo[n].live /\ ~(listed.live /\ todo[n].key = listed.key)
    <2>2. still \in BOOLEAN
      BY Zenon
    <2>3. todo[n].key # listed.key => still = todo[n].live
      BY <2>1, Zenon
    <2> HIDE DEF still
    <2>4. new(n) = [todo[n] EXCEPT !.live = still]
      BY DEF still
    <2>5. /\ [todo[n] EXCEPT !.live = still] \in Listed
          /\ [todo[n] EXCEPT !.live = still].key = todo[n].key
          /\ [todo[n] EXCEPT !.live = still].live = still
      BY <2>1, <2>2 DEF Listed
    <2> QED
      BY <2>3, <2>4, <2>5
  <1> HIDE DEF new
  <1>3. Outdated(todo, listed) = [n \in DOMAIN todo |-> new(n)]
    BY DEF Outdated, new
  <1>4. DOMAIN todo = 1..Len(todo) /\ Len(todo) \in Nat
    OBVIOUS
  <1>5. [n \in DOMAIN todo |-> new(n)] \in Seq(Listed)
    BY <1>2, <1>4
  <1> QED
    BY <1>2, <1>3, <1>5

(* The first listed row was sent.                                          *)
LEMMA RedeliveredStep ==
    ASSUME QueueInv, NEW j \in Jobs, Redelivered(j)
    PROVE  /\ job' \in [Jobs -> JobRecord] /\ \A i \in Jobs : Kept(i)
           /\ queue' \in Seq(Keys) /\ Len(queue') <= Len(queue) /\ told' \in Told
           /\ NoRepeats' /\ InOneHand'
  <1> DEFINE listed == Head(job[j].todo)
  <1>1. /\ job \in [Jobs -> JobRecord] /\ queue \in Seq(Keys) /\ told \in Told
        /\ job[j].todo \in Seq(Listed) /\ job[j].todo # <<>> /\ DOMAIN job = Jobs
        /\ \A i \in Jobs : job[i] \in JobRecord /\ job[i].todo \in Seq(Listed)
    BY DEF QueueInv, ServerTypeOK, JobRecord, Redelivered
  <1>2. /\ listed \in Listed /\ job[j].todo[1] = listed
        /\ Tail(job[j].todo) \in Seq(Listed) /\ 1 \in DOMAIN job[j].todo
        /\ \A n \in DOMAIN Tail(job[j].todo) :
              n + 1 \in DOMAIN job[j].todo /\ n \in Nat \ {0}
                /\ Tail(job[j].todo)[n] = job[j].todo[n + 1]
    <2>1. Len(job[j].todo) \in Nat \ {0} /\ DOMAIN job[j].todo = 1..Len(job[j].todo)
      BY <1>1, EmptySeq
    <2> QED
      BY <1>1, <2>1
  <1> HIDE DEF listed
  <1>3. CASE ~up
    <2>1. job' = [job EXCEPT ![j].todo = <<>>] /\ queue' = queue /\ told' = told
      BY <1>3 DEF Redelivered
    <2>0. <<>> \in Seq(Listed)
      OBVIOUS
    <2>2. /\ [job[j] EXCEPT !.todo = <<>>] \in JobRecord
          /\ [job[j] EXCEPT !.todo = <<>>].pc = job[j].pc
          /\ [job[j] EXCEPT !.todo = <<>>].held = job[j].held
          /\ [job[j] EXCEPT !.todo = <<>>].row = job[j].row
          /\ [job[j] EXCEPT !.todo = <<>>].asked = job[j].asked
          /\ [job[j] EXCEPT !.todo = <<>>].todo = <<>>
      BY <1>1, <2>0 DEF JobRecord
    <2>3. job' \in [Jobs -> JobRecord] /\ job'[j] = [job[j] EXCEPT !.todo = <<>>]
             /\ \A i \in Jobs \ {j} : job'[i] = job[i]
      BY <1>1, <2>1, <2>2
    <2>4. \A i \in Jobs : Kept(i) /\ (job'[i].todo = job[i].todo \/ job'[i].todo = <<>>)
      BY <2>2, <2>3 DEF Kept
    <2> QED
      BY <1>1, <2>1, <2>3, <2>4, SameAlerts
  <1>4. CASE up
    <2> DEFINE rec(i) == IF i = j THEN [job[j] EXCEPT !.todo = Tail(@)]
                         ELSE [job[i] EXCEPT !.todo = Outdated(@, listed)]
    <2>1. /\ queue' = Removed(listed)
          /\ told' = IF listed.key = Watched THEN Retold ELSE told
          /\ job' = [i \in Jobs |-> rec(i)]
      BY <1>4 DEF Redelivered, listed
    <2>2. \A i \in Jobs : rec(i) \in JobRecord
             /\ rec(i).pc = job[i].pc /\ rec(i).held = job[i].held
             /\ rec(i).row = job[i].row /\ rec(i).asked = job[i].asked
             /\ rec(i).todo = IF i = j THEN Tail(job[j].todo) ELSE Outdated(job[i].todo, listed)
      <3> SUFFICES ASSUME NEW i \in Jobs
                   PROVE  rec(i) \in JobRecord
                            /\ rec(i).pc = job[i].pc /\ rec(i).held = job[i].held
                            /\ rec(i).row = job[i].row /\ rec(i).asked = job[i].asked
                            /\ rec(i).todo = IF i = j THEN Tail(job[j].todo)
                                             ELSE Outdated(job[i].todo, listed)
        OBVIOUS
      <3>1. CASE i = j
        BY <1>1, <1>2, <3>1, ZenonT(60) DEF JobRecord
      <3>2. CASE i # j
        <4>1. Outdated(job[i].todo, listed) \in Seq(Listed)
          BY <1>1, <1>2, Outdating
        <4> QED
          BY <1>1, <3>2, <4>1 DEF JobRecord
      <3> QED BY <3>1, <3>2
    <2> HIDE DEF rec
    <2>3. job' \in [Jobs -> JobRecord] /\ \A i \in Jobs : Kept(i)
      BY <2>1, <2>2 DEF Kept
    <2>4. /\ job'[j].todo = Tail(job[j].todo)
          /\ \A i \in Jobs \ {j} : job'[i].todo = Outdated(job[i].todo, listed)
      BY <2>1, <2>2
    <2>5. \A n \in Nat : Has(j, n)' => /\ Has(j, n + 1) /\ n + 1 # 1
                                       /\ job'[j].todo[n] = job[j].todo[n + 1]
      BY <1>2, <2>4 DEF Has
    <2>6. \A i \in Jobs \ {j} : \A n \in Nat :
             Has(i, n)' => Has(i, n) /\ (listed.key # Watched =>
                                            job'[i].todo[n].live = job[i].todo[n].live)
      <3> SUFFICES ASSUME NEW i \in Jobs \ {j}, NEW n \in Nat, Has(i, n)'
                   PROVE  Has(i, n) /\ (listed.key # Watched =>
                                            job'[i].todo[n].live = job[i].todo[n].live)
        OBVIOUS
      <3> DEFINE old == job[i].todo
                 new == job'[i].todo
      <3>1. new = Outdated(old, listed) /\ old \in Seq(Listed) /\ listed \in Listed
        BY <1>1, <1>2, <2>4
      <3> HIDE DEF old, new
      <3>2. /\ DOMAIN new = DOMAIN old
            /\ \A m \in DOMAIN old :
                  /\ new[m].key = old[m].key
                  /\ old[m].key # listed.key => new[m].live = old[m].live
        <4>1. /\ DOMAIN Outdated(old, listed) = DOMAIN old
              /\ \A m \in DOMAIN old :
                    /\ Outdated(old, listed)[m].key = old[m].key
                    /\ old[m].key # listed.key => Outdated(old, listed)[m].live = old[m].live
          BY <3>1, Outdating
        <4> QED
          BY <3>1, <4>1
      <3>3. n \in DOMAIN new /\ new[n].key = Watched
        BY DEF Has, new
      <3>4. n \in DOMAIN old /\ old[n].key = Watched
        BY <3>2, <3>3
      <3>5. listed.key # Watched => new[n].live = old[n].live
        BY <3>2, <3>4
      <3> QED
        BY <3>4, <3>5 DEF Has, old, new
    <2>7. \/ queue' = queue /\ (listed.live => listed.key \notin Queued)
          \/ /\ queue' \in Seq(Keys) /\ Len(queue') = Len(queue) - 1
             /\ \E n \in DOMAIN queue :
                   /\ queue[n] = listed.key
                   /\ \A i \in 1..Len(queue) - 1 :
                         queue'[i] = IF i < n THEN queue[i] ELSE queue[i + 1]
      <3>1. CASE listed.live /\ listed.key \in Queued
        BY <1>1, <1>2, <2>1, <3>1, Removals DEF QueueInv
      <3>2. CASE ~(listed.live /\ listed.key \in Queued)
        BY <2>1, <3>2 DEF Removed
      <3> QED BY <3>1, <3>2
    <2>8. /\ queue' \in Seq(Keys) /\ Len(queue') <= Len(queue) /\ NoRepeats'
          /\ \A k \in Keys : k # listed.key => (k \in Queued' <=> k \in Queued)
          /\ listed.live => listed.key \notin Queued'
      <3>1. CASE queue' = queue /\ (listed.live => listed.key \notin Queued)
        BY <1>1, <3>1 DEF QueueInv, NoRepeats, Queued
      <3>2. CASE /\ queue' \in Seq(Keys) /\ Len(queue') = Len(queue) - 1
                 /\ \E n \in DOMAIN queue :
                       /\ queue[n] = listed.key
                       /\ \A i \in 1..Len(queue) - 1 :
                             queue'[i] = IF i < n THEN queue[i] ELSE queue[i + 1]
        <4>1. PICK n \in DOMAIN queue :
                 /\ queue[n] = listed.key
                 /\ \A i \in 1..Len(queue) - 1 :
                       queue'[i] = IF i < n THEN queue[i] ELSE queue[i + 1]
          BY <3>2
        <4>2. /\ Len(queue) \in Nat /\ DOMAIN queue = 1..Len(queue) /\ n \in 1..Len(queue)
              /\ DOMAIN queue' = 1..Len(queue) - 1
          BY <1>1, <3>2, <4>1
        <4>3. \A a, b \in DOMAIN queue : queue[a] = queue[b] => a = b
          BY DEF QueueInv, NoRepeats
        <4>4. \A i \in 1..Len(queue) - 1 : \E a \in DOMAIN queue :
                 a # n /\ a = (IF i < n THEN i ELSE i + 1) /\ queue'[i] = queue[a]
          BY <4>1, <4>2
        <4>5. NoRepeats'
          <5> SUFFICES ASSUME NEW a \in 1..Len(queue) - 1, NEW b \in 1..Len(queue) - 1,
                              queue'[a] = queue'[b]
                       PROVE  a = b
            BY <4>2 DEF NoRepeats
          <5>1. (IF a < n THEN a ELSE a + 1) = (IF b < n THEN b ELSE b + 1)
            BY <4>3, <4>4
          <5> QED
            BY <4>2, <5>1
        <4>6. \A i \in DOMAIN queue' : queue'[i] # listed.key /\ queue'[i] \in Queued
          BY <4>1, <4>2, <4>3, <4>4 DEF Queued
        <4>7. \A a \in DOMAIN queue : a # n => \E i \in DOMAIN queue' : queue'[i] = queue[a]
          <5> SUFFICES ASSUME NEW a \in DOMAIN queue, a # n
                       PROVE  \E i \in DOMAIN queue' : queue'[i] = queue[a]
            OBVIOUS
          <5>1. CASE a < n
            BY <4>1, <4>2, <5>1
          <5>2. CASE ~ (a < n)
            <6>1. a - 1 \in 1..Len(queue) - 1 /\ ~(a - 1 < n) /\ (a - 1) + 1 = a
              BY <4>2, <5>2
            <6>2. queue'[a - 1] = queue[a]
              BY <4>1, <6>1
            <6> QED
              BY <4>2, <6>1, <6>2
          <5> QED BY <5>1, <5>2
        <4>8. \A k \in Keys : k # listed.key => (k \in Queued' <=> k \in Queued)
          <5> SUFFICES ASSUME NEW k \in Keys, k # listed.key
                       PROVE  k \in Queued' <=> k \in Queued
            OBVIOUS
          <5>1. k \in Queued' => k \in Queued
            BY <4>6 DEF Queued
          <5>2. k \in Queued => k \in Queued'
            BY <4>1, <4>7 DEF Queued
          <5> QED BY <5>1, <5>2
        <4>9. listed.key \notin Queued'
          BY <4>6 DEF Queued
        <4> QED
          BY <3>2, <4>2, <4>5, <4>8, <4>9
      <3> QED BY <2>7, <3>1, <3>2
    <2>9. told' \in Told /\ InOneHand'
      <3>1. CASE listed.key # Watched
        <4>1. told' = told
          BY <2>1, <3>1
        <4>2. Watched \in Queued' <=> Watched \in Queued
          BY <2>8, <3>1, ServerAssumption DEF Keys
        <4>3. told # "again"
          BY DEF QueueInv, InOneHand
        <4>4. CASE told = "once"
          BY <2>5, <2>6, <4>1, <4>2, <4>4 DEF QueueInv, InOneHand, Told
        <4>5. CASE told = "no"
          <5>0. /\ \A i, l \in Jobs : \A m, n \in Nat : Has(i, m) /\ Has(l, n) => i = l /\ m = n
                /\ \A i \in Jobs : \A n \in Nat :
                      Has(i, n) => job[i].todo[n].live /\ Watched \in Queued
            BY <4>5 DEF QueueInv, InOneHand
          <5>1. \A i, l \in Jobs : \A m, n \in Nat : Has(i, m)' /\ Has(l, n)' => i = l /\ m = n
            <6> SUFFICES ASSUME NEW i \in Jobs, NEW l \in Jobs, NEW m \in Nat, NEW n \in Nat,
                                Has(i, m)', Has(l, n)'
                         PROVE  i = l /\ m = n
              OBVIOUS
            <6>1. \E a, b \in Nat : Has(i, a) /\ Has(l, b) /\ (i = j => a = m + 1)
                     /\ (i # j => a = m) /\ (l = j => b = n + 1) /\ (l # j => b = n)
              BY <2>5, <2>6
            <6>2. PICK a \in Nat, b \in Nat : Has(i, a) /\ Has(l, b) /\ (i = j => a = m + 1)
                     /\ (i # j => a = m) /\ (l = j => b = n + 1) /\ (l # j => b = n)
              BY <6>1
            <6>3. i = l /\ a = b
              BY <5>0, <6>2
            <6> QED
              BY <6>2, <6>3
          <5>2. \A i \in Jobs : \A n \in Nat : Has(i, n)' => job'[i].todo[n].live
            BY <2>5, <2>6, <3>1, <5>0
          <5>3. \A i \in Jobs : \A n \in Nat : Has(i, n)' => Watched \in Queued'
            BY <2>5, <2>6, <4>2, <5>0
          <5> QED
            BY <4>1, <4>5, <5>1, <5>2, <5>3 DEF InOneHand, Told
        <4>6. CASE told = "shared"
          BY <4>1, <4>6 DEF InOneHand, Told
        <4> QED
          BY <1>1, <4>3, <4>4, <4>5, <4>6 DEF Told
      <3>2. CASE listed.key = Watched
        <4>1. Has(j, 1)
          BY <1>2, <3>2 DEF Has
        <4>2. told # "once" /\ told # "again"
          BY <4>1 DEF QueueInv, InOneHand
        <4>3. told' = Retold
          BY <2>1, <3>2
        <4>4. CASE told = "no"
          <5>0. /\ \A i, l \in Jobs : \A m, n \in Nat : Has(i, m) /\ Has(l, n) => i = l /\ m = n
                /\ \A i \in Jobs : \A n \in Nat :
                      Has(i, n) => job[i].todo[n].live /\ Watched \in Queued
            BY <4>4 DEF QueueInv, InOneHand
          <5>1. told' = "once"
            BY <4>3, <4>4 DEF Retold
          <5>2. listed.live
            BY <1>2, <4>1, <5>0
          <5>3. Watched \notin Queued'
            BY <2>8, <3>2, <5>2
          <5>4. \A n \in Nat : Has(j, n) => n = 1
            BY <4>1, <5>0
          <5>5. \A i \in Jobs \ {j} : \A n \in Nat : ~Has(i, n)
            BY <4>1, <5>0
          <5>6. \A i \in Jobs : \A n \in Nat : ~Has(i, n)'
            BY <2>5, <2>6, <5>4, <5>5
          <5> QED
            BY <5>1, <5>3, <5>6 DEF InOneHand, Told
        <4>5. CASE told = "shared"
          <5>1. told' = "shared"
            BY <4>3, <4>5 DEF Retold
          <5> QED
            BY <5>1 DEF InOneHand, Told
        <4> QED
          BY <1>1, <4>2, <4>4, <4>5 DEF Told
      <3> QED BY <3>1, <3>2
    <2> QED
      BY <2>3, <2>8, <2>9
  <1> QED
    BY <1>3, <1>4

LEMMA OneLonger ==
    ASSUME NEW l \in Nat, NEW m, m = l \/ m = l + 1
    PROVE  /\ 1..l \subseteq 1..m
           /\ \A i \in 1..m : i \in 1..l \/ (i = l + 1 /\ m = l + 1)
  OBVIOUS

(* A new alert was sent, or not.                                           *)
LEMMA RaisedStep ==
    ASSUME QueueInv, NEW j \in Jobs, Raised(j)
    PROVE  /\ job' \in [Jobs -> JobRecord] /\ \A i \in Jobs : Kept(i)
           /\ queue' \in Seq(Keys) /\ Len(queue') <= MaxQueued /\ told' \in Told
           /\ NoRepeats' /\ InOneHand'
  <1> DEFINE key == Head(job[j].alerts)
  <1>1. /\ job \in [Jobs -> JobRecord] /\ queue \in Seq(Keys) /\ Len(queue) <= MaxQueued
        /\ told \in Told /\ job[j] \in JobRecord
        /\ job[j].alerts \in Seq(Keys) /\ job[j].alerts # <<>> /\ job[j].todo = <<>>
    BY DEF QueueInv, ServerTypeOK, JobRecord, Raised
  <1>2. key \in Keys /\ Tail(job[j].alerts) \in Seq(Keys)
    <2>1. Len(job[j].alerts) \in Nat \ {0}
      BY <1>1, EmptySeq
    <2> QED
      BY <1>1, <2>1
  <1> HIDE DEF key
  <1>3. job' = [job EXCEPT ![j].alerts = Tail(@)]
    BY DEF Raised
  <1>4. /\ [job[j] EXCEPT !.alerts = Tail(@)] \in JobRecord
        /\ [job[j] EXCEPT !.alerts = Tail(@)].pc = job[j].pc
        /\ [job[j] EXCEPT !.alerts = Tail(@)].held = job[j].held
        /\ [job[j] EXCEPT !.alerts = Tail(@)].row = job[j].row
        /\ [job[j] EXCEPT !.alerts = Tail(@)].asked = job[j].asked
        /\ [job[j] EXCEPT !.alerts = Tail(@)].todo = job[j].todo
    BY <1>1, <1>2 DEF JobRecord
  <1>5. job' \in [Jobs -> JobRecord] /\ job'[j] = [job[j] EXCEPT !.alerts = Tail(@)]
           /\ \A i \in Jobs \ {j} : job'[i] = job[i]
    BY <1>1, <1>3, <1>4
  <1>6. \A i \in Jobs : Kept(i) /\ job'[i].todo = job[i].todo
    BY <1>4, <1>5 DEF Kept
  <1>7. CASE queue' = queue /\ told' = told
    BY <1>1, <1>5, <1>6, <1>7, SameAlerts
  <1>8. CASE /\ ~up /\ key \notin Queued /\ queue' = Enqueued(key)
             /\ told' = IF key = Watched /\ key \notin Queued \cup InHand(j) THEN "no" ELSE told
    <2>1. /\ queue' \in Seq(Keys) /\ Len(queue') <= MaxQueued
          /\ Len(queue') = Len(queue) \/ Len(queue') = Len(queue) + 1
          /\ \A i \in 1..Len(queue) : queue'[i] = queue[i]
          /\ Len(queue') = Len(queue) + 1 => queue'[Len(queue) + 1] = key
      BY <1>1, <1>2, <1>8, Additions
    <2>2. Len(queue) \in Nat /\ DOMAIN queue = 1..Len(queue) /\ DOMAIN queue' = 1..Len(queue')
      BY <1>1, <2>1
    <2>3. \A i \in DOMAIN queue' : i \in DOMAIN queue \/ (i = Len(queue) + 1 /\ queue'[i] = key)
      <3> DEFINE l == Len(queue)
                 m == Len(queue')
      <3>1. l \in Nat /\ (m = l \/ m = l + 1)
        BY <2>1, <2>2
      <3> HIDE DEF l, m
      <3>2. \A i \in 1..m : i \in 1..l \/ (i = l + 1 /\ m = l + 1)
        BY <3>1, OneLonger
      <3> QED
        BY <2>1, <2>2, <3>2 DEF l, m
    <2>4. \A i \in DOMAIN queue : queue[i] # key
      BY <1>8 DEF Queued
    <2>5. NoRepeats'
      BY <2>1, <2>2, <2>3, <2>4 DEF QueueInv, NoRepeats
    <2>6. \A k \in Keys : k # key => (k \in Queued' <=> k \in Queued)
      <3> SUFFICES ASSUME NEW k \in Keys, k # key
                   PROVE  k \in Queued' <=> k \in Queued
        OBVIOUS
      <3>1. k \in Queued' => k \in Queued
        BY <2>1, <2>2, <2>3 DEF Queued
      <3>2. k \in Queued => k \in Queued'
        <4> DEFINE l == Len(queue)
                   m == Len(queue')
        <4>2. l \in Nat /\ (m = l \/ m = l + 1)
          BY <2>1, <2>2
        <4> HIDE DEF l, m
        <4>3. 1..l \subseteq 1..m
          BY <4>2, OneLonger
        <4>1. DOMAIN queue \subseteq DOMAIN queue'
          BY <2>2, <4>3 DEF l, m
        <4> QED
          BY <2>1, <2>2, <4>1 DEF Queued
      <3> QED BY <3>1, <3>2
    <2>7. \A i \in Jobs : \A n \in Nat : Has(i, n)' =>
             Has(i, n) /\ job'[i].todo[n] = job[i].todo[n]
      BY <1>6 DEF Has
    <2>8. \A n \in Nat : ~Has(j, n)
      BY <1>1 DEF Has
    <2>9. told' \in Told /\ InOneHand'
      <3>1. CASE key # Watched
        <4>1. told' = told /\ (Watched \in Queued' <=> Watched \in Queued)
          BY <1>8, <2>6, <3>1, ServerAssumption DEF Keys
        <4> QED
          BY <1>1, <2>7, <4>1 DEF QueueInv, InOneHand
      <3>2. CASE key = Watched /\ key \notin InHand(j)
        <4>1. told' = "no"
          BY <1>8, <3>2
        <4>2. \A i \in Jobs \ {j} : \A n \in Nat : ~Has(i, n)
          BY <3>2, InTheirHands DEF QueueInv
        <4>3. \A i \in Jobs : \A n \in Nat : ~Has(i, n)'
          BY <2>7, <2>8, <4>2
        <4> QED
          BY <4>1, <4>3 DEF InOneHand, Told
      <3>3. CASE key = Watched /\ key \in InHand(j)
        <4>1. told' = told
          BY <1>8, <3>3
        <4>2. \E i \in Jobs : \E n \in DOMAIN job[i].todo : job[i].todo[n].key = Watched
          BY <3>3 DEF InHand
        <4>3. \A i \in Jobs : DOMAIN job[i].todo \subseteq Nat
          BY TodoTyped DEF QueueInv
        <4>4. \E i \in Jobs : \E n \in Nat : Has(i, n)
          BY <4>2, <4>3 DEF Has
        <4>5. told = "shared"
          BY <1>1, <1>8, <3>3, <4>4 DEF QueueInv, InOneHand, Told
        <4> QED
          BY <4>1, <4>5 DEF InOneHand, Told
      <3> QED BY <3>1, <3>2, <3>3
    <2> QED
      BY <1>5, <1>6, <2>1, <2>5, <2>9
  <1>9. CASE ~up /\ key \in Queued
    <2>1. queue' = queue /\ told' = told
      BY <1>9 DEF Raised, Enqueued, key
    <2> QED
      BY <1>7, <2>1
  <1> QED
    BY <1>7, <1>8, <1>9 DEF Raised, alertVars, key

-----------------------------------------------------------------------------
(* The steps, by what they do to lock and alerts.                          *)

LEMMA Combined ==
    ASSUME Inv, job' \in [Jobs -> JobRecord], queue' \in Seq(Keys), Len(queue') <= MaxQueued,
           told' \in Told, up' \in BOOLEAN, exits' \in 0..MaxExits,
           Stations', Held', Requests', NoRepeats', InOneHand'
    PROVE  Inv'
  <1>1. active' \in SUBSET Kinds /\ cancel' \in SUBSET Kinds
    BY DEF Held, Requests, Kinds
  <1>3. ServerTypeOK'
    BY <1>1, Zenon DEF ServerTypeOK, JobRecord
  <1> QED
    BY <1>3 DEF Inv, LockInv, QueueInv

LEMMA Types ==
    ASSUME Inv
    PROVE  /\ job \in [Jobs -> JobRecord] /\ queue \in Seq(Keys) /\ Len(queue) <= MaxQueued
           /\ told \in Told /\ up \in BOOLEAN /\ exits \in 0..MaxExits
           /\ \A j \in Jobs : job[j] \in JobRecord
  BY DEF Inv, LockInv, ServerTypeOK, JobRecord

LEMMA EnterStep ==
    ASSUME Inv, NEW j \in Jobs, NEW r \in JobRecord, NEW kind \in Kinds, job[j].held = "none",
           r.todo = job[j].todo \/ r.todo = <<>>, Enter(j, r, kind)
    PROVE  Inv'
  <1> DEFINE rec == [r EXCEPT !.pc = "run", !.held = kind, !.row = "open"]
  <1>1. /\ TryAcquire(kind) /\ job' = [job EXCEPT ![j] = rec]
        /\ up' = up /\ exits' = exits /\ queue' = queue /\ told' = told
    BY DEF Enter, alertVars
  <1>2. rec \in JobRecord /\ rec.pc = "run" /\ rec.held = kind /\ rec.row = "open" /\ rec.todo = r.todo
    BY DEF JobRecord, PCs, Rows
  <1> HIDE DEF rec
  <1>3. job' \in [Jobs -> JobRecord] /\ job'[j] = rec /\ \A i \in Jobs \ {j} : job'[i] = job[i]
    BY <1>1, <1>2, Types
  <1>4. Stations' /\ Held' /\ Requests'
    BY <1>1, <1>2, <1>3, Enters DEF Inv, WellPlaced, Kept
  <1>5. NoRepeats' /\ InOneHand'
    BY <1>1, <1>2, <1>3, SameAlerts DEF Inv
  <1> QED
    BY <1>1, <1>3, <1>4, <1>5, Types, Combined

LEMMA OverStep ==
    ASSUME Inv, NEW j \in Jobs, job[j].held \in Kinds, Over(j),
           UNCHANGED <<up, exits>>
    PROVE  Inv'
  <1>1. /\ ReleaseRun(job[j].held) /\ job' = [job EXCEPT ![j] = NoJob]
        /\ queue' = queue /\ told' = told
    BY DEF Over, Unlock, alertVars
  <1>3. job' \in [Jobs -> JobRecord] /\ job'[j] = NoJob /\ \A i \in Jobs \ {j} : job'[i] = job[i]
    BY <1>1, Types, NoJobTyped
  <1>4. Stations' /\ Held' /\ Requests'
    BY <1>1, <1>3, NoJobTyped, Leaves DEF Inv, WellPlaced, Kept
  <1>5. NoRepeats' /\ InOneHand'
    BY <1>1, <1>3, NoJobTyped, SameAlerts DEF Inv
  <1> QED
    BY <1>1, <1>3, <1>4, <1>5, Types, Combined

LEMMA TickTyped ==
    /\ [NoJob EXCEPT !.tick = TRUE] \in JobRecord
    /\ [NoJob EXCEPT !.tick = TRUE].held = "none" /\ [NoJob EXCEPT !.tick = TRUE].row = "none"
    /\ [NoJob EXCEPT !.tick = TRUE].todo = <<>> /\ [NoJob EXCEPT !.tick = TRUE].pc = "idle"
  <1>1. NoJob \in JobRecord /\ DOMAIN NoJob = {"pc", "tick", "held", "row", "asked", "caught", "todo", "alerts"}
    BY NoJobTyped DEF NoJob
  <1>2. [NoJob EXCEPT !.tick = TRUE] \in JobRecord
    BY <1>1 DEF JobRecord
  <1> QED
    BY <1>2 DEF NoJob

LEMMA UnlockAndSend ==
    ASSUME Inv, NEW j \in Jobs, job[j].held \in Kinds, Unlock(j),
           NEW alerts \in Seq(Keys), SendAlerts(j, [NoJob EXCEPT !.tick = TRUE], alerts),
           UNCHANGED <<up, exits>>
    PROVE  Inv'
  <1>1. ReleaseRun(job[j].held)
    BY DEF Unlock
  <1>3. /\ job' \in [Jobs -> JobRecord]
        /\ \A i \in Jobs \ {j} : job'[i] = job[i]
        /\ job'[j].pc = "alerts" /\ job'[j].held = "none" /\ job'[j].row = "none"
        /\ queue' = queue /\ told' \in {told, "shared"}
        /\ NoRepeats' /\ InOneHand'
    BY TickTyped, Sends DEF Inv
  <1>4. Stations' /\ Held' /\ Requests'
    BY <1>1, <1>3, Leaves DEF Inv, WellPlaced, Kept
  <1>5. told' \in Told
    BY <1>3, Types DEF Told
  <1> QED
    BY <1>3, <1>4, <1>5, Types, Combined

LEMMA SendStep ==
    ASSUME Inv, NEW j \in Jobs, NEW r \in JobRecord, r.held = job[j].held,
           r.held \in {"none", "deliver"}, r.row = "cancelled" => r.asked,
           job[j].held = "deliver" /\ job[j].asked => r.asked,
           NEW alerts \in Seq(Keys), SendAlerts(j, r, alerts),
           UNCHANGED <<lockVars, up, exits>>
    PROVE  Inv'
  <1>1. /\ job' \in [Jobs -> JobRecord]
        /\ \A i \in Jobs \ {j} : job'[i] = job[i]
        /\ job'[j].pc = "alerts" /\ job'[j].held = r.held /\ job'[j].row = r.row
        /\ job'[j].asked = r.asked
        /\ queue' = queue /\ told' \in {told, "shared"}
        /\ NoRepeats' /\ InOneHand'
    BY Sends DEF Inv
  <1>2. Stations' /\ Held' /\ Requests'
    BY <1>1, Stays DEF Inv, WellPlaced, Kept
  <1>3. told' \in Told
    BY <1>1, Types DEF Told
  <1> QED
    BY <1>1, <1>2, <1>3, Types, Combined

LEMMA ExitStep ==
    ASSUME Inv, Exit
    PROVE  Inv'
  <1>1. /\ active' = {} /\ cancel' = {} /\ job' = [i \in Jobs |-> NoJob]
        /\ queue' = queue /\ up' = up
        /\ exits < MaxExits /\ exits' = exits + 1
    BY DEF Exit
  <1>2. told' \in {told, "shared"}
    BY DEF Exit
  <1>3. job' \in [Jobs -> JobRecord] /\ \A i \in Jobs : job'[i] = NoJob
    BY <1>1, NoJobTyped
  <1>4. Stations' /\ Held' /\ Requests'
    BY <1>1, <1>3, NoJobTyped DEF Stations, Held, Requests, CancelReachesItsRun, Kinds
  <1>5. NoRepeats' /\ InOneHand'
    BY <1>1, <1>2, <1>3, NoJobTyped, SameAlerts DEF Inv
  <1>6. exits' \in 0..MaxExits /\ told' \in Told
    BY <1>1, <1>2, Types, ServerAssumption DEF Told
  <1> QED
    BY <1>1, <1>3, <1>4, <1>5, <1>6, Types, Combined

-----------------------------------------------------------------------------
(* The actions.                                                            *)

LEMMA EvaluatedTyped ==
    /\ \A alerts \in Evaluated(CollectKeys) \cup Evaluated(DeliverKeys) : alerts \in Seq(Keys)
    /\ \A k \in DeliverKeys : <<k>> \in Seq(Keys)
  <1>1. CollectKeys \subseteq Keys /\ DeliverKeys \subseteq Keys
    BY DEF Keys
  <1>2. \A k \in Keys : <<k>> \in Seq(Keys)
    OBVIOUS
  <1>3. <<>> \in Seq(Keys)
    OBVIOUS
  <1> QED
    BY <1>1, <1>2, <1>3 DEF Evaluated

LEMMA Starting ==
    ASSUME Inv, NEW j \in Jobs, Begins(j)
    PROVE  Inv'
  <1>1. CASE \E kind \in {"collect", "deliver"} : Tick(j, kind)
    <2>1. PICK kind \in {"collect", "deliver"} : Tick(j, kind)
      BY <1>1
    <2>2. kind \in Kinds /\ job[j] = NoJob /\ Enter(j, [NoJob EXCEPT !.tick = TRUE], kind)
      BY <2>1 DEF Tick, Kinds
    <2> QED
      BY <2>2, TickTyped, NoJobTyped, EnterStep
  <1>2. CASE \E kind \in Kinds : ApiRequest(j, kind)
    BY <1>2, NoJobTyped, EnterStep DEF ApiRequest
  <1>3. CASE Misconfigured(j)
    <2>1. PICK k \in DeliverKeys : SendAlerts(j, [NoJob EXCEPT !.tick = TRUE], <<k>>)
      BY <1>3 DEF Misconfigured
    <2>2. job[j].held = "none" /\ <<k>> \in Seq(Keys) /\ UNCHANGED <<lockVars, up, exits>>
      BY <1>3, NoJobTyped, EvaluatedTyped DEF Misconfigured
    <2> QED
      BY <2>1, <2>2, TickTyped, SendStep
  <1> QED
    BY <1>1, <1>2, <1>3 DEF Begins

LEMMA ThrownRows == \A row \in AfterThrow : row \in Rows /\ row # "cancelled"
  BY DEF AfterThrow, Rows

LEMMA Collecting ==
    ASSUME Inv, NEW j \in Jobs, CollectReturns(j) \/ CollectThrows(j)
    PROVE  Inv'
  <1>0. job[j].held \in Kinds /\ job[j].held = "collect" /\ UNCHANGED <<up, exits>>
    BY DEF CollectReturns, CollectThrows, Kinds
  <1>1. CASE CollectReturns(j) /\ job[j].tick
    <2> DEFINE rec == [NoJob EXCEPT !.pc = "dedupNext", !.tick = TRUE]
    <2>1. /\ ReleaseRun(job[j].held) /\ job' = [job EXCEPT ![j] = rec]
          /\ queue' = queue /\ told' = told
      BY <1>1 DEF CollectReturns, Unlock, alertVars
    <2>3. rec \in JobRecord
      BY NoJobTyped DEF JobRecord, PCs
    <2>4. rec.pc = "dedupNext" /\ rec.held = "none" /\ rec.row = "none" /\ rec.todo = <<>>
      BY DEF NoJob
    <2> HIDE DEF rec
    <2>5. job' \in [Jobs -> JobRecord] /\ job'[j] = rec /\ \A i \in Jobs \ {j} : job'[i] = job[i]
      BY <2>1, <2>3, Types
    <2>6. Stations' /\ Held' /\ Requests'
      BY <1>0, <2>1, <2>4, <2>5, Leaves DEF Inv, WellPlaced, Kept
    <2>7. NoRepeats' /\ InOneHand'
      BY <2>1, <2>4, <2>5, SameAlerts DEF Inv
    <2> QED
      BY <1>0, <2>1, <2>5, <2>6, <2>7, Types, Combined
  <1>2. CASE CollectReturns(j) /\ ~job[j].tick
    BY <1>0, <1>2, OverStep DEF CollectReturns
  <1>3. CASE CollectThrows(j) /\ job[j].tick
    <2>1. PICK alerts \in Evaluated(CollectKeys) :
             Unlock(j) /\ SendAlerts(j, [NoJob EXCEPT !.tick = TRUE], alerts)
      BY <1>3 DEF CollectThrows
    <2> QED
      BY <1>0, <2>1, EvaluatedTyped, UnlockAndSend
  <1>4. CASE CollectThrows(j) /\ ~job[j].tick
    BY <1>0, <1>4, OverStep DEF CollectThrows
  <1> QED
    BY <1>1, <1>2, <1>3, <1>4

LEMMA Deduplicating ==
    ASSUME Inv, NEW j \in Jobs, DedupNext(j) \/ DedupReturns(j) \/ DedupThrows(j)
    PROVE  Inv'
  <1>1. CASE DedupNext(j)
    <2>1. job[j].held = "none" /\ job[j] \in JobRecord
      BY <1>1, Types DEF DedupNext, Inv, LockInv, Stations
    <2>2. CASE Enter(j, job[j], "dedup")
      BY <2>1, <2>2, EnterStep DEF Kinds
    <2>3. CASE /\ \E alerts \in Evaluated(CollectKeys) :
                     SendAlerts(j, [NoJob EXCEPT !.tick = TRUE], alerts)
               /\ UNCHANGED <<lockVars, up, exits>>
      BY <2>1, <2>3, TickTyped, EvaluatedTyped, SendStep
    <2> QED
      BY <1>1, <2>2, <2>3 DEF DedupNext
  <1>2. CASE DedupReturns(j) /\ job[j].tick
    <2>1. PICK alerts \in Evaluated(CollectKeys) :
             Unlock(j) /\ SendAlerts(j, [NoJob EXCEPT !.tick = TRUE], alerts)
      BY <1>2 DEF DedupReturns
    <2>2. job[j].held \in Kinds /\ UNCHANGED <<up, exits>>
      BY <1>2 DEF DedupReturns, Kinds
    <2> QED
      BY <2>1, <2>2, EvaluatedTyped, UnlockAndSend
  <1>3. CASE DedupReturns(j) /\ ~job[j].tick
    BY <1>3, OverStep DEF DedupReturns, Kinds
  <1>4. CASE DedupThrows(j) /\ job[j].tick
    BY <1>4, ExitStep DEF DedupThrows
  <1>5. CASE DedupThrows(j) /\ ~job[j].tick
    BY <1>5, OverStep DEF DedupThrows, Kinds
  <1> QED
    BY <1>1, <1>2, <1>3, <1>4, <1>5

(* A delivery's row is cancelled on request, and the request was its own.  *)
LEMMA OwnRequest ==
    ASSUME Inv, NEW j \in Jobs, job[j].held = "deliver", NEW row \in DeliverOutcomes
    PROVE  row \in Rows /\ (row = "cancelled" => job[j].asked)
  <1>1. row = "closed" \/ (row = "cancelled" /\ "deliver" \in cancel)
    BY DEF DeliverOutcomes
  <1>2. ASSUME "deliver" \in cancel PROVE job[j].asked
    <2>1. PICK i \in Jobs : job[i].held = "deliver" /\ job[i].asked
      BY <1>2 DEF Inv, LockInv, Requests, CancelReachesItsRun
    <2>2. i = j
      BY <2>1 DEF Inv, LockInv, Held
    <2> QED
      BY <2>1, <2>2
  <1> QED
    BY <1>1, <1>2 DEF Rows

LEMMA Delivering ==
    ASSUME Inv, NEW j \in Jobs, DeliverReturns(j) \/ DeliverThrows(j)
    PROVE  Inv'
  <1>0. job[j].held = "deliver" /\ job[j].held \in Kinds /\ job[j] \in JobRecord
           /\ UNCHANGED <<up, exits>>
    BY Types DEF DeliverReturns, DeliverThrows, Kinds
  <1>1. CASE DeliverReturns(j) /\ job[j].tick
    <2>1. PICK row \in DeliverOutcomes, alerts \in Evaluated(DeliverKeys) :
             SendAlerts(j, [job[j] EXCEPT !.row = row], alerts) /\ UNCHANGED lockVars
      BY <1>1 DEF DeliverReturns
    <2> DEFINE rec == [job[j] EXCEPT !.row = row]
    <2>2. row \in Rows /\ (row = "cancelled" => job[j].asked)
      BY <1>0, OwnRequest
    <2>3. rec \in JobRecord /\ rec.held = "deliver" /\ rec.row = row /\ rec.asked = job[j].asked
      BY <1>0, <2>2 DEF JobRecord
    <2>4. SendAlerts(j, rec, alerts) /\ alerts \in Seq(Keys)
      BY <2>1, EvaluatedTyped
    <2> HIDE DEF rec
    <2> QED
      BY <1>0, <2>1, <2>2, <2>3, <2>4, SendStep
  <1>2. CASE DeliverReturns(j) /\ ~job[j].tick
    BY <1>0, <1>2, OverStep DEF DeliverReturns
  <1>3. CASE DeliverThrows(j) /\ job[j].tick
    <2>1. PICK row \in AfterThrow, k \in DeliverKeys :
             /\ SendAlerts(j, [job[j] EXCEPT !.row = row, !.caught = TRUE], <<k>>)
             /\ UNCHANGED lockVars
      BY <1>3 DEF DeliverThrows
    <2> DEFINE rec == [job[j] EXCEPT !.row = row, !.caught = TRUE]
    <2>2. rec \in JobRecord /\ rec.held = "deliver" /\ rec.row = row /\ rec.asked = job[j].asked
      BY <1>0, ThrownRows DEF JobRecord
    <2>3. SendAlerts(j, rec, <<k>>) /\ <<k>> \in Seq(Keys)
      BY <2>1, EvaluatedTyped
    <2> HIDE DEF rec
    <2> QED
      BY <1>0, <2>1, <2>2, <2>3, ThrownRows, SendStep
  <1>4. CASE DeliverThrows(j) /\ ~job[j].tick
    BY <1>0, <1>4, OverStep DEF DeliverThrows
  <1> QED
    BY <1>1, <1>2, <1>3, <1>4

(* The sends themselves: lock and rows stay as they are.                   *)
LEMMA Sending ==
    ASSUME Inv, NEW j \in Jobs, Redelivered(j) \/ Raised(j)
    PROVE  Inv'
  <1>1. /\ job' \in [Jobs -> JobRecord] /\ \A i \in Jobs : Kept(i)
        /\ queue' \in Seq(Keys) /\ Len(queue') <= MaxQueued /\ told' \in Told
        /\ NoRepeats' /\ InOneHand'
    <2>1. CASE Redelivered(j)
      <3>1. /\ job' \in [Jobs -> JobRecord] /\ \A i \in Jobs : Kept(i)
            /\ queue' \in Seq(Keys) /\ Len(queue') <= Len(queue) /\ told' \in Told
            /\ NoRepeats' /\ InOneHand'
        BY <2>1, RedeliveredStep DEF Inv
      <3>2. queue \in Seq(Keys) /\ Len(queue) <= MaxQueued /\ MaxQueued \in Nat
        BY Types, ServerAssumption
      <3>3. Len(queue) \in Nat /\ Len(queue') \in Nat
        BY <3>1, <3>2
      <3>4. Len(queue') <= MaxQueued
        BY <3>1, <3>2, <3>3
      <3> QED
        BY <3>1, <3>4
    <2>2. CASE Raised(j)
      BY <2>2, RaisedStep DEF Inv
    <2> QED
      BY <2>1, <2>2
  <1>2. /\ active' = active /\ cancel' = cancel /\ up' = up /\ exits' = exits
    BY DEF Redelivered, Raised, lockVars
  <1>3. WellPlaced(j)
    BY <1>1 DEF Kept, WellPlaced, Inv, LockInv, Stations, Requests, CancelReachesItsRun
  <1>4. Stations' /\ Held' /\ Requests'
    BY <1>1, <1>2, <1>3, Stays DEF Inv, lockVars, Kept
  <1> QED
    BY <1>1, <1>2, <1>4, Types, Combined

LEMMA Ending ==
    ASSUME Inv, NEW j \in Jobs, AlertsDone(j) \/ Backup(j) \/ AlertsThrow(j)
    PROVE  Inv'
  <1>1. CASE AlertsDone(j) /\ job[j].held = "deliver"
    <2> DEFINE rec == [job[j] EXCEPT !.pc = "backup", !.held = "none"]
    <2>1. /\ ReleaseRun("deliver")
          /\ job' = [job EXCEPT ![j].pc = "backup", ![j].held = "none"]
          /\ up' = up /\ exits' = exits /\ queue' = queue /\ told' = told
      BY <1>1 DEF AlertsDone, alertVars
    <2>2. job[j].row = "cancelled" => job[j].asked
      BY <1>1 DEF AlertsDone, Inv, LockInv, Stations, Requests, CancelReachesItsRun
    <2>4. rec \in JobRecord /\ rec.pc = "backup" /\ rec.held = "none" /\ rec.row = job[j].row
             /\ rec.asked = job[j].asked /\ rec.todo = job[j].todo
      BY Types DEF JobRecord, PCs
    <2>5. job' = [job EXCEPT ![j] = rec]
      BY <2>1, Types DEF JobRecord
    <2> HIDE DEF rec
    <2>6. job' \in [Jobs -> JobRecord] /\ job'[j] = rec /\ \A i \in Jobs \ {j} : job'[i] = job[i]
      BY <2>4, <2>5, Types
    <2>7. WellPlaced(j) /\ \A i \in Jobs \ {j} : Kept(i)
      BY <2>2, <2>4, <2>6 DEF WellPlaced, Kept
    <2>8. Stations' /\ Held' /\ Requests'
      BY <1>1, <2>1, <2>4, <2>6, <2>7, Leaves DEF Inv, Kinds
    <2>9. NoRepeats' /\ InOneHand'
      BY <2>1, <2>4, <2>6, SameAlerts DEF Inv
    <2> QED
      BY <2>1, <2>6, <2>8, <2>9, Types, Combined
  <1>2. ASSUME job[j].held = "none", job' = [job EXCEPT ![j] = NoJob],
               UNCHANGED <<lockVars, up, alertVars, exits>>
        PROVE  Inv'
    <2>1. job' \in [Jobs -> JobRecord] /\ job'[j] = NoJob /\ \A i \in Jobs \ {j} : job'[i] = job[i]
      BY <1>2, Types, NoJobTyped
    <2>2. Stations' /\ Held' /\ Requests'
      BY <1>2, <2>1, NoJobTyped, Stays DEF Inv, WellPlaced, Kept
    <2>3. NoRepeats' /\ InOneHand'
      BY <1>2, <2>1, NoJobTyped, SameAlerts DEF Inv, alertVars
    <2> QED
      BY <1>2, <2>1, <2>2, <2>3, Types, Combined DEF alertVars
  <1>3. CASE AlertsDone(j) /\ job[j].held # "deliver"
    <2>1. job[j].held = "none"
      BY <1>3 DEF AlertsDone, Inv, LockInv, Stations
    <2> QED
      BY <1>2, <1>3, <2>1 DEF AlertsDone
  <1>4. CASE Backup(j)
    <2>1. job[j].held = "none"
      BY <1>4 DEF Backup, Inv, LockInv, Stations
    <2>2. CASE job' = [job EXCEPT ![j] = NoJob] /\ UNCHANGED alertVars
      BY <1>2, <1>4, <2>1, <2>2 DEF Backup
    <2>3. CASE \E k \in DeliverKeys : SendAlerts(j, [NoJob EXCEPT !.tick = TRUE], <<k>>)
      <3>1. PICK k \in DeliverKeys : SendAlerts(j, [NoJob EXCEPT !.tick = TRUE], <<k>>)
        BY <2>3
      <3>2. <<k>> \in Seq(Keys) /\ UNCHANGED <<lockVars, up, exits>>
        BY <1>4, EvaluatedTyped DEF Backup
      <3> QED
        BY <2>1, <3>1, <3>2, TickTyped, SendStep
    <2> QED
      BY <1>4, <2>2, <2>3 DEF Backup
  <1>5. CASE AlertsThrow(j) /\ job[j].held = "deliver" /\ ~job[j].caught
    <2>1. PICK k \in DeliverKeys : SendAlerts(j, [job[j] EXCEPT !.caught = TRUE], <<k>>)
      BY <1>5 DEF AlertsThrow
    <2>2. <<k>> \in Seq(Keys) /\ UNCHANGED <<lockVars, up, exits>>
      BY <1>5, EvaluatedTyped DEF AlertsThrow
    <2>3. job[j].row = "cancelled" => job[j].asked
      BY <1>5 DEF AlertsThrow, Inv, LockInv, Stations, Requests, CancelReachesItsRun
    <2> DEFINE rec == [job[j] EXCEPT !.caught = TRUE]
    <2>4. rec \in JobRecord /\ rec.held = job[j].held /\ rec.row = job[j].row
             /\ rec.asked = job[j].asked
      BY Types DEF JobRecord
    <2>5. SendAlerts(j, rec, <<k>>)
      BY <2>1
    <2> HIDE DEF rec
    <2> QED
      BY <1>5, <2>2, <2>3, <2>4, <2>5, SendStep
  <1>6. CASE AlertsThrow(j) /\ ~(job[j].held = "deliver" /\ ~job[j].caught)
    BY <1>6, ExitStep DEF AlertsThrow
  <1> QED
    BY <1>1, <1>3, <1>4, <1>5, <1>6

LEMMA Cancelling ==
    ASSUME Inv, Cancel
    PROVE  Inv'
  <1>1. /\ "deliver" \in active /\ cancel' = cancel \cup {"deliver"} /\ active' = active
        /\ job' = [j \in Jobs |-> IF job[j].held = "deliver"
                                  THEN [job[j] EXCEPT !.asked = TRUE] ELSE job[j]]
        /\ up' = up /\ exits' = exits /\ queue' = queue /\ told' = told
    BY DEF Cancel, alertVars
  <1>2. \A j \in Jobs : /\ [job[j] EXCEPT !.asked = TRUE] \in JobRecord
                        /\ [job[j] EXCEPT !.asked = TRUE].pc = job[j].pc
                        /\ [job[j] EXCEPT !.asked = TRUE].held = job[j].held
                        /\ [job[j] EXCEPT !.asked = TRUE].row = job[j].row
                        /\ [job[j] EXCEPT !.asked = TRUE].todo = job[j].todo
                        /\ [job[j] EXCEPT !.asked = TRUE].asked = TRUE
    BY Types DEF JobRecord
  <1>3. /\ job' \in [Jobs -> JobRecord]
        /\ \A j \in Jobs : /\ job'[j].pc = job[j].pc /\ job'[j].held = job[j].held
                           /\ job'[j].row = job[j].row /\ job'[j].todo = job[j].todo
                           /\ job'[j].asked = IF job[j].held = "deliver" THEN TRUE
                                              ELSE job[j].asked
    <2>1. \A j \in Jobs : job'[j] = IF job[j].held = "deliver"
                                    THEN [job[j] EXCEPT !.asked = TRUE] ELSE job[j]
      BY <1>1
    <2>2. \A j \in Jobs : job'[j] \in JobRecord
      BY <1>2, <2>1, Types
    <2>3. job' \in [Jobs -> JobRecord]
      BY <1>1, <2>1, <2>2
    <2> QED
      BY <1>2, <2>1, <2>3
  <1>4. Stations'
    BY <1>3 DEF Inv, LockInv, Stations
  <1>5. Held'
    BY <1>1, <1>3 DEF Inv, LockInv, Held
  <1>6. Requests'
    <2>1. \E j \in Jobs : job[j].held = "deliver"
      BY <1>1 DEF Inv, LockInv, Held, Kinds
    <2>2. \E j \in Jobs : job'[j].held = "deliver" /\ job'[j].asked
      BY <1>3, <2>1
    <2>3. \A j \in Jobs : job'[j].row = "cancelled" => job'[j].asked
      BY <1>3 DEF Inv, LockInv, Requests, CancelReachesItsRun
    <2> QED
      BY <1>1, <2>2, <2>3 DEF Inv, LockInv, Requests, CancelReachesItsRun
  <1>7. NoRepeats' /\ InOneHand'
    BY <1>1, <1>3, SameAlerts DEF Inv
  <1> QED
    BY <1>1, <1>3, <1>4, <1>5, <1>6, <1>7, Types, Combined

LEMMA Unmoved ==
    ASSUME Inv, up' \in BOOLEAN, UNCHANGED <<lockVars, job, alertVars, exits>>
    PROVE  Inv'
  <1>1. /\ active' = active /\ cancel' = cancel /\ job' = job
        /\ queue' = queue /\ told' = told /\ exits' = exits
    BY DEF lockVars, alertVars
  <1>2. Stations' /\ Held' /\ Requests'
    BY <1>1 DEF Inv, LockInv, Stations, Held, Requests, CancelReachesItsRun
  <1>3. NoRepeats' /\ InOneHand'
    BY <1>1, SameAlerts DEF Inv
  <1> QED
    BY <1>1, <1>2, <1>3, Types, Combined

-----------------------------------------------------------------------------
(* The specification.                                                      *)

LEMMA Initially == ServerInit => Inv
  <1> SUFFICES ASSUME ServerInit PROVE Inv
    OBVIOUS
  <1>1. \A j \in Jobs : job[j] = NoJob
    BY DEF ServerInit
  <1>2. job \in [Jobs -> JobRecord]
    BY <1>1, NoJobTyped DEF ServerInit
  <1>3. queue = <<>> /\ queue \in Seq(Keys) /\ Len(queue) = 0
    BY DEF ServerInit
  <1>4. ServerTypeOK
    <2>1. up \in BOOLEAN
      BY Zenon DEF ServerInit
    <2>2. Len(queue) <= MaxQueued /\ exits \in 0..MaxExits
      BY <1>3, ServerAssumption DEF ServerInit
    <2>3. active \in SUBSET Kinds /\ cancel \in SUBSET Kinds /\ told \in Told
      BY DEF ServerInit, Told
    <2> QED
      BY <1>2, <1>3, <2>1, <2>2, <2>3, Zenon DEF ServerTypeOK, JobRecord
  <1>5. Stations /\ Held /\ Requests
    BY <1>1, NoJobTyped DEF ServerInit, Stations, Held, Requests, CancelReachesItsRun, Kinds
  <1>6. NoRepeats
    BY <1>3 DEF NoRepeats
  <1>7. InOneHand
    BY <1>1, NoJobTyped DEF ServerInit, InOneHand, Has
  <1> QED
    BY <1>4, <1>5, <1>6, <1>7 DEF Inv, LockInv, QueueInv

LEMMA Inductive == Inv /\ [ServerNext]_serverVars => Inv'
  <1> SUFFICES ASSUME Inv, [ServerNext]_serverVars PROVE Inv'
    OBVIOUS
  <1>1. CASE \E j \in Jobs : Begins(j)
    BY <1>1, Starting
  <1>2. CASE \E j \in Jobs : Progress(j)
    BY <1>2, Collecting, Deduplicating, Delivering, Sending, Ending DEF Progress
  <1>3. CASE \E j \in Jobs : Fails(j)
    BY <1>3, Collecting, Deduplicating, Delivering, Ending DEF Fails
  <1>4. CASE Cancel
    BY <1>4, Cancelling
  <1>5. CASE Exit
    BY <1>5, ExitStep
  <1>6. CASE Channel
    <2>1. up' \in BOOLEAN
      BY <1>6, Zenon DEF Channel
    <2> QED
      BY <1>6, <2>1, Unmoved DEF Channel
  <1>7. CASE UNCHANGED serverVars
    <2>1. up' \in BOOLEAN
      BY <1>7, Types DEF serverVars
    <2> QED
      BY <1>7, <2>1, Unmoved DEF serverVars, lockVars, alertVars
  <1> QED
    BY <1>1, <1>2, <1>3, <1>4, <1>5, <1>6, <1>7 DEF ServerNext

LEMMA Always == ServerSpec => []Inv
  BY Initially, Inductive, PTL DEF ServerSpec

(* The state of the server's handlers is always of its type: the queue is  *)
(* within MAX_QUEUED_ALERTS, whatever is raised while the chat is away.     *)
THEOREM TypeInvariant == ServerSpec => []ServerTypeOK
  <1>1. Inv => ServerTypeOK
    BY DEF Inv, LockInv
  <1> QED
    BY Always, <1>1, PTL

(* The run lock holds a kind exactly while one handler is inside a section  *)
(* of that kind, however sections end, whatever process exits come between  *)
(* (RunLock, runExclusive).                                                 *)
THEOREM LockIsTheHolders == ServerSpec => []LockMatchesHolders
  <1>1. Inv => LockMatchesHolders
    <2> SUFFICES ASSUME Inv PROVE LockMatchesHolders
      OBVIOUS
    <2>1. active = {job[j].held : j \in Jobs} \ {"none"}
      <3>1. \A j \in Jobs : job[j].held \in Kinds \cup {"none"}
        BY Types DEF JobRecord
      <3>2. \A kind \in Kinds : kind # "none"
        BY DEF Kinds
      <3>3. active \subseteq Kinds
        BY DEF Inv, LockInv, Held
      <3>4. \A kind \in Kinds : kind \in active <=> kind \in {job[j].held : j \in Jobs} \ {"none"}
        BY <3>2 DEF Inv, LockInv, Held
      <3> QED
        BY <3>1, <3>3, <3>4
    <2> QED
      BY <2>1 DEF LockMatchesHolders, Inv, LockInv, Held
  <1> QED
    BY Always, <1>1, PTL

(* A delivery ends cancelled only at the operator's request during that     *)
(* delivery, never at one that came too late for an earlier one             *)
(* (RunLock.requestCancel, release).                                        *)
THEOREM CancelIsForThisRun == ServerSpec => []CancelReachesItsRun
  <1>1. Inv => CancelReachesItsRun
    BY DEF Inv, LockInv, Requests
  <1> QED
    BY Always, <1>1, PTL

(* Only a redelivery that has sent a row takes a row out of the queue, and *)
(* the rows that stay keep their order.                                    *)
LEMMA TakenOut ==
    ASSUME Inv, NEW j \in Jobs, Redelivered(j)
    PROVE  WaitsItsTurn
  <1> DEFINE listed == Head(job[j].todo)
  <1>1. /\ queue \in Seq(Keys) /\ NoRepeats /\ job \in [Jobs -> JobRecord]
        /\ job[j].todo \in Seq(Listed) /\ job[j].todo # <<>>
    BY Types DEF Inv, QueueInv, Redelivered, JobRecord
  <1>2. listed \in Listed
    <2>1. Len(job[j].todo) \in Nat \ {0}
      BY <1>1, EmptySeq
    <2> QED
      BY <1>1, <2>1
  <1>3. \/ queue' = queue
        \/ /\ up /\ queue' = Removed(listed)
           /\ job' = [i \in Jobs |-> IF i = j THEN [job[j] EXCEPT !.todo = Tail(@)]
                                     ELSE [job[i] EXCEPT !.todo = Outdated(@, listed)]]
    BY DEF Redelivered
  <1> HIDE DEF listed
  <1>4. CASE queue' = queue
    BY <1>4 DEF WaitsItsTurn, Queued
  <1>5. CASE ~(listed.live /\ listed.key \in Queued) /\ queue' = Removed(listed)
    <2>1. queue' = queue
      BY <1>5 DEF Removed
    <2> QED
      BY <1>4, <2>1
  <1>6. ASSUME listed.live, listed.key \in Queued, up, queue' = Removed(listed),
               job' = [i \in Jobs |-> IF i = j THEN [job[j] EXCEPT !.todo = Tail(@)]
                                      ELSE [job[i] EXCEPT !.todo = Outdated(@, listed)]]
        PROVE  WaitsItsTurn
    <2>1. PICK n \in DOMAIN queue :
              /\ queue[n] = listed.key
              /\ queue' \in Seq(Keys) /\ Len(queue') = Len(queue) - 1
              /\ \A i \in 1..Len(queue) - 1 : queue'[i] = IF i < n THEN queue[i] ELSE queue[i + 1]
      BY <1>1, <1>2, <1>6, Removals
    <2> DEFINE l == Len(queue)
               now(i) == IF i < n THEN i ELSE i - 1
    <2>2. /\ l \in Nat /\ DOMAIN queue = 1..l /\ DOMAIN queue' = 1..l - 1 /\ n \in 1..l
          /\ \A i \in 1..l - 1 : queue'[i] = IF i < n THEN queue[i] ELSE queue[i + 1]
      BY <1>1, <2>1
    <2> HIDE DEF l
    <2>3. \A i \in 1..l : i # n => now(i) \in 1..l - 1 /\ queue'[now(i)] = queue[i]
      <3> SUFFICES ASSUME NEW i \in 1..l, i # n
                   PROVE  now(i) \in 1..l - 1 /\ queue'[now(i)] = queue[i]
        OBVIOUS
      <3>1. CASE i < n
        BY <2>2, <3>1
      <3>2. CASE i > n
        <4>1. i - 1 \in 1..l - 1 /\ ~(i - 1 < n) /\ (i - 1) + 1 = i /\ ~(i < n)
          BY <2>2, <3>2
        <4> QED
          BY <2>2, <4>1
      <3> QED
        BY <2>2, <3>1, <3>2
    <2>4. \A a, b \in 1..l : a < b /\ a # n /\ b # n => now(a) < now(b)
      BY <2>2
    <2> HIDE DEF now
    <2>5. job'[j].todo = Tail(job[j].todo)
      BY <1>1, <1>6 DEF JobRecord
    <2>6. \A k \in Queued : k \notin Queued' => up /\ \E i \in Jobs :
             job[i].todo # <<>> /\ Head(job[i].todo).key = k /\ job'[i].todo = Tail(job[i].todo)
      <3> SUFFICES ASSUME NEW k \in Queued, k \notin Queued'
                   PROVE  Head(job[j].todo).key = k
        BY <1>1, <1>6, <2>5
      <3>1. PICK i \in 1..l : queue[i] = k
        BY <2>2 DEF Queued
      <3>2. i = n
        BY <2>2, <2>3, <3>1 DEF Queued
      <3> QED
        BY <2>1, <3>1, <3>2 DEF listed
    <2>7. queue[n] \notin Queued'
      <3> SUFFICES ASSUME NEW i \in 1..l - 1, queue'[i] = queue[n]
                   PROVE  FALSE
        BY <2>2 DEF Queued
      <3>1. CASE i < n
        <4>1. i \in 1..l /\ i # n /\ queue[i] = queue[n]
          BY <2>2, <3>1
        <4> QED
          BY <1>1, <2>2, <4>1 DEF NoRepeats
      <3>2. CASE ~(i < n)
        <4>1. i + 1 \in 1..l /\ i + 1 # n /\ queue[i + 1] = queue[n]
          BY <2>2, <3>2
        <4> QED
          BY <1>1, <2>2, <4>1 DEF NoRepeats
      <3> QED
        BY <3>1, <3>2
    <2>8. \A a, b \in 1..l : a < b /\ queue[a] \in Queued' /\ queue[b] \in Queued' =>
             \E c, d \in 1..l - 1 : c < d /\ queue'[c] = queue[a] /\ queue'[d] = queue[b]
      <3> SUFFICES ASSUME NEW a \in 1..l, NEW b \in 1..l, a < b,
                          queue[a] \in Queued', queue[b] \in Queued'
                   PROVE  \E c, d \in 1..l - 1 :
                             c < d /\ queue'[c] = queue[a] /\ queue'[d] = queue[b]
        OBVIOUS
      <3>1. a # n /\ b # n
        BY <2>7
      <3>2. now(a) \in 1..l - 1 /\ now(b) \in 1..l - 1 /\ now(a) < now(b)
               /\ queue'[now(a)] = queue[a] /\ queue'[now(b)] = queue[b]
        BY <2>3, <2>4, <3>1
      <3> QED
        BY <3>2
    <2>9. DOMAIN queue = 1..l /\ DOMAIN queue' = 1..l - 1
      BY <2>2
    <2> QED
      BY <2>6, <2>8, <2>9 DEF WaitsItsTurn
  <1> QED
    BY <1>3, <1>4, <1>5, <1>6

(* An alert that is raised goes behind those that wait, or nowhere.        *)
LEMMA PutBehind ==
    ASSUME Inv, NEW j \in Jobs, Raised(j)
    PROVE  WaitsItsTurn
  <1> DEFINE key == Head(job[j].alerts)
  <1>1. /\ queue \in Seq(Keys) /\ Len(queue) <= MaxQueued
        /\ job[j].alerts \in Seq(Keys) /\ job[j].alerts # <<>>
    BY Types DEF Raised, JobRecord
  <1>2. key \in Keys
    <2>1. Len(job[j].alerts) \in Nat \ {0}
      BY <1>1, EmptySeq
    <2> QED
      BY <1>1, <2>1
  <1>3. queue' = queue \/ queue' = Enqueued(key)
    BY DEF Raised, alertVars
  <1> HIDE DEF key
  <1>4. CASE queue' = queue
    BY <1>4 DEF WaitsItsTurn, Queued
  <1>5. CASE key \in Queued /\ queue' = Enqueued(key)
    BY <1>4, <1>5 DEF Enqueued
  <1>6. CASE key \notin Queued /\ queue' = Enqueued(key)
    <2>1. /\ queue' \in Seq(Keys)
          /\ Len(queue') = Len(queue) \/ Len(queue') = Len(queue) + 1
          /\ \A i \in 1..Len(queue) : queue'[i] = queue[i]
      BY <1>1, <1>2, <1>6, Additions
    <2>2. Len(queue) \in Nat /\ DOMAIN queue = 1..Len(queue) /\ DOMAIN queue' = 1..Len(queue')
      BY <1>1, <2>1
    <2>3. DOMAIN queue \subseteq DOMAIN queue'
      <3> DEFINE l == Len(queue)
                 m == Len(queue')
      <3>1. l \in Nat /\ (m = l \/ m = l + 1)
        BY <2>1, <2>2
      <3> HIDE DEF l, m
      <3>2. 1..l \subseteq 1..m
        BY <3>1, OneLonger
      <3> QED
        BY <2>2, <3>2 DEF l, m
    <2>4. \A i \in DOMAIN queue : i \in DOMAIN queue' /\ queue'[i] = queue[i]
      BY <2>1, <2>2, <2>3
    <2>5. \A k \in Queued : k \in Queued'
      BY <2>4 DEF Queued
    <2> QED
      BY <2>4, <2>5 DEF WaitsItsTurn
  <1> QED
    BY <1>3, <1>4, <1>5, <1>6

LEMMA Turns == Inv /\ [ServerNext]_serverVars => [WaitsItsTurn]_serverVars
  <1> SUFFICES ASSUME Inv, [ServerNext]_serverVars PROVE WaitsItsTurn \/ UNCHANGED serverVars
    OBVIOUS
  <1>1. ASSUME NEW j \in Jobs, Redelivered(j) \/ Raised(j) PROVE WaitsItsTurn
    BY <1>1, TakenOut, PutBehind
  <1>2. CASE queue' = queue
    BY <1>2 DEF WaitsItsTurn, Queued
  <1>3. CASE \E j \in Jobs : Begins(j)
    BY <1>2, <1>3 DEF Begins, Tick, ApiRequest, Misconfigured, Enter, SendAlerts, alertVars
  <1>4. CASE Cancel \/ Exit \/ Channel
    BY <1>2, <1>4 DEF Cancel, Exit, Channel, alertVars
  <1>5. ASSUME NEW j \in Jobs, CollectReturns(j) \/ DedupNext(j) \/ DedupReturns(j)
                                 \/ DeliverReturns(j)
        PROVE  queue' = queue
    BY <1>5 DEF CollectReturns, DedupNext, DedupReturns, DeliverReturns, Over, Enter,
                SendAlerts, alertVars
  <1>6. ASSUME NEW j \in Jobs, AlertsDone(j) \/ Backup(j) PROVE queue' = queue
    BY <1>6 DEF AlertsDone, Backup, SendAlerts, alertVars
  <1>7. ASSUME NEW j \in Jobs, Fails(j) PROVE queue' = queue
    BY <1>7 DEF Fails, CollectThrows, DeliverThrows, DedupThrows, AlertsThrow, Over, Exit,
                SendAlerts, alertVars
  <1> QED
    BY <1>1, <1>2, <1>3, <1>4, <1>5, <1>6, <1>7 DEF ServerNext, Progress

(* An alert leaves the queue by being sent, once; neither the limit nor a   *)
(* later alert nor a restart displaces one that waits, or changes who waits *)
(* longer; and the table keeps within its limit (PendingAlertsRepository).  *)
THEOREM AlertsAreKept == ServerSpec => AlertsKept
  <1>1. Inv => RedeliveredOnce /\ Len(queue) <= MaxQueued
    BY DEF Inv, QueueInv, InOneHand, RedeliveredOnce, ServerTypeOK
  <1> QED
    BY Always, <1>1, Turns, PTL DEF ServerSpec, AlertsKept
=============================================================================
