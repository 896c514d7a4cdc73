----------------------------- MODULE ServerRuns -----------------------------
(***************************************************************************)
(* The jobs of the one server process: the cron ticks of SchedulerService, *)
(* the requests of RunsService, the RunLock they share, the run rows they  *)
(* open and close, and the queue of alerts that could not be sent.         *)
(* What a collect, a dedup or a delivery does inside its section is the    *)
(* subject of other modules; here it is how it may end.                    *)
(***************************************************************************)
EXTENDS Naturals, Sequences, FiniteSets

CONSTANTS Jobs,        \* handlers that may be in progress at the same time
          CollectKeys, \* keys of the alerts a collection cycle evaluates
          DeliverKeys, \* keys of the alerts a delivery cycle raises
          Watched,     \* the key whose redeliveries are counted
          MaxQueued,   \* MAX_QUEUED_ALERTS
          PerCycle,    \* MAX_ALERT_REDELIVERIES_PER_CYCLE
          MaxExits     \* bound: how often the process goes down

ASSUME ServerAssumption == /\ MaxQueued \in Nat \ {0}
                           /\ PerCycle \in Nat \ {0}
                           /\ MaxExits \in Nat
                           /\ Watched \in CollectKeys \cup DeliverKeys

VARIABLES active,      \* RunLock.active
          cancel,      \* RunLock.cancelRequested
          job,         \* the local state of each handler
          queue,       \* pending_alerts: the keys by firstQueuedAt
          up,          \* does the chat accept messages
          told,        \* history: what became of Watched since it was queued
          exits

serverVars == <<active, cancel, job, queue, up, told, exits>>
alertVars == <<queue, told>>
lockVars  == <<active, cancel>>

Keys  == CollectKeys \cup DeliverKeys
Kinds == {"collect", "dedup", "deliver"}
PCs   == {"idle", "run", "dedupNext", "alerts", "backup"}
\* closed: success or failed
Rows  == {"none", "open", "closed", "cancelled"}
\* redelivered once, again, or shared: two redeliveries had listed the same row,
\* or an exit cut one, and then nothing is promised
Told  == {"no", "once", "again", "shared"}

\* A row as a redelivery listed it.  Ids are not reused: it is live until
\* someone removes it, whatever is queued under its key later.
Listed == [key : Keys, live : BOOLEAN]

NoJob == [pc |-> "idle", tick |-> FALSE, held |-> "none", row |-> "none",
          asked |-> FALSE, caught |-> FALSE, todo |-> <<>>, alerts |-> <<>>]

Queued == {queue[i] : i \in DOMAIN queue}

ServerTypeOK ==
  /\ active \in SUBSET Kinds /\ cancel \in SUBSET Kinds
  /\ job \in [Jobs -> [pc : PCs, tick : BOOLEAN, held : Kinds \cup {"none"},
                       row : Rows, asked : BOOLEAN, caught : BOOLEAN,
                       todo : Seq(Listed), alerts : Seq(Keys)]]
  /\ queue \in Seq(Keys) /\ Len(queue) <= MaxQueued /\ up \in BOOLEAN
  /\ told \in Told
  /\ exits \in 0..MaxExits

ServerInit ==
  /\ active = {} /\ cancel = {}
  /\ job = [j \in Jobs |-> NoJob]
  /\ queue = <<>> /\ up = TRUE /\ exits = 0
  /\ told = "no"

-----------------------------------------------------------------------------
(* RunLock *)

\* Mutation of TryAcquire: the lock is given without a look at who has it.
TryAcquireAnyway(kind) == active' = active \cup {kind} /\ UNCHANGED cancel

TryAcquire(kind) == /\ kind \notin active
                    /\ active' = active \cup {kind}
                    /\ UNCHANGED cancel

\* Mutations of ReleaseRun: the request for cancellation, or the lock, stays.
ReleaseKeepsCancel(kind) == active' = active \ {kind} /\ UNCHANGED cancel
ReleaseKeepsLock(kind) == cancel' = cancel \ {kind} /\ UNCHANGED active

ReleaseRun(kind) == /\ active' = active \ {kind}
                 /\ cancel' = cancel \ {kind}

\* RunsService.cancel: only a delivery, only while its lock is held
Cancel ==
  /\ "deliver" \in active
  /\ cancel' = cancel \cup {"deliver"}
  /\ job' = [j \in Jobs |-> IF job[j].held = "deliver"
                            THEN [job[j] EXCEPT !.asked = TRUE] ELSE job[j]]
  /\ UNCHANGED <<active, up, exits, alertVars>>

-----------------------------------------------------------------------------
(* Run rows *)

\* What an exception leaves of a row: closed by the catch, or open, as the write
\* that closes it threw too.  A row whose insert threw needs no closing.
AfterThrow == {"closed", "open"}

-----------------------------------------------------------------------------
(* PendingAlertsRepository *)

Least(a, b) == IF a <= b THEN a ELSE b

\* list(): the oldest
Listing == [i \in 1..Least(Len(queue), PerCycle) |-> [key |-> queue[i], live |-> TRUE]]

\* Mutation of Enqueued: trim() keeps the newest.
EnqueuedNewest(key) ==
  IF key \in Queued THEN queue
  ELSE IF Len(queue) < MaxQueued THEN Append(queue, key) ELSE Append(Tail(queue), key)

\* queue(): a key that already waits keeps its place; trim() keeps the oldest
Enqueued(key) ==
  IF key \in Queued THEN queue
  ELSE SubSeq(Append(queue, key), 1, Least(Len(queue) + 1, MaxQueued))

\* remove(): of the row that was listed, if it is still there
Removed(listed) ==
  IF listed.live /\ listed.key \in Queued
  THEN LET n == CHOOSE i \in DOMAIN queue : queue[i] = listed.key
       IN  SubSeq(queue, 1, n - 1) \o SubSeq(queue, n + 1, Len(queue))
  ELSE queue

\* What another listing is worth once that row is removed.
Outdated(todo, listed) ==
  [n \in DOMAIN todo |->
     [todo[n] EXCEPT !.live = @ /\ ~(listed.live /\ todo[n].key = listed.key)]]

InHand(j) == UNION {{job[i].todo[n].key : n \in DOMAIN job[i].todo} : i \in Jobs \ {j}}

-----------------------------------------------------------------------------
(* Alerts.  sendAlerts() lists what waits in the turn of its caller, works it *)
(* off, then sends what is new.                                               *)

\* What an evaluation may find: nothing, or one condition.
Evaluated(keys) == {<<>>} \cup {<<k>> : k \in keys}

\* Job j, whose record is r otherwise, begins sendAlerts(alerts).
SendAlerts(j, r, alerts) ==
  /\ job' = [job EXCEPT ![j] = [r EXCEPT !.pc = "alerts", !.todo = Listing,
                                         !.alerts = alerts]]
  /\ told' = IF Watched \in InHand(j) /\ \E i \in DOMAIN Listing : queue[i] = Watched
             THEN "shared" ELSE told
  /\ UNCHANGED queue

Retold == CASE told = "no" -> "once" [] told = "shared" -> "shared" [] OTHER -> "again"

\* redeliverQueuedAlerts: the answer to the send of the first listed row.  A
\* failure ends the redelivery, not sendAlerts.
Redelivered(j) ==
  LET listed == Head(job[j].todo) IN
  /\ job[j].pc = "alerts" /\ job[j].todo # <<>>
  /\ \/ /\ up
        /\ queue' = Removed(listed)
        /\ told' = IF listed.key = Watched THEN Retold ELSE told
        /\ job' = [i \in Jobs |-> IF i = j THEN [job[j] EXCEPT !.todo = Tail(@)]
                                  ELSE [job[i] EXCEPT !.todo = Outdated(@, listed)]]
     \/ /\ ~up
        /\ job' = [job EXCEPT ![j].todo = <<>>]
        /\ UNCHANGED <<queue, told>>
  /\ UNCHANGED <<lockVars, up, exits>>

\* The answer to the send of a new alert.
Raised(j) ==
  LET key == Head(job[j].alerts) IN
  /\ job[j].pc = "alerts" /\ job[j].todo = <<>> /\ job[j].alerts # <<>>
  /\ job' = [job EXCEPT ![j].alerts = Tail(@)]
  /\ IF up THEN UNCHANGED alertVars
     ELSE /\ queue' = Enqueued(key)
          /\ told' = IF key = Watched /\ key \notin Queued \cup InHand(j) THEN "no" ELSE told
  /\ UNCHANGED <<lockVars, up, exits>>

\* The handler is over; a delivery tick releases its lock and backs up.
AlertsDone(j) ==
  /\ job[j].pc = "alerts" /\ job[j].todo = <<>> /\ job[j].alerts = <<>>
  /\ IF job[j].held = "deliver"
     THEN /\ ReleaseRun("deliver")
          /\ job' = [job EXCEPT ![j].pc = "backup", ![j].held = "none"]
     ELSE /\ job' = [job EXCEPT ![j] = NoJob]
          /\ UNCHANGED lockVars
  /\ UNCHANGED <<up, alertVars, exits>>

\* runBackup: synchronous; a failure is raised as an alert of its own.
Backup(j) ==
  /\ job[j].pc = "backup"
  /\ \/ /\ job' = [job EXCEPT ![j] = NoJob]
        /\ UNCHANGED alertVars
     \/ \E k \in DeliverKeys : SendAlerts(j, [NoJob EXCEPT !.tick = TRUE], <<k>>)
  /\ UNCHANGED <<lockVars, up, exits>>

-----------------------------------------------------------------------------
(* Sections *)

\* The lock is taken and the row inserted in one turn.
Enter(j, r, kind) ==
  /\ TryAcquire(kind)
  /\ job' = [job EXCEPT ![j] = [r EXCEPT !.pc = "run", !.held = kind, !.row = "open"]]
  /\ UNCHANGED <<up, exits, alertVars>>

\* The cron's collection and delivery ticks, and collect, ingest, dedup and
\* deliver as requests.  When the lock is held a tick is skipped and a request
\* refused, and so is one over its rate limit: nothing changes.
Tick(j, kind) == job[j] = NoJob /\ Enter(j, [NoJob EXCEPT !.tick = TRUE], kind)

ApiRequest(j, kind) == job[j] = NoJob /\ Enter(j, NoJob, kind)

\* A delivery tick that cannot build a scorer alerts without the lock.
Misconfigured(j) ==
  /\ job[j] = NoJob
  /\ \E k \in DeliverKeys : SendAlerts(j, [NoJob EXCEPT !.tick = TRUE], <<k>>)
  /\ UNCHANGED <<lockVars, up, exits>>

\* How a delivery that returns has closed its row: cancelled if a checkpoint
\* of its scoring loop has seen the request.
DeliverOutcomes == {"closed"} \cup (IF "deliver" \in cancel THEN {"cancelled"} ELSE {})

\* Job j leaves its section, and is done.
Unlock(j) == ReleaseRun(job[j].held)

Over(j) == /\ Unlock(j)
           /\ job' = [job EXCEPT ![j] = NoJob]
           /\ UNCHANGED alertVars

CollectReturns(j) ==
  /\ job[j].pc = "run" /\ job[j].held = "collect"
  /\ IF job[j].tick
     THEN /\ Unlock(j)
          /\ job' = [job EXCEPT ![j] = [NoJob EXCEPT !.pc = "dedupNext", !.tick = TRUE]]
          /\ UNCHANGED alertVars
     ELSE Over(j)
  /\ UNCHANGED <<up, exits>>

\* A tick's collect that threw skips dedup, not the alerts.
CollectThrows(j) ==
  /\ job[j].pc = "run" /\ job[j].held = "collect"
  /\ IF job[j].tick
     THEN /\ Unlock(j)
          /\ \E alerts \in Evaluated(CollectKeys) : SendAlerts(j, [NoJob EXCEPT !.tick = TRUE], alerts)
     ELSE Over(j)
  /\ UNCHANGED <<up, exits>>

\* The tick's second phase, under a lock of its own; skipped when it is held.
DedupNext(j) ==
  /\ job[j].pc = "dedupNext"
  /\ \/ Enter(j, job[j], "dedup")
     \/ /\ "dedup" \in active
        /\ \E alerts \in Evaluated(CollectKeys) : SendAlerts(j, [NoJob EXCEPT !.tick = TRUE], alerts)
        /\ UNCHANGED <<lockVars, up, exits>>

DedupReturns(j) ==
  /\ job[j].pc = "run" /\ job[j].held = "dedup"
  /\ IF job[j].tick
     THEN /\ Unlock(j)
          /\ \E alerts \in Evaluated(CollectKeys) : SendAlerts(j, [NoJob EXCEPT !.tick = TRUE], alerts)
     ELSE Over(j)
  /\ UNCHANGED <<up, exits>>

\* A request's deliver, and executeDeliver inside a tick.
DeliverReturns(j) ==
  /\ job[j].pc = "run" /\ job[j].held = "deliver"
  /\ IF job[j].tick
     THEN /\ \E row \in DeliverOutcomes, alerts \in Evaluated(DeliverKeys) :
               SendAlerts(j, [job[j] EXCEPT !.row = row], alerts)
          /\ UNCHANGED lockVars
     ELSE Over(j)
  /\ UNCHANGED <<up, exits>>

DeliverThrows(j) ==
  /\ job[j].pc = "run" /\ job[j].held = "deliver"
  /\ IF job[j].tick
     THEN /\ \E row \in AfterThrow, k \in DeliverKeys :
               SendAlerts(j, [job[j] EXCEPT !.row = row, !.caught = TRUE], <<k>>)
          /\ UNCHANGED lockVars
     ELSE Over(j)
  /\ UNCHANGED <<up, exits>>

-----------------------------------------------------------------------------
(* Exits.  No handler is installed for an unhandled rejection, so an error    *)
(* that leaves a tick ends the process as a kill does.  A restart finds the   *)
(* database and nothing else.                                                 *)

Exit ==
  LET cut == {i \in Jobs : job[i].todo # <<>> /\ Head(job[i].todo).key = Watched}
  IN
  /\ exits < MaxExits /\ exits' = exits + 1
  /\ active' = {} /\ cancel' = {}
  /\ job' = [i \in Jobs |-> NoJob]
  /\ told' = IF cut = {} THEN told ELSE "shared"
  /\ UNCHANGED <<queue, up>>

\* executeDedup throws: inside dedupSimilarPostings, whose catch closes the
\* row, or after it, where no catch does; either way the handler is over.
DedupThrows(j) ==
  /\ job[j].pc = "run" /\ job[j].held = "dedup"
  /\ IF job[j].tick THEN Exit ELSE Over(j) /\ UNCHANGED <<up, exits>>

\* The alert table cannot be read or written.  A delivery tick tries once more
\* to say so; anything else goes down.
AlertsThrow(j) ==
  /\ job[j].pc = "alerts"
  /\ IF job[j].held = "deliver" /\ ~job[j].caught
     THEN /\ \E k \in DeliverKeys : SendAlerts(j, [job[j] EXCEPT !.caught = TRUE], <<k>>)
          /\ UNCHANGED <<lockVars, up, exits>>
     ELSE Exit

\* The chat, or the way to it, comes and goes.
Channel == up' = ~up /\ UNCHANGED <<lockVars, job, alertVars, exits>>

-----------------------------------------------------------------------------
\* What a handler does once begun, when no write fails.
Progress(j) ==
  \/ CollectReturns(j) \/ DedupNext(j) \/ DedupReturns(j) \/ DeliverReturns(j)
  \/ Redelivered(j) \/ Raised(j) \/ AlertsDone(j) \/ Backup(j)

Fails(j) == CollectThrows(j) \/ DeliverThrows(j) \/ DedupThrows(j) \/ AlertsThrow(j)

Begins(j) ==
  \/ \E kind \in {"collect", "deliver"} : Tick(j, kind)
  \/ \E kind \in Kinds : ApiRequest(j, kind)
  \/ Misconfigured(j)

ServerNext == \/ \E j \in Jobs : Begins(j) \/ Progress(j) \/ Fails(j)
        \/ Cancel \/ Exit \/ Channel

ServerSpec == ServerInit /\ [][ServerNext]_serverVars

\* Awaits below a section are bounded by timeouts, so a handler goes on; the
\* cron keeps starting collections; nothing is said of requests or the chat.
ServerFairness ==
  /\ \A j \in Jobs : WF_serverVars(Progress(j))
  /\ SF_serverVars(\E j \in Jobs : Tick(j, "collect"))

ServerFairSpec == ServerSpec /\ ServerFairness

-----------------------------------------------------------------------------
(* Properties *)

\* The lock's set is exactly what the handlers hold, each kind by one of them:
\* no path out of a section, thrown or not, keeps a lock or frees another's.
LockMatchesHolders ==
  /\ active = {job[j].held : j \in Jobs} \ {"none"}
  /\ \A i, j \in Jobs : job[i].held = job[j].held /\ job[i].held # "none" => i = j

\* A run ends cancelled only when the operator asked during that run: a request
\* that came too late for one run never stops the next (run-lock.ts:58).
CancelReachesItsRun ==
  /\ \A j \in Jobs : job[j].row = "cancelled" => job[j].asked
  /\ cancel # {} => \E j \in Jobs : job[j].held = "deliver" /\ job[j].asked

\* A queued alert is redelivered once, unless two cycles had listed it at the
\* same time or the process went down under its redelivery.
RedeliveredOnce == told # "again"

\* What a step does to the alerts that wait: one leaves by being sent, and those
\* that stay keep their order.
WaitsItsTurn ==
  /\ \A k \in Queued : k \notin Queued' => up /\ \E j \in Jobs :
       job[j].todo # <<>> /\ Head(job[j].todo).key = k /\ job'[j].todo = Tail(job[j].todo)
  /\ \A a, b \in DOMAIN queue : a < b /\ {queue[a], queue[b]} \subseteq Queued' =>
       \E c, d \in DOMAIN queue' : c < d /\ queue'[c] = queue[a] /\ queue'[d] = queue[b]

\* An alert leaves the queue by being sent, once; neither trim() nor a later alert
\* nor a restart displaces one that waits, or changes who waits longer, and the
\* table keeps within its limit all the same.
AlertsKept == [](RedeliveredOnce /\ Len(queue) <= MaxQueued) /\ [][WaitsItsTurn]_serverVars

\* Every lock comes free again and again.
LocksComeFree == \A kind \in Kinds : []<>(kind \notin active)

\* When the chat stays up, the backlog goes, however many cycles it takes.
BacklogDrains == <>[]up => <>[](queue = <<>>)

\* Nothing that waits for the server waits for ever: neither a run nor an alert.
NothingWaitsForEver == LocksComeFree /\ BacklogDrains
=============================================================================
