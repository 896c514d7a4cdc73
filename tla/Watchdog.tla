------------------------------ MODULE Watchdog ------------------------------
(***************************************************************************)
(* What the server says of its own silence: the schedule of the collection *)
(* and delivery crons (scheduler.service.ts), the rows the runs leave, and *)
(* the alerts a collection cycle raises from them at its end               *)
(* (scheduling/domain/alerts.ts).                                          *)
(*                                                                         *)
(* Time is an hour, from 24 on, and jumps from one of the hours of the day *)
(* in Hours to the next.  A window of scoreAndDeliver is an hour of the    *)
(* day.                                                                    *)
(***************************************************************************)
EXTENDS Naturals, Sequences, FiniteSets, FiniteSetsExt

CONSTANTS Interval,      \* schedule.collection.intervalHours
          Windows,       \* schedule.scoreAndDeliver.times
          Threshold,     \* alerts.consecutiveEmptyCollectionRuns
          Freshness,     \* alerts.sourceFreshnessHours: a function on the watched sources
          Pulled,        \* those of them this server collects itself
          FailureRate,   \* alerts.scoreFailureRateThreshold, in percent
          MinAttempts,   \* MIN_LLM_ATTEMPTS_FOR_RATE_ALERT
          Runs,          \* what a delivery run may leave in its row
          Hours,         \* bound: the hours of a day at which something happens
          LastHour,      \* bound: the hour the clock stops at
          MaxUnplanned   \* bound: pushes, manual runs and exits of the process, together

Sources == DOMAIN Freshness

ASSUME WatchAssumption ==
  /\ Interval \in 1..24 /\ 24 % Interval = 0 /\ Threshold \in Nat \ {0}
  /\ Windows # {} /\ Windows \subseteq Hours /\ Hours \subseteq 0..23 /\ LastHour \in Nat
  /\ {h \in 0..23 : h % Interval = 0} \subseteq Hours
  /\ Pulled \subseteq Sources /\ Freshness \in [Sources -> Nat \ {0}]
  /\ MaxUnplanned \in Nat

Nobody == "none"
Unset == 0         \* an hour before the first

VARIABLES clock, up,
          due,         \* crons of this hour that have not fired yet
          collecting,  \* who holds the collect lock: Nobody, "cycle" or "manual"
          delivering,  \* a delivery is under way
          checking,    \* the cycle is past its collection, before its alerts
          rows,        \* the newest rows of kind "collect", newest first
          collectedAt, \* when a collect row was last closed as a success, or Unset
          digests,     \* when delivery rows were closed as a success
          seen,        \* newest lastSeenAt of each source, or Unset
          raised,      \* what the last cycle raised
          news,        \* what the last delivery run raised
          written,     \* the hour wallClock writes for the one after midnight
          checks,      \* history: when a cycle came to its alerts
          told,        \* history: windows alerts said had no digest
          left         \* pushes, manual runs and exits still to come
watchVars == <<clock, up, due, collecting, delivering, checking, rows, collectedAt, digests, seen,
               raised, news, written, checks, told, left>>

Day(t)  == t \div 24
Hour(t) == t % 24

Quiet == [health |-> {}, digest |-> FALSE, collection |-> FALSE, never |-> {}, stale |-> {}]

WatchInit ==
  /\ clock = 24 /\ up = TRUE /\ due = {} /\ collecting = Nobody /\ delivering = FALSE /\ checking = FALSE
  /\ rows = <<>> /\ collectedAt = Unset /\ digests = {} /\ seen = [s \in Sources |-> Unset]
  /\ raised = Quiet /\ news = {} /\ written \in {0, 24} /\ checks = {} /\ told = {}
  /\ left = MaxUnplanned

-----------------------------------------------------------------------------
(* The alerts *)

Newest(n) == SubSeq(rows, 1, IF Len(rows) < n THEN Len(rows) ELSE n)

\* Mutation of CollectionHealth: a row that found something ends no streak.
CollectionHealthAny ==
  IF Len(rows) < Threshold THEN {}
  ELSE {k \in {"empty", "failed"} : \E i \in 1..Threshold : rows[i] = k}

\* The newest rows were all empty, or all failed.
CollectionHealth ==
  IF Len(rows) < Threshold THEN {}
  ELSE {k \in {"empty", "failed"} : \A i \in 1..Threshold : rows[i] = k}

\* The time of day, as wallClock writes it.
TimeOf(t) == IF Hour(t) = 0 THEN written ELSE Hour(t)

\* The window the deliveries are asked about, if one has passed today.
PassedToday == {w \in Windows : w <= TimeOf(clock)}

\* Mutation of DigestMissed: a success earlier in the day is enough.
DigestMissedDay ==
  /\ PassedToday # {}
  /\ ~ \E d \in digests : Day(d) = Day(clock)

DigestMissed ==
  /\ PassedToday # {}
  /\ digests = {} \/ LET last == Max(digests) IN
                     Day(last) # Day(clock) \/ TimeOf(last) < Max(PassedToday)

CollectionMissed == collectedAt = Unset \/ clock - collectedAt > 2 * Interval

Never == {s \in Sources : seen[s] = Unset}
Stale == {s \in Sources \ Never : clock - seen[s] > Freshness[s]}

Alerts == [health |-> CollectionHealth, digest |-> DigestMissed, collection |-> CollectionMissed,
           never |-> Never, stale |-> Stale]

\* A delivery run about itself.
DeliveryAlerts(run) ==
  LET operations == run.attempts + run.blocked
      failed     == operations - run.answered IN
  {k \in {"failed", "impact", "health"} :
     CASE k = "failed" -> ~ run.ok
       [] k = "impact" -> run.scored < run.filtered
       [] k = "health" -> /\ run.attempts >= MinAttempts /\ run.accounted = run.attempts
                          /\ 100 * failed >= FailureRate * operations}

-----------------------------------------------------------------------------
(* The schedule *)

DueAt(t) == {k \in {"collect", "deliver"} : CASE k = "collect" -> Hour(t) % Interval = 0
                                              [] k = "deliver" -> Hour(t) \in Windows}

\* A cron that is due fires before the hour is over; one that finds no server is lost.
Pass ==
  /\ due = {} /\ ~ checking
  /\ \E t \in (clock + 1)..LastHour :
       /\ Hour(t) \in Hours /\ \A u \in (clock + 1)..(t - 1) : Hour(u) \notin Hours
       /\ clock' = t /\ due' = IF up THEN DueAt(t) ELSE {}
  /\ UNCHANGED <<up, collecting, delivering, checking, rows, collectedAt, digests, seen, raised, news,
                 written, checks, told, left>>

Opened == <<"running">> \o Newest(Threshold - 1)

CollectTick ==
  /\ "collect" \in due /\ due' = due \ {"collect"}
  /\ IF collecting = Nobody
     THEN collecting' = "cycle" /\ rows' = Opened
     ELSE UNCHANGED <<collecting, rows>>           \* skipped, its alerts too
  /\ UNCHANGED <<clock, up, delivering, checking, collectedAt, digests, seen, raised, news, written,
                 checks, told, left>>

DeliverTick ==
  /\ "deliver" \in due /\ due' = due \ {"deliver"}
  /\ delivering' = TRUE                            \* or it is under way, and this one skipped
  /\ UNCHANGED <<clock, up, collecting, checking, rows, collectedAt, digests, seen, raised, news,
                 written, checks, told, left>>

\* A run that the operator asks for.
Manual ==
  /\ up /\ left > 0 /\ left' = left - 1
  /\ \/ collecting = Nobody /\ collecting' = "manual" /\ rows' = Opened /\ UNCHANGED delivering
     \/ ~ delivering /\ delivering' = TRUE /\ UNCHANGED <<collecting, rows>>
  /\ UNCHANGED <<clock, up, due, checking, collectedAt, digests, seen, raised, news, written, checks, told>>

\* The collection ends.  Rows opened since are newer than its own, which may have
\* left the newest ones by now.
CollectEnds(outcome) ==
  /\ collecting # Nobody
  /\ rows' = [i \in DOMAIN rows |-> IF rows[i] = "running" THEN outcome ELSE rows[i]]
  /\ collectedAt' = IF outcome = "failed" THEN collectedAt ELSE clock
  /\ \E S \in SUBSET Pulled :
       /\ (S # {}) => outcome # "empty"            \* a run may store some and throw
       /\ seen' = [s \in Sources |-> IF s \in S THEN clock ELSE seen[s]]
  /\ checking' = (collecting = "cycle") /\ collecting' = Nobody
  /\ UNCHANGED <<clock, up, due, delivering, digests, raised, news, written, checks, told, left>>

\* The cycle evaluates and sends its alerts.
Check ==
  /\ checking /\ checking' = FALSE
  /\ raised' = Alerts /\ checks' = checks \cup {clock}
  /\ told' = IF DigestMissed THEN told \cup {24 * Day(clock) + Max(PassedToday)} ELSE told
  /\ UNCHANGED <<clock, up, due, collecting, delivering, rows, collectedAt, digests, seen, news, written, left>>

DeliverEnds(run) ==
  /\ delivering /\ delivering' = FALSE
  /\ digests' = IF run.ok THEN digests \cup {clock} ELSE digests
  /\ news' = DeliveryAlerts(run)
  /\ UNCHANGED <<clock, up, due, collecting, checking, rows, collectedAt, seen, raised, written, checks,
                 told, left>>

\* An external collector pushes a batch, some of which may be refused: a row of
\* kind "collect" too, opened and closed at once.
Push(s, known) ==
  /\ up /\ left > 0 /\ left' = left - 1
  /\ rows' = <<"found">> \o Newest(Threshold - 1) /\ collectedAt' = clock
  /\ seen' = IF known THEN [seen EXCEPT ![s] = clock] ELSE seen
  /\ UNCHANGED <<clock, up, due, collecting, delivering, checking, digests, raised, news, written,
                 checks, told>>

\* The process ends, and with it the runs: their rows stay open.
Exit ==
  /\ up /\ left > 0 /\ left' = left - 1
  /\ up' = FALSE /\ due' = {} /\ collecting' = Nobody /\ delivering' = FALSE /\ checking' = FALSE
  /\ rows' = [i \in DOMAIN rows |-> IF rows[i] = "running" THEN "open" ELSE rows[i]]
  /\ UNCHANGED <<clock, collectedAt, digests, seen, raised, news, written, checks, told>>

Boot ==
  /\ ~ up /\ up' = TRUE
  /\ UNCHANGED <<clock, due, collecting, delivering, checking, rows, collectedAt, digests, seen, raised,
                 news, written, checks, told, left>>

WatchNext ==
  \/ Pass \/ CollectTick \/ DeliverTick \/ Manual \/ Check \/ Exit \/ Boot
  \/ \E outcome \in {"found", "empty", "failed"} : CollectEnds(outcome)
  \/ \E run \in Runs : DeliverEnds(run)
  \/ \E s \in Sources \ Pulled, known \in BOOLEAN : Push(s, known)
WatchSpec == WatchInit /\ [][WatchNext]_watchVars

-----------------------------------------------------------------------------
(* What the alerts promise *)

Midnight(t) == 24 * Day(t)

\* In the hour t of its day the window w is the last one that has passed.
LastPassed(w, t) == /\ t \in w..(Midnight(w) + 23)
                    /\ \A v \in Windows : ~ (w < Midnight(w) + v /\ Midnight(w) + v <= t)

\* A digest that landed in the hour after midnight, where wallClock writes 24 for it,
\* counts for every window of the day that follows.
Hidden(w) == written = 24 /\ Midnight(w) \in digests

\* The windows an alert may name for w: in that hour all of the day seem to have passed.
Named(w) == IF written = 24 /\ Hour(w) = 0 THEN {w, Midnight(w) + Max(Windows)} ELSE {w}

\* Silence of the alerts means that nothing is wrong, and an alert that something is:
\* a window whose digest never came is told of by any cycle that reaches its alerts
\* before the next window or midnight, through lost ticks, overrunning and manual runs
\* and restarts, and one told of had no digest by then; a source, or the collection,
\* that was silent for longer than its limit when a cycle looked is announced, and
\* stays so until it is heard of.  (A window after the last cycle of its day is in no
\* cycle's span: alerts.ts:206 promises the first miss, and nothing tells of it.)
SilenceIsAnnounced ==
  /\ \A w \in {24 * d + h : d \in 1..Day(clock), h \in Windows} :
       /\ (\E c \in checks : LastPassed(w, c)) /\ ~ Hidden(w)
            => Named(w) \cap told # {} \/ \E d \in digests : LastPassed(w, d)
       /\ (w \in told /\ written = 0)
            => \E c \in checks : LastPassed(w, c) /\ (w..(c - 1)) \cap digests = {}
  /\ \A s \in Sources :
       /\ (seen[s] = Unset /\ checks # {}) => s \in raised.never
       /\ (seen[s] # Unset /\ \E c \in checks : c > seen[s] + Freshness[s]) => s \in raised.stale
  /\ (IF collectedAt = Unset THEN checks # {} ELSE \E c \in checks : c > collectedAt + 2 * Interval)
        => raised.collection
  /\ checks # {} => \A s \in raised.stale : Max(checks) > seen[s] => Max(checks) > seen[s] + Freshness[s]
=============================================================================
