------------------------------ MODULE Collect ------------------------------
(***************************************************************************)
(* Collection: executeCollect asks every configured query of a source in   *)
(* turn, executeIngestExternal takes a batch another process pushed, and   *)
(* both store what they hear through PostingsRepository and leave a row in *)
(* runs.  A row says which sources were attempted and which failed, and    *)
(* the next run derives from it how far back it must look.                 *)
(*                                                                         *)
(* Runs overlap: the server and a command started by hand share the file,  *)
(* not the run lock.  Between two awaits a run is one step, unless a       *)
(* statement throws or the process is killed in it.  Time is in days.      *)
(***************************************************************************)
EXTENDS Integers, FiniteSets, Sequences

CONSTANTS Runs,         \* rows of runs
          Postings,     \* fingerprints
          Sources, Lists, \* Lists[s]: the postings source s may list
          Dated,        \* the postings whose source states publishedAt
          Describing,   \* the sources that state a description
          Extracted,    \* the postings stage A reads
          QueryLists,   \* the sources of the queries a run asks, in order
          Pushed,       \* the sources of external batches
          NoCollector,  \* sources queried that this build cannot collect from
          Windows,      \* [recency, backfill]: configured, or by --since-days
          MaxDay        \* bound on time

Never == -1
ASSUME CollectAssumption ==
  /\ MaxDay \in Nat /\ Lists \in [Sources -> SUBSET Postings] /\ Dated \subseteq Postings
  /\ Windows \subseteq [recency : Nat, backfill : Nat]
  /\ QueryLists \subseteq Seq(Sources) /\ Pushed \subseteq Sources /\ IsFiniteSet(Postings)

VARIABLES day, published,
          post,      \* the row of postings, or NoPost
          run,
          reports,   \* the "new" events of each posting
          heard,     \* history: when a posting was last delivered and read whole
          dropped    \* history: postings dropped as too old, and not stored
vars == <<day, published, post, run, reports, heard, dropped>>

NoPost == [known |-> FALSE, first |-> Never, last |-> Never,
           described |-> FALSE, seniority |-> FALSE]
\* The counters of a row, reduced to what they leave unexplained:
\* collected - normalized - tooOld - unnormalizable, and normalized - new - alreadySeen.
NoCounts == [collected |-> 0, normalized |-> 0]
NoRun == [pc |-> "none", row |-> "none", queries |-> <<>>, window |-> [recency |-> 0, backfill |-> 0],
          cutoff |-> [s \in {} |-> 0], attempted |-> {}, failed |-> {}, failures |-> 0,
          asked |-> 0, counts |-> NoCounts, ended |-> Never, answered |-> {}]

Init == /\ day = 0 /\ published = [p \in Postings |-> IF p \in Dated THEN Never ELSE 0]
        /\ post = [p \in Postings |-> NoPost] /\ run = [r \in Runs |-> NoRun]
        /\ reports = [p \in Postings |-> 0] /\ heard = [p \in Postings |-> Never]
        /\ dropped = {}

-----------------------------------------------------------------------------
(* The window *)

Least(a, b) == IF a <= b THEN a ELSE b
Greatest(S) == CHOOSE x \in S : \A y \in S : y <= x

\* Mutation of Succeeded: every attempt counts.
Attempted(s) == {r \in Runs : run[r].ended # Never /\ s \in run[r].attempted}

\* the rows findLastSuccessfulSourceCollectAt stops at
Succeeded(s) == {r \in Runs : run[r].ended # Never /\ s \in run[r].attempted \ run[r].failed}

WindowDays(s, w) ==
  IF Succeeded(s) = {} THEN w.backfill
  ELSE Least(Greatest({w.recency, day - Greatest({run[r].ended : r \in Succeeded(s)})}), w.backfill)

\* read once per source and run
CutoffOf(r, s) == IF s \in DOMAIN run[r].cutoff THEN run[r].cutoff[s]
                  ELSE day - WindowDays(s, run[r].window)

-----------------------------------------------------------------------------
(* PostingsRepository *)

\* Mutations of Upserted: what this source does not state is cleared; a sighting
\* starts the posting anew.
UpsertedPlain(p, s) ==
  [known |-> TRUE, last |-> day, first |-> IF post[p].known THEN post[p].first ELSE day,
   described |-> s \in Describing, seniority |-> FALSE]

Upserted(p, s) ==
  [known |-> TRUE, last |-> day, first |-> IF post[p].known THEN post[p].first ELSE day,
   described |-> post[p].described \/ s \in Describing, seniority |-> post[p].seniority]

MarkSeen(p) == IF post[p].known /\ post[p].last < day THEN [post[p] EXCEPT !.last = day] ELSE post[p]

\* Mutation of WasNew: anything not seen today.
WasNewToday(p) == post[p].last < day

WasNew(p) == ~post[p].known

Stored(kept, seen, s) ==
  post' = [p \in Postings |-> IF p \in kept THEN Upserted(p, s)
                              ELSE IF p \in seen THEN MarkSeen(p) ELSE post[p]]
Recorded(ps) == reports' = [p \in Postings |-> reports[p] + IF p \in ps /\ WasNew(p) THEN 1 ELSE 0]

\* Stage A writes what it extracted, null too
Extract == \E p \in Extracted, v \in BOOLEAN :
  /\ post[p].known /\ post' = [post EXCEPT ![p].seniority = v]
  /\ UNCHANGED <<day, published, run, reports, heard, dropped>>

-----------------------------------------------------------------------------
(* What a run hears, counts and leaves *)

Listed(s) == {p \in Lists[s] : published[p] # Never}

\* What a collector returns: whole, or cut short by an error, which keeps what came
\* before it; some of it the normaliser rejects.
Answers(s) == {a \in [items : SUBSET Listed(s), bad : SUBSET Listed(s), error : BOOLEAN] :
                 a.bad \subseteq a.items}

Usable(a) == a.items \ a.bad
TooOld(ps, cutoff) == {p \in ps \cap Dated : published[p] < cutoff}

\* The counters once answer a has come, the items screened have been looked at, of
\* which old were too old, and the result of storing the postings told was read.
Counted(c, a, screened, old, told) ==
  LET kept == (screened \ a.bad) \ old
      new  == Cardinality({p \in told : WasNew(p)})
      seen == Cardinality({p \in told : ~WasNew(p)})
  IN [collected  |-> c.collected + Cardinality(a.items)
                       - (Cardinality(kept) + Cardinality(old) + Cardinality(screened \cap a.bad)),
      normalized |-> c.normalized + Cardinality(kept) - (new + seen)]

Noted(r, s, error) ==
  [run[r] EXCEPT !.queries = Tail(@), !.attempted = @ \cup {s}, !.asked = @ + 1,
                 !.failures = @ + IF error THEN 1 ELSE 0,
                 !.failed = IF error THEN @ \cup {s} ELSE @]

\* The row that is left.
Over(b, row, ended) ==
  [NoRun EXCEPT !.pc = "over", !.row = row, !.ended = ended, !.attempted = b.attempted,
                !.failed = b.failed, !.counts = b.counts, !.answered = b.answered]

\* The process was killed, or the write that closes the row threw: nobody closes it.
Unclosed == Over(NoRun, "open", Never)

\* After a statement threw: the catch closes the row with the counters so far.
Broken(b) == {Over([b EXCEPT !.answered = {}], "threw", day), Unclosed}

-----------------------------------------------------------------------------
(* Actions *)

Tick == day < MaxDay /\ day' = day + 1 /\ UNCHANGED <<published, post, run, reports, heard, dropped>>

Publish == \E p \in Postings : /\ published[p] = Never /\ published' = [published EXCEPT ![p] = day]
                               /\ UNCHANGED <<day, post, run, reports, heard, dropped>>

Start(r) == \E q \in QueryLists, w \in Windows :
  /\ run[r].pc = "none"
  /\ run' = [run EXCEPT ![r] = [NoRun EXCEPT !.pc = "running", !.row = "open", !.queries = q, !.window = w]]
  /\ UNCHANGED <<day, published, post, reports, heard, dropped>>

Asks(r, s) == run[r].pc = "running" /\ run[r].queries # <<>> /\ s = Head(run[r].queries)

Missing(r, s) == /\ Asks(r, s) /\ s \in NoCollector
                 /\ run' = [run EXCEPT ![r] = Noted(r, s, TRUE)]
                 /\ UNCHANGED <<day, published, post, reports, heard, dropped>>

Query(r, s) ==
  /\ Asks(r, s) /\ s \notin NoCollector
  /\ \E a \in Answers(s) :
     LET old  == TooOld(Usable(a), CutoffOf(r, s))
         kept == Usable(a) \ old
     IN /\ Stored(kept, old, s) /\ Recorded(kept)
        /\ heard' = [p \in Postings |-> IF p \in a.items \ a.bad THEN day ELSE heard[p]]
        /\ dropped' = dropped \cup [posting : {p \in old : ~post[p].known}, source : {s}, day : {day}]
        /\ run' = [run EXCEPT ![r] = [Noted(r, s, a.error) EXCEPT
                     !.counts = Counted(@, a, a.items, old, kept),
                     !.cutoff = [t \in DOMAIN @ \cup {s} |-> CutoffOf(r, t)],
                     !.answered = IF a.error THEN @ ELSE @ \cup {s}]]
  /\ UNCHANGED <<day, published>>

\* A statement threw, or the process was killed, before the transaction of upsertMany
\* committed: some of the items were screened.  The first statement that may throw
\* comes before the error of the answer is noted.
BreakStoring(r, s) ==
  /\ Asks(r, s) /\ s \notin NoCollector
  /\ \E a \in Answers(s) : \E screened \in SUBSET a.items, error \in {a.error, FALSE} :
     LET old == TooOld(screened \ a.bad, CutoffOf(r, s))
     IN /\ screened # {} => error = a.error
        /\ Stored({}, old, s)
        /\ \E b \in Broken([Noted(r, s, error) EXCEPT !.counts = Counted(@, a, screened, old, {})]) :
             run' = [run EXCEPT ![r] = b]
  /\ UNCHANGED <<day, published, reports, heard, dropped>>

\* It did commit, and the event of p, which is counted by then, could not be recorded.
BreakRecording(r, s) ==
  /\ Asks(r, s) /\ s \notin NoCollector
  /\ \E a \in Answers(s) :
     LET old  == TooOld(Usable(a), CutoffOf(r, s))
         kept == Usable(a) \ old
     IN \E p \in kept : \E ps \in SUBSET (kept \ {p}) :
        /\ Stored(kept, old, s) /\ Recorded(ps)
        /\ \E b \in Broken([Noted(r, s, a.error) EXCEPT
                              !.counts = Counted(@, a, a.items, old, ps \cup {p})]) :
             run' = [run EXCEPT ![r] = b]
  /\ UNCHANGED <<day, published, heard, dropped>>

End(r) == /\ run[r].pc = "running" /\ run[r].queries = <<>>
          /\ run' = [run EXCEPT ![r] = Over(run[r], IF run[r].failures = run[r].asked THEN "failed" ELSE "success", day)]
          /\ UNCHANGED <<day, published, post, reports, heard, dropped>>

\* killed while it awaits a collector or the interval between two queries, or its
\* last write threw
Die(r) == /\ run[r].pc = "running" /\ run' = [run EXCEPT ![r] = Unclosed]
          /\ UNCHANGED <<day, published, post, reports, heard, dropped>>

\* executeIngestExternal: a batch has one source, no window and no await.
Batch(s, a, screened, told) ==
  [NoRun EXCEPT !.attempted = {s}, !.answered = {s},
                !.counts = Counted(NoCounts, a, screened, {}, told)]

Ingest(r, s) ==
  /\ run[r].pc = "none"
  /\ \E a \in Answers(s) :
     /\ ~a.error
     /\ Stored(Usable(a), {}, s) /\ Recorded(Usable(a))
     /\ heard' = [p \in Postings |-> IF p \in Usable(a) THEN day ELSE heard[p]]
     /\ \E b \in {Over(Batch(s, a, a.items, Usable(a)), "success", day), Unclosed} :
          run' = [run EXCEPT ![r] = b]
  /\ UNCHANGED <<day, published, dropped>>

\* It threw, or was killed, before its transaction committed, or while it recorded
\* the event of p.
BreakIngest(r, s) ==
  /\ run[r].pc = "none"
  /\ \E a \in Answers(s) :
     \/ /\ \E screened \in SUBSET a.items : \E b \in Broken(Batch(s, a, screened, {})) :
             run' = [run EXCEPT ![r] = b]
        /\ UNCHANGED <<post, reports>>
     \/ /\ \E p \in Usable(a) : \E ps \in SUBSET (Usable(a) \ {p}) :
             /\ Recorded(ps)
             /\ \E b \in Broken(Batch(s, a, a.items, ps \cup {p})) : run' = [run EXCEPT ![r] = b]
        /\ Stored(Usable(a), {}, s)
  /\ UNCHANGED <<day, published, heard, dropped>>

Next == \/ Tick \/ Publish \/ Extract
        \/ \E r \in Runs :
             \/ Start(r) \/ End(r) \/ Die(r)
             \/ \E s \in Sources : \/ Missing(r, s) \/ Query(r, s)
                                   \/ BreakStoring(r, s) \/ BreakRecording(r, s)
             \/ \E s \in Pushed : Ingest(r, s) \/ BreakIngest(r, s)

Spec == Init /\ [][Next]_vars

-----------------------------------------------------------------------------
(* Properties *)

Days == Never..MaxDay

TypeOK ==
  /\ day \in 0..MaxDay /\ published \in [Postings -> Days] /\ heard \in [Postings -> Days]
  /\ post \in [Postings -> [known : BOOLEAN, first : Days, last : Days,
                            described : BOOLEAN, seniority : BOOLEAN]]
  /\ reports \in [Postings -> Nat]
  /\ dropped \subseteq [posting : Postings, source : Sources, day : Days]
  /\ \A r \in Runs :
       /\ run[r].pc \in {"none", "running", "over"}
       /\ run[r].row \in {"none", "open", "success", "failed", "threw"}
       /\ (run[r].pc = "running") => run[r].row = "open"
       /\ (run[r].ended # Never) <=> (run[r].row \in {"success", "failed", "threw"})
       /\ run[r].failed \subseteq run[r].attempted
       /\ run[r].failures <= run[r].asked

\* The recency window loses nothing to an outage: what a run drops as too old without
\* having it is older than the backfill limit of some window, or was published before
\* a run that did hear its source without an error, or that threw, was over.  (A run
\* that threw counts as a success of the source it broke off at: see the README.)
WindowCoversGap ==
  \A d \in dropped :
    \/ \E w \in Windows : d.day - published[d.posting] > w.backfill
    \/ \E r \in Runs : /\ published[d.posting] <= run[r].ended /\ run[r].ended <= d.day
                       /\ \/ run[r].row = "threw"
                          \/ d.source \in run[r].answered

\* A posting is reported as new at most once, by whichever of two overlapping runs
\* stored it first, and never without being stored.
NewOnce == \A p \in Postings : reports[p] <= 1 /\ (reports[p] = 1 => post[p].known)

\* A row's counters account for every item once, over all queries of the run, with
\* the same posting listed twice, rejected, too old or already stored.  The row of a
\* run that threw may leave items of the answer it broke off at unexplained, and
\* never more: no counter counts an item twice, nor one that did not come.
CountsReconcile ==
  \A r \in Runs : LET c == run[r].counts IN
    c = NoCounts \/ /\ run[r].row = "threw" /\ c.collected >= 0 /\ c.normalized >= 0
                    /\ \E s \in run[r].attempted : c.collected + c.normalized <= Cardinality(Lists[s])

\* What is told of a collection adds up, posting by posting and in the row.
AccountsAddUp == NewOnce /\ CountsReconcile

\* A live sighting is never forgotten: a stored posting was last seen no earlier than
\* the last answer that carried it, however old its publication.
SeenWhenListed == \A p \in Postings : post[p].known => post[p].last >= heard[p]

\* What a source delivered is stored, unless its last delivery was dropped as too old:
\* the pages before an error are not lost with the error.
DeliveredIsKept ==
  \A p \in Postings : heard[p] # Never =>
    post[p].known \/ \E d \in dropped : d.posting = p /\ d.day = heard[p]

\* What was heard of a posting is kept: that it exists, and that it is still listed.
HeardIsKept == DeliveredIsKept /\ SeenWhenListed

\* A stored posting keeps its first sighting, and a later sighting by a poorer source
\* takes no fact from it: only stage A rewrites what stage A wrote.
FactsSurvive ==
  [][\A p \in Postings : post[p].known =>
       /\ post'[p].known /\ post'[p].first = post[p].first
       /\ post[p].described => post'[p].described
       /\ (post[p].seniority /\ ~post'[p].seniority) => UNCHANGED run]_vars

\* Nothing learnt of a posting is forgotten, by whichever run or source.
NothingForgotten == []HeardIsKept /\ FactsSurvive
=============================================================================
