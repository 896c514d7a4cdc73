----------------------------- MODULE DeliverRun -----------------------------
(***************************************************************************)
(* The score-and-deliver pipeline: executeDeliver over the claim, failure  *)
(* and notification columns of the postings table.                         *)
(*                                                                         *)
(* A run is one call of executeDeliver, in the server or in an `argos      *)
(* deliver` process, so runs may overlap; RunLock only keeps the server's  *)
(* own calls apart.  Between two steps of a run other runs, the operator   *)
(* (discard, rescore) and crashes may intervene: the run works on the      *)
(* postings it read when it claimed them, across every await of a model    *)
(* call and of the Telegram send.                                          *)
(*                                                                         *)
(* A run claims all its postings at one instant, so its claims go stale    *)
(* (DEFAULT_STALE_CLAIM_MS) together: stale[r].  A posting becomes         *)
(* "disturbed" when the code gives its exclusion up: a live run was        *)
(* outlived by its claim, or the operator rescored the posting under it.   *)
(*                                                                         *)
(* Every write may throw, before or after another: what a run has counted, *)
(* sent or claimed by then is what the catch block finds.                  *)
(***************************************************************************)
EXTENDS Integers, FiniteSets

CONSTANTS
    Postings,       \* the active corpus: neither duplicate nor filtered out
    Runs,           \* calls of executeDeliver
    None,           \* no claim, no current posting
    MaxFailures,    \* DEFAULT_MAX_SCORE_FAILURES
    LongRuns,       \* may a live run outlive its claims?
    OperatorActs    \* what the operator does meanwhile: "rescore", "discard"

ASSUME PostingsAssumption == IsFiniteSet(Postings)
ASSUME NoneAssumption == None \notin Runs \cup Postings
ASSUME FailuresAssumption == MaxFailures \in Nat \ {0}
ASSUME FlagsAssumption ==
    LongRuns \in BOOLEAN /\ OperatorActs \subseteq {"rescore", "discard"}

VARIABLES
    claimRun,    \* [Postings -> Runs + None]: scoring_claim_run_id
    notified,    \* postings with notified_at
    discarded,   \* postings with discarded_at
    failures,    \* [Postings -> Nat]: score_failure_count
    row,         \* [Runs -> RowStatus]: the runs table
    pc,          \* [Runs -> Stage]
    hand,        \* [Runs -> SUBSET Postings]: claimed, then past the filter
    deferred,    \* [Runs -> SUBSET Postings]: those in deferredCount
    passed,      \* [Runs -> SUBSET Postings]: those in filteredCount
    queue,       \* [Runs -> SUBSET Postings]: admitted, not yet tried
    current,     \* [Runs -> Postings + None]: the posting being scored
    outcome,     \* [Runs -> [Postings -> Outcome]]
    ending,      \* [Runs -> Ending]: the status the run will record
    tally,       \* [Runs -> counts recorded by finish()]
    stale,       \* [Runs -> BOOLEAN]: its claims are older than the limit
    reported,    \* history: [Postings -> Nat], digests with its verdict
    unmarked,    \* history: [Postings -> Nat], those whose run then failed
    disturbed    \* history: postings whose exclusion was given up

rows  == <<claimRun, notified, discarded, failures>>
lists == <<hand, deferred, passed, queue>>
local == <<pc, lists, current, outcome, ending>>
past  == <<reported, unmarked, disturbed>>
vars  == <<rows, row, local, tally, stale, past>>

RowStatus == {"absent", "running", "success", "failed", "cancelled"}
Ending    == {"success", "failed", "cancelled"}
AtWork    == {"screening", "deferring", "choosing", "scoring", "sending", "marking"}
InTry     == AtWork \cup {"started", "releasing", "finishing"}
InCatch   == {"catching", "closing"}
Working   == InTry \cup InCatch
Stage     == Working \cup {"idle", "done", "crashed", "abandoned"}
Outcome   == {"none", "shown", "dropped", "gated", "failed", "exhausted"}

Goto(r, stage) == pc' = [pc EXCEPT ![r] = stage]

Shown(r)    == {p \in Postings : outcome[r][p] = "shown"}
InDigest(r) == {p \in Postings : outcome[r][p] \in {"shown", "failed", "exhausted"}}
Settled(r)  == {p \in Postings : outcome[r][p] \in {"shown", "exhausted"}}
Scored(r)   == {p \in Postings : outcome[r][p] \in {"shown", "dropped", "gated"}}
Failed(r)   == {p \in Postings : outcome[r][p] \in {"failed", "exhausted"}}

Nothing == [p \in Postings |-> "none"]

(* A run's own variables go with it.                                       *)
Forget(r) ==
    /\ hand' = [hand EXCEPT ![r] = {}]
    /\ deferred' = [deferred EXCEPT ![r] = {}]
    /\ passed' = [passed EXCEPT ![r] = {}]
    /\ queue' = [queue EXCEPT ![r] = {}]
    /\ current' = [current EXCEPT ![r] = None]
    /\ outcome' = [outcome EXCEPT ![r] = Nothing]
    /\ ending' = [ending EXCEPT ![r] = "success"]

Init ==
    /\ claimRun = [p \in Postings |-> None]
    /\ notified = {}
    /\ discarded = {}
    /\ failures = [p \in Postings |-> 0]
    /\ row = [r \in Runs |-> "absent"]
    /\ pc = [r \in Runs |-> "idle"]
    /\ hand = [r \in Runs |-> {}]
    /\ deferred = [r \in Runs |-> {}]
    /\ passed = [r \in Runs |-> {}]
    /\ queue = [r \in Runs |-> {}]
    /\ current = [r \in Runs |-> None]
    /\ outcome = [r \in Runs |-> Nothing]
    /\ ending = [r \in Runs |-> "success"]
    /\ tally = [r \in Runs |->
          [filtered |-> 0, scored |-> 0, deferred |-> 0, unscored |-> 0]]
    /\ stale = [r \in Runs |-> FALSE]
    /\ reported = [p \in Postings |-> 0]
    /\ unmarked = [p \in Postings |-> 0]
    /\ disturbed = {}

-----------------------------------------------------------------------------
(* The repository's statements.                                            *)

Live(p)     == claimRun[p] # None /\ pc[claimRun[p]] \in Working
Outlived(p) == Live(p) /\ stale[claimRun[p]]

(* Mutations of Eligible: a plain read of what is outstanding, with no     *)
(* barrier; notified_at is not looked at.                                  *)
Outstanding(p)   == p \notin notified \cup discarded
EligibleAgain(p) ==
    p \notin discarded /\ (claimRun[p] # None => stale[claimRun[p]])

Eligible(p) ==
    /\ p \notin notified \cup discarded
    /\ claimRun[p] # None => stale[claimRun[p]]

(* Mutation of DropClaims: claims are left to go stale.                    *)
LeaveClaims(r) == r \in Runs /\ UNCHANGED claimRun

(* releaseUnresolvedClaims.                                                *)
DropClaims(r) ==
    claimRun' = [p \in Postings |->
        IF claimRun[p] = r /\ p \notin notified THEN None ELSE claimRun[p]]

-----------------------------------------------------------------------------
(* One run.                                                                *)

Start(r) ==
    /\ pc[r] = "idle"
    /\ row' = [row EXCEPT ![r] = "running"]
    /\ Goto(r, "started")
    /\ UNCHANGED <<rows, lists, current, outcome, ending, tally, stale, past>>

(* executeDedupAndClaim: the claim is one transaction.                     *)
Claim(r) ==
    /\ pc[r] = "started"
    /\ LET claimed == {p \in Postings : Eligible(p)} IN
       /\ claimRun' = [p \in Postings |-> IF p \in claimed THEN r ELSE claimRun[p]]
       /\ hand' = [hand EXCEPT ![r] = claimed]
       /\ disturbed' = disturbed \cup {p \in claimed : Outlived(p)}
    /\ Goto(r, "screening")
    /\ UNCHANGED <<notified, discarded, failures, row, deferred, passed, queue, current,
                   outcome, ending, tally, stale, reported, unmarked>>

(* The pre-filter, the ranking and the international budget over what was  *)
(* claimed; deferredCount is set before the deferrals are recorded.        *)
Screen(r) ==
    /\ pc[r] = "screening"
    /\ \E pass \in SUBSET hand[r] : \E admitted \in SUBSET pass :
          /\ hand' = [hand EXCEPT ![r] = pass]
          /\ deferred' = [deferred EXCEPT ![r] = pass \ admitted]
    /\ Goto(r, "deferring")
    /\ UNCHANGED <<rows, row, passed, queue, current, outcome, ending, tally, stale, past>>

(* The deferrals are recorded; only now filteredCount is set.              *)
Admit(r) ==
    /\ pc[r] = "deferring"
    /\ passed' = [passed EXCEPT ![r] = hand[r]]
    /\ queue' = [queue EXCEPT ![r] = hand[r] \ deferred[r]]
    /\ Goto(r, "choosing")
    /\ UNCHANGED <<rows, row, hand, deferred, current, outcome, ending, tally, stale, past>>

(* The head of the loop: a cancel request ends the batch.                  *)
Cancel(r) ==
    /\ pc[r] = "choosing"
    /\ queue[r] # {}
    /\ ending' = [ending EXCEPT ![r] = "cancelled"]
    /\ Goto(r, "sending")
    /\ UNCHANGED <<rows, row, lists, current, outcome, tally, stale, past>>

(* Too many failures already: reported as such, without a model call.      *)
GiveUp(r, p) ==
    /\ pc[r] = "choosing"
    /\ p \in queue[r]
    /\ failures[p] >= MaxFailures
    /\ queue' = [queue EXCEPT ![r] = @ \ {p}]
    /\ outcome' = [outcome EXCEPT ![r][p] = "exhausted"]
    /\ UNCHANGED <<rows, row, pc, hand, deferred, passed, current, ending, tally, stale,
                   past>>

(* Mutation of Retriable: one attempt past the ceiling.                    *)
RetriableOnceMore(p) == failures[p] <= MaxFailures

Retriable(p) == failures[p] < MaxFailures

BeginScore(r, p) ==
    /\ pc[r] = "choosing"
    /\ p \in queue[r]
    /\ Retriable(p)
    /\ queue' = [queue EXCEPT ![r] = @ \ {p}]
    /\ current' = [current EXCEPT ![r] = p]
    /\ Goto(r, "scoring")
    /\ UNCHANGED <<rows, row, hand, deferred, passed, outcome, ending, tally, stale, past>>

(* A verdict: apply or review (shown), discard (dropped from the digest),  *)
(* or out of reach until a known date (gated).                             *)
ScoreOk(r) ==
    /\ pc[r] = "scoring"
    /\ failures' = [failures EXCEPT ![current[r]] = 0]
    /\ \E verdict \in {"shown", "dropped", "gated"} :
          outcome' = [outcome EXCEPT ![r][current[r]] = verdict]
    /\ current' = [current EXCEPT ![r] = None]
    /\ Goto(r, "choosing")
    /\ UNCHANGED <<claimRun, notified, discarded, row, lists, ending, tally, stale, past>>

(* recordScoreFailure.                                                     *)
OneMoreFailure(n) == n + 1

(* A failure; a permanent one ends the batch.                              *)
ScoreFail(r) ==
    /\ pc[r] = "scoring"
    /\ failures' = [failures EXCEPT ![current[r]] = OneMoreFailure(@)]
    /\ outcome' = [outcome EXCEPT ![r][current[r]] = "failed"]
    /\ current' = [current EXCEPT ![r] = None]
    /\ \/ Goto(r, "choosing") /\ UNCHANGED ending
       \/ Goto(r, "sending") /\ ending' = [ending EXCEPT ![r] = "failed"]
    /\ UNCHANGED <<claimRun, notified, discarded, row, lists, tally, stale, past>>

EndBatch(r) ==
    /\ pc[r] = "choosing"
    /\ queue[r] = {}
    /\ Goto(r, "sending")
    /\ UNCHANGED <<rows, row, lists, current, outcome, ending, tally, stale, past>>

More(count, ps) == [p \in Postings |-> count[p] + IF p \in ps THEN 1 ELSE 0]

(* The digest is composed and sent; notify() answered ok.                  *)
NotifyOk(r) ==
    /\ pc[r] = "sending"
    /\ reported' = More(reported, Shown(r))
    /\ Goto(r, "marking")
    /\ UNCHANGED <<rows, row, lists, current, outcome, ending, tally, stale, unmarked,
                   disturbed>>

(* The run will not mark what it sent: while it is sending, any of its     *)
(* verdicts may be in a chunk that reached the chat before the one that    *)
(* failed, and a lost answer counts as a failure.                          *)
LeaveUnmarked(r) ==
    \/ /\ pc[r] = "sending"
       /\ \E arrived \in SUBSET Shown(r) :
             reported' = More(reported, arrived) /\ unmarked' = More(unmarked, arrived)
    \/ pc[r] = "marking" /\ unmarked' = More(unmarked, Shown(r)) /\ UNCHANGED reported
    \/ pc[r] \notin {"sending", "marking"} /\ UNCHANGED <<reported, unmarked>>

(* Not delivered, or not known to be: nothing is marked.                   *)
NotifyFailed(r) ==
    /\ pc[r] = "sending"
    /\ ending' = [ending EXCEPT ![r] = "failed"]
    /\ LeaveUnmarked(r)
    /\ Goto(r, "releasing")
    /\ UNCHANGED <<rows, row, lists, current, outcome, tally, stale, disturbed>>

(* Mutation of ToMark: a recoverable failure counts as evaluated.          *)
AllInDigest(r) == InDigest(r)

ToMark(r) == Settled(r)

(* markNotifiedMany: everything sent except recoverable failures.          *)
MarkNotified(r) ==
    /\ pc[r] = "marking"
    /\ notified' = notified \cup ToMark(r)
    /\ Goto(r, "releasing")
    /\ UNCHANGED <<claimRun, discarded, failures, row, lists, current, outcome, ending,
                   tally, stale, past>>

(* Anything thrown inside deliver(): the catch block releases and closes.  *)
(* Thrown by recordScoreFailure, the failure is already counted.           *)
Throw(r) ==
    /\ pc[r] \in InTry
    /\ ending' = [ending EXCEPT ![r] = "failed"]
    /\ \/ UNCHANGED outcome
       \/ pc[r] = "scoring" /\ outcome' = [outcome EXCEPT ![r][current[r]] = "failed"]
    /\ hand' = [hand EXCEPT ![r] = {}]
    /\ current' = [current EXCEPT ![r] = None]
    /\ LeaveUnmarked(r)
    /\ Goto(r, "catching")
    /\ UNCHANGED <<rows, row, deferred, passed, queue, tally, stale, disturbed>>

(* releaseUnresolvedClaims, on the way out or in the catch block.          *)
ReleaseClaims(r) ==
    /\ DropClaims(r)
    /\ \/ pc[r] = "releasing" /\ Goto(r, "finishing")
       \/ pc[r] = "catching" /\ Goto(r, "closing")
    /\ UNCHANGED <<notified, discarded, failures, row, lists, current, outcome, ending,
                   tally, stale, past>>

(* Mutation of Unscored: what the budget deferred is left out of the       *)
(* breakdown.                                                              *)
UnscoredButDeferred(r) ==
    Cardinality(Failed(r)) + Cardinality(passed[r] \ (deferred[r] \cup Scored(r) \cup Failed(r)))

(* finalScoreFailureCounts, added up: recorded failures, what the budget   *)
(* deferred, and what was never attempted.                                 *)
Unscored(r) ==
    LET filteredCount == Cardinality(passed[r])
        deferredCount == Cardinality(deferred[r])
        recorded      == Cardinality(Failed(r))
        attempted     == Cardinality(Scored(r)) + recorded + deferredCount
    IN  recorded + deferredCount
          + (IF filteredCount > attempted THEN filteredCount - attempted ELSE 0)

(* Mutation of Closing: a run that failed keeps its row open, as before    *)
(* the catch block existed.                                                *)
ClosingIfGood(r) == pc[r] \in {"finishing", "closing"} /\ ending[r] # "failed"

Closing(r) == pc[r] \in {"finishing", "closing"}

(* runs.finish: only here does the row stop saying "running".              *)
Finish(r) ==
    /\ Closing(r)
    /\ row' = [row EXCEPT ![r] = ending[r]]
    /\ tally' = [tally EXCEPT ![r] =
          [filtered |-> Cardinality(passed[r]), scored |-> Cardinality(Scored(r)),
           deferred |-> Cardinality(deferred[r]), unscored |-> Unscored(r)]]
    /\ Goto(r, "done")
    /\ Forget(r)
    /\ UNCHANGED <<rows, stale, past>>

(* A write of the catch block throws as well: nothing closes the row of a  *)
(* process that lives on.                                                  *)
ThrowInCatch(r) ==
    /\ pc[r] \in InCatch
    /\ Goto(r, "abandoned")
    /\ Forget(r)
    /\ UNCHANGED <<rows, row, tally, stale, past>>

(* The process dies: the row stays "running" and the claims stay.          *)
Crash(r) ==
    /\ pc[r] \in Working
    /\ LeaveUnmarked(r)
    /\ Goto(r, "crashed")
    /\ Forget(r)
    /\ UNCHANGED <<rows, row, tally, stale, disturbed>>

-----------------------------------------------------------------------------
(* Time, the operator.                                                     *)

(* Four hours after the claim, while it still matters.                     *)
GoStale(r) ==
    /\ ~stale[r]
    /\ \E p \in Postings \ notified : claimRun[p] = r
    /\ \/ pc[r] \in {"crashed", "abandoned"}
       \/ LongRuns /\ pc[r] \in Working
    /\ stale' = [stale EXCEPT ![r] = TRUE]
    /\ UNCHANGED <<rows, row, local, tally, past>>

(* `argos rescore`: reopens a posting whose last attempt failed.           *)
Rescore(p) ==
    /\ "rescore" \in OperatorActs
    /\ failures[p] > 0
    /\ notified' = notified \ {p}
    /\ failures' = [failures EXCEPT ![p] = 0]
    /\ claimRun' = [claimRun EXCEPT ![p] = None]
    /\ disturbed' = IF Live(p) THEN disturbed \cup {p} ELSE disturbed
    /\ UNCHANGED <<discarded, row, local, tally, stale, reported, unmarked>>

(* A human's "no".                                                         *)
Discard(p) ==
    /\ "discard" \in OperatorActs
    /\ p \notin discarded
    /\ discarded' = discarded \cup {p}
    /\ UNCHANGED <<claimRun, notified, failures, row, local, tally, stale, past>>

-----------------------------------------------------------------------------
Step(r) ==
    \/ Claim(r) \/ Screen(r) \/ Admit(r) \/ Cancel(r) \/ EndBatch(r)
    \/ ScoreOk(r) \/ ScoreFail(r)
    \/ \E p \in Postings : GiveUp(r, p) \/ BeginScore(r, p)
    \/ NotifyOk(r) \/ NotifyFailed(r) \/ MarkNotified(r)
    \/ ReleaseClaims(r) \/ Finish(r)

Next ==
    \/ \E r \in Runs :
          Start(r) \/ Step(r) \/ Throw(r) \/ ThrowInCatch(r) \/ Crash(r) \/ GoStale(r)
    \/ \E p \in Postings : Rescore(p) \/ Discard(p)

Spec == Init /\ [][Next]_vars

(* A started run keeps running: awaits are bounded by timeouts.  Nothing   *)
(* has to throw.                                                           *)
FairSpec == Spec /\ \A r \in Runs : WF_vars(Step(r))

-----------------------------------------------------------------------------
(* Properties.                                                             *)

TypeOK ==
    /\ claimRun \in [Postings -> Runs \cup {None}]
    /\ notified \subseteq Postings
    /\ discarded \subseteq Postings
    /\ failures \in [Postings -> Nat]
    /\ row \in [Runs -> RowStatus]
    /\ pc \in [Runs -> Stage]
    /\ hand \in [Runs -> SUBSET Postings]
    /\ deferred \in [Runs -> SUBSET Postings]
    /\ passed \in [Runs -> SUBSET Postings]
    /\ queue \in [Runs -> SUBSET Postings]
    /\ current \in [Runs -> Postings \cup {None}]
    /\ outcome \in [Runs -> [Postings -> Outcome]]
    /\ ending \in [Runs -> Ending]
    /\ tally \in [Runs -> [filtered : Nat, scored : Nat, deferred : Nat, unscored : Nat]]
    /\ stale \in [Runs -> BOOLEAN]
    /\ reported \in [Postings -> Nat]
    /\ unmarked \in [Postings -> Nat]
    /\ disturbed \subseteq Postings

(* ADR-040's barrier: no posting is in the hands of two runs that are at   *)
(* work on theirs, unless its exclusion was given up.                      *)
OneRunPerPosting ==
    \A r, s \in {t \in Runs : pc[t] \in AtWork} :
        r # s => hand[r] \cap hand[s] \subseteq disturbed

(* A posting's verdict is sent once, and once more for each run that       *)
(* failed or died after the verdict may have reached the chat and before   *)
(* the posting was marked: those digests are repeated, no other is.        *)
ReportedOnce == \A p \in Postings \ disturbed : reported[p] <= 1 + unmarked[p]

(* A posting is only marked notified after a digest that carried its       *)
(* verdict was delivered, or because it failed to the ceiling: a failed    *)
(* send or a recoverable failure never retires a posting silently.         *)
NotifiedForAReason ==
    \A p \in notified \ disturbed : reported[p] > 0 \/ failures[p] >= MaxFailures

(* A run that closed its row holds no claim on anything unnotified, so     *)
(* the next run may claim it at once.                                      *)
ClaimsReturned ==
    \A p \in Postings \ notified :
        claimRun[p] # None => row[claimRun[p]] = "running"

(* No model call is spent past the ceiling.                                *)
FailureCeiling == \A p \in Postings \ disturbed : failures[p] <= MaxFailures

(* What finish() stores reconciles as evaluateDeliveryOutcome requires:    *)
(* the named reasons add up to the postings left without a score.  One     *)
(* exit is excepted: a run that throws while it records its deferrals has  *)
(* deferredCount and not yet filteredCount, and stores nothing else.       *)
CountsReconcile ==
    \A r \in Runs :
        \/ tally[r].filtered = tally[r].scored + tally[r].unscored
        \/ /\ row[r] = "failed"
           /\ tally[r].filtered = 0 /\ tally[r].scored = 0
           /\ tally[r].unscored = tally[r].deferred

(* Every run that starts closes its row, unless its process dies or        *)
(* closing it throws in the catch block itself.                            *)
RunCloses ==
    \A r \in Runs :
        row[r] = "running" ~> row[r] # "running" \/ pc[r] \in {"crashed", "abandoned"}

(* postings-repository.ts on rescore: a posting that was retired without a *)
(* verdict can be reopened, which needs its failure count.                 *)
RetiredIsReopenable ==
    \A p \in notified : reported[p] = 0 => failures[p] > 0
=============================================================================
