----------------------------- MODULE ScoreBatch -----------------------------
(***************************************************************************)
(* Scoring the postings of a run: ApiScorer.score with its two stages and  *)
(* their caches.  Stage A is one model call; Stage B is one call per       *)
(* requirement, the first alone, to warm the provider's prompt cache, the  *)
(* others by a few workers at a time (runBounded).                         *)
(*                                                                         *)
(* Each good answer of Stage B is saved at once, so that a run after a     *)
(* failure or a crash asks only for the rest; the whole result is          *)
(* published, and the saved answers dropped, when none is missing.  A      *)
(* write may throw.  In a worker that rejects Promise.all, and the scorer  *)
(* answers at once, while the other workers go on: they are not part of    *)
(* the run any more, but still take requirements and save answers, also    *)
(* beside the batch of the next run, which may read the saved answers      *)
(* before theirs are there and ask for the same again.                     *)
(*                                                                         *)
(* A model call (ModelTransport) is one step here: it ends well, fails,    *)
(* or fails fatally (credentials or configuration).                        *)
(***************************************************************************)
EXTENDS Integers, FiniteSets, FiniteSetsExt

CONSTANTS
    Postings,       \* the admitted postings, all with a description
    NumReqs,        \* requirements per posting
    Concurrency,    \* DEFAULT_STAGE_B_CONCURRENCY
    NoPosting,      \* no posting
    MaxRuns         \* bound of the model

ASSUME NoPostingAssumption == NoPosting \notin Postings
ASSUME NumbersAssumption ==
    /\ NumReqs \in Nat
    /\ Concurrency \in Nat \ {0}
    /\ MaxRuns \in Nat

Reqs == 1..NumReqs

VARIABLES
    extracted,  \* postings in Stage A's cache
    saved,      \* [Postings -> SUBSET Reqs]: partial_matches
    published,  \* postings in Stage B's cache
    stage,      \* where the batch is
    left,       \* postings of the batch not yet tried
    posting,    \* the posting of this batch's match, running or left behind
    served,     \* requirements it found answered in partial_matches
    cursor,     \* the next requirement of runBounded
    live,       \* workers that have neither returned nor thrown
    halted,     \* runBounded's `stopped`
    flight,     \* requirements being asked
    answer,     \* [Reqs -> Answer]: the results so far
    behind,     \* [1..MaxRuns -> Crew]: the workers left behind when a batch began
    runs,       \* batches started
    paid,       \* history: [Postings -> [Reqs -> Nat]], good answers received
    spoiled,    \* history: good answers that could not be saved
    raced,      \* history: asked by a match while left to others of an earlier one
    fatal       \* history: a call of this batch failed fatally

caches == <<extracted, saved, published>>
match  == <<posting, served, cursor, live, halted, flight, answer>>
batchPast   == <<paid, spoiled, raced, fatal>>
batchVars   == <<caches, stage, left, match, behind, runs, batchPast>>

Stages  == {"idle", "next", "extract", "match", "warm", "pool", "stopped"}
Answers == {"none", "ok", "failed", "fatal"}

(* Some worker can still take a requirement.                               *)
Looping == live > Cardinality(flight) /\ ~halted /\ cursor \in Reqs

(* No worker of the match is left.                                         *)
Quiet == flight = {} /\ ~Looping

(* The workers of a match that was given up: what they ask, what they may  *)
(* still ask, and how many they are.                                       *)
Crew ==
    {c \in [posting : Postings \cup {NoPosting}, asking : SUBSET Reqs, ahead : SUBSET Reqs,
            live : Int] : c.asking \cap c.ahead = {}}
NoCrew == [posting |-> NoPosting, asking |-> {}, ahead |-> {}, live |-> 0]

(* The requirements a crew asks, or may come to ask.                       *)
Reach(b) == b.asking \cup b.ahead
StillOut(p) == UNION {Reach(behind[r]) : r \in {q \in 1..MaxRuns : behind[q].posting = p}}

BatchInit ==
    /\ extracted = {}
    /\ saved = [p \in Postings |-> {}]
    /\ published = {}
    /\ stage = "idle"
    /\ left = {}
    /\ posting = NoPosting
    /\ served = {}
    /\ cursor = 1
    /\ live = 0
    /\ halted = FALSE
    /\ flight = {}
    /\ answer = [i \in Reqs |-> "none"]
    /\ behind = [r \in 1..MaxRuns |-> NoCrew]
    /\ runs = 0
    /\ paid = [p \in Postings |-> [i \in Reqs |-> 0]]
    /\ spoiled = {}
    /\ raced = {}
    /\ fatal = FALSE

-----------------------------------------------------------------------------
(* The batch: the scoring loop of executeDeliver.                          *)

(* Another run, in the same process or another.  A run gives its claims    *)
(* back when it ends, not when its last worker is done: whoever is left    *)
(* goes on beside this batch.                                              *)
LeaveBehind ==
    behind' = IF Quiet THEN behind
              ELSE [behind EXCEPT ![runs + 1] =
                      [posting |-> posting, asking |-> flight, live |-> live,
                       ahead   |-> IF halted THEN {} ELSE {i \in Reqs \ served : i >= cursor}]]

StartBatch ==
    /\ stage = "idle"
    /\ runs < MaxRuns
    /\ runs' = runs + 1
    /\ left' = Postings
    /\ stage' = "next"
    /\ fatal' = FALSE
    /\ LeaveBehind
    /\ flight' = {}
    /\ live' = 0
    /\ UNCHANGED <<caches, posting, served, cursor, halted, answer, paid, spoiled, raced>>

NextPosting(p) ==
    /\ stage = "next"
    /\ p \in left
    /\ left' = left \ {p}
    /\ posting' = p
    /\ stage' = "extract"
    /\ UNCHANGED <<caches, served, cursor, live, halted, flight, answer, behind, runs, batchPast>>

EndBatch ==
    /\ stage = "stopped" \/ (stage = "next" /\ left = {})
    /\ stage' = "idle"
    /\ UNCHANGED <<caches, left, match, behind, runs, batchPast>>

(* A failure with `permanent` ends the batch, any other costs one posting. *)
Fail(permanent) == stage' = IF permanent THEN "stopped" ELSE "next"

(* score's catch: whatever was thrown, the failure is permanent.           *)
Thrown == Fail(TRUE)

-----------------------------------------------------------------------------
(* Stage A.                                                                *)

ExtractCached ==
    /\ stage = "extract"
    /\ posting \in extracted
    /\ stage' = "match"
    /\ UNCHANGED <<caches, left, match, behind, runs, batchPast>>

ExtractAsk ==
    /\ stage = "extract"
    /\ posting \notin extracted
    /\ \/ stage' = "match" /\ extracted' = extracted \cup {posting} /\ UNCHANGED fatal
       \/ \E isFatal \in BOOLEAN :
             Fail(isFatal) /\ fatal' = (fatal \/ isFatal) /\ UNCHANGED extracted
    /\ UNCHANGED <<saved, published, left, match, behind, runs, paid, spoiled, raced>>

(* The cache or updateExtractedFields cannot be written.                   *)
ExtractThrow ==
    /\ stage = "extract"
    /\ Thrown
    /\ extracted' \in {extracted, extracted \cup {posting}}
    /\ UNCHANGED <<saved, published, left, match, behind, runs, batchPast>>

-----------------------------------------------------------------------------
(* Stage B.                                                                *)

MatchCached ==
    /\ stage = "match"
    /\ posting \in published
    /\ stage' = "next"
    /\ UNCHANGED <<caches, left, match, behind, runs, batchPast>>

(* Mutation of WarmIndex: the first requirement, answered or not.          *)
WarmAlways(known) == 1

(* The first requirement that actually reaches the model.                  *)
WarmIndex(known) == Min(Reqs \ known)

(* The saved answers are read; the warming call is made, if any is left.   *)
MatchPartial ==
    /\ stage = "match"
    /\ posting \notin published
    /\ served' = saved[posting]
    /\ halted' = FALSE
    /\ LET known == saved[posting] IN
       IF known = Reqs
       THEN /\ answer' = [i \in Reqs |-> "ok"]
            /\ cursor' = NumReqs + 1 /\ live' = 1 /\ flight' = {}
            /\ stage' = "pool"
       ELSE LET warm == WarmIndex(known) IN
            /\ answer' = [i \in Reqs |-> IF i < warm THEN "ok" ELSE "none"]
            /\ cursor' = warm + 1 /\ live' = 0
            /\ flight' = {warm} \ known
            /\ stage' = "warm"
    /\ raced' = raced \cup {<<posting, i>> : i \in StillOut(posting) \ saved[posting]}
    /\ UNCHANGED <<caches, left, posting, behind, runs, paid, spoiled, fatal>>

Pay(p, i) == paid' = [paid EXCEPT ![p][i] = @ + 1]

(* upsertPartial.                                                          *)
Save(p, asked) == saved' = [saved EXCEPT ![p] = @ \cup asked]

StartWorkers ==
    live' = IF NumReqs - (cursor - 1) < Concurrency
            THEN Max({1, NumReqs - (cursor - 1)}) ELSE Concurrency

WarmOk ==
    /\ stage = "warm"
    /\ Save(posting, flight)
    /\ paid' = [paid EXCEPT ![posting] =
          [i \in Reqs |-> IF i \in flight THEN @[i] + 1 ELSE @[i]]]
    /\ answer' = [answer EXCEPT ![cursor - 1] = "ok"]
    /\ flight' = {}
    /\ StartWorkers
    /\ stage' = "pool"
    /\ UNCHANGED <<extracted, published, left, posting, served, cursor, halted, behind, runs,
                   spoiled, raced, fatal>>

WarmFail ==
    /\ stage = "warm"
    /\ flight' = {}
    /\ \E isFatal \in BOOLEAN : Fail(isFatal) /\ fatal' = (fatal \/ isFatal)
    /\ UNCHANGED <<caches, left, posting, served, cursor, live, halted, answer, behind, runs,
                   paid, spoiled, raced>>

WarmThrow ==
    /\ stage = "warm"
    /\ \E i \in flight : Pay(posting, i) /\ spoiled' = spoiled \cup {<<posting, i>>}
    /\ flight' = {}
    /\ Thrown
    /\ UNCHANGED <<caches, left, posting, served, cursor, live, halted, answer, behind, runs,
                   raced, fatal>>

(* A worker takes the next requirement; a saved answer costs no call.      *)
Take ==
    /\ stage # "warm"
    /\ Looping
    /\ cursor' = cursor + 1
    /\ IF cursor \in served
       THEN answer' = [answer EXCEPT ![cursor] = "ok"] /\ UNCHANGED flight
       ELSE flight' = flight \cup {cursor} /\ UNCHANGED answer
    /\ UNCHANGED <<caches, stage, left, posting, served, live, halted, behind, runs, batchPast>>

PoolOk(i) ==
    /\ stage # "warm"
    /\ i \in flight
    /\ Save(posting, {i})
    /\ Pay(posting, i)
    /\ answer' = [answer EXCEPT ![i] = "ok"]
    /\ flight' = flight \ {i}
    /\ UNCHANGED <<extracted, published, stage, left, posting, served, cursor, live,
                   halted, behind, runs, spoiled, raced, fatal>>

Halt == halted' = TRUE

PoolFail(i) ==
    /\ stage # "warm"
    /\ i \in flight
    /\ \E isFatal \in BOOLEAN :
          /\ answer' = [answer EXCEPT ![i] = IF isFatal THEN "fatal" ELSE "failed"]
          /\ fatal' = (fatal \/ isFatal)
    /\ Halt
    /\ flight' = flight \ {i}
    /\ UNCHANGED <<caches, stage, left, posting, served, cursor, live, behind, runs, paid, spoiled, raced>>

(* The answer came but cannot be saved: this worker is gone.               *)
PoolThrow(i) ==
    /\ stage # "warm"
    /\ i \in flight
    /\ Pay(posting, i)
    /\ spoiled' = spoiled \cup {<<posting, i>>}
    /\ flight' = flight \ {i}
    /\ live' = live - 1
    /\ IF stage = "pool" THEN Thrown ELSE UNCHANGED stage
    /\ UNCHANGED <<caches, left, posting, served, cursor, halted, answer, behind, runs,
                   raced, fatal>>

(* Mutation of Complete: every requirement has an answer, of any kind.     *)
AllAsked == \A i \in Reqs : answer[i] # "none"

Complete == \A i \in Reqs : answer[i] = "ok"

PoolDone == stage = "pool" /\ Quiet

Publish ==
    /\ PoolDone
    /\ Complete
    /\ published' = published \cup {posting}
    /\ saved' = [saved EXCEPT ![posting] = {}]
    /\ live' = 0
    /\ stage' = "next"
    /\ UNCHANGED <<extracted, left, posting, served, cursor, halted, flight, answer, behind, runs, batchPast>>

(* The first answer that is missing or failed decides.                     *)
GiveUp ==
    /\ PoolDone
    /\ ~Complete
    /\ LET first == Min({i \in Reqs : answer[i] # "ok"}) IN Fail(answer[first] = "fatal")
    /\ live' = 0
    /\ UNCHANGED <<caches, left, posting, served, cursor, halted, flight, answer, behind, runs, batchPast>>

(* Thrown before the result is written, or before the saved answers go.    *)
PublishThrow ==
    /\ PoolDone
    /\ Complete
    /\ published' \in {published, published \cup {posting}}
    /\ live' = 0
    /\ Thrown
    /\ UNCHANGED <<extracted, saved, left, posting, served, cursor, halted, flight, answer,
                   behind, runs, batchPast>>

(* Those left behind of an earlier batch: a worker takes a requirement,    *)
(* its answer is saved, fails, or cannot be saved.                         *)
CrewNow(r, asking, ahead, n) ==
    behind' = [behind EXCEPT ![r] = [posting |-> behind[r].posting, asking |-> asking,
                                     ahead |-> ahead, live |-> n]]

StragglerTakes(r) ==
    /\ behind[r].ahead # {}
    /\ behind[r].live > Cardinality(behind[r].asking)
    /\ LET i == Min(behind[r].ahead) IN
       CrewNow(r, behind[r].asking \cup {i}, behind[r].ahead \ {i}, behind[r].live)
    /\ UNCHANGED <<caches, stage, left, match, runs, batchPast>>

StragglerOk(r, i) ==
    /\ i \in behind[r].asking
    /\ Save(behind[r].posting, {i})
    /\ Pay(behind[r].posting, i)
    /\ CrewNow(r, behind[r].asking \ {i}, behind[r].ahead, behind[r].live)
    /\ UNCHANGED <<extracted, published, stage, left, match, runs, spoiled, raced, fatal>>

StragglerFails(r, i) ==
    /\ i \in behind[r].asking
    /\ CrewNow(r, behind[r].asking \ {i}, {}, behind[r].live)
    /\ UNCHANGED <<caches, stage, left, match, runs, batchPast>>

StragglerThrows(r, i) ==
    /\ i \in behind[r].asking
    /\ Pay(behind[r].posting, i)
    /\ spoiled' = spoiled \cup {<<behind[r].posting, i>>}
    /\ CrewNow(r, behind[r].asking \ {i},
                  IF behind[r].live = 1 THEN {} ELSE behind[r].ahead, behind[r].live - 1)
    /\ UNCHANGED <<caches, stage, left, match, runs, raced, fatal>>

(* The process of the batch dies, and the workers in it.  Those of an      *)
(* earlier batch may be in it, or in another that goes on.                 *)
Crash ==
    /\ stage # "idle" \/ ~Quiet \/ \E r \in 1..MaxRuns : Reach(behind[r]) # {}
    /\ behind' \in {behind, [r \in 1..MaxRuns |-> NoCrew]}
    /\ stage' = "idle"
    /\ left' = {}
    /\ live' = 0
    /\ flight' = {}
    /\ UNCHANGED <<caches, posting, served, cursor, halted, answer, runs, batchPast>>

-----------------------------------------------------------------------------
StageA == ExtractCached \/ ExtractAsk \/ ExtractThrow
StageB ==
    \/ MatchCached \/ MatchPartial \/ WarmOk \/ WarmFail \/ WarmThrow \/ Take
    \/ \E i \in Reqs : PoolOk(i) \/ PoolFail(i) \/ PoolThrow(i)
    \/ Publish \/ GiveUp \/ PublishThrow

Stragglers ==
    \E r \in 1..MaxRuns :
       \/ StragglerTakes(r)
       \/ \E i \in Reqs : StragglerOk(r, i) \/ StragglerFails(r, i) \/ StragglerThrows(r, i)

BatchNext ==
    \/ Stragglers
    \/ StartBatch \/ EndBatch \/ StageA \/ StageB \/ Crash
    \/ \E p \in Postings : NextPosting(p)

BatchSpec == BatchInit /\ [][BatchNext]_batchVars

-----------------------------------------------------------------------------
(* Properties.                                                             *)

BatchTypeOK ==
    /\ extracted \subseteq Postings
    /\ saved \in [Postings -> SUBSET Reqs]
    /\ published \subseteq Postings
    /\ stage \in Stages
    /\ left \subseteq Postings
    /\ posting \in Postings \cup {NoPosting}
    /\ served \subseteq Reqs
    /\ cursor \in 1..NumReqs + 1
    /\ live \in Int
    /\ halted \in BOOLEAN
    /\ flight \subseteq Reqs
    /\ answer \in [Reqs -> Answers]
    /\ behind \in [1..MaxRuns -> Crew]
    /\ runs \in Nat
    /\ paid \in [Postings -> [Reqs -> Nat]]
    /\ spoiled \subseteq Postings \X Reqs
    /\ raced \subseteq Postings \X Reqs
    /\ fatal \in BOOLEAN

(* What is published rests on a model answer for every single requirement, *)
(* of whichever run.                                                       *)
PublishedIsAnswered == \A p \in published : \A i \in Reqs : paid[p][i] > 0

(* No requirement is paid for twice, over any number of failed, thrown and *)
(* crashed runs, unless its answer could not be saved, or it was still out *)
(* to workers left behind, and unanswered, when a later match read what is *)
(* saved.                                                                  *)
Excused(p, i) == <<p, i>> \in spoiled \cup raced
PaidOnce == \A p \in Postings : \A i \in Reqs : paid[p][i] > 1 => Excused(p, i)

(* The two caches of Stage B keep both of their promises: "caching that    *)
(* would poison the key" never happens, and "the next run resumes only the *)
(* missing requirements".                                                  *)
CachesSound == PublishedIsAnswered /\ PaidOnce

(* createStageBPromptBuilder's cold prefix is paid once: requirements are  *)
(* asked together only after one answer of this match has come back.       *)
WarmedFirst ==
    Cardinality(flight) > 1 => \E i \in Reqs \ served : answer[i] = "ok"

(* runBounded: after a failure no further requirement of it is asked.      *)
NoneAskedAfterFailure ==
    (\E i \in Reqs : answer[i] \in {"failed", "fatal"}) /\ posting' = posting
        /\ stage # "match" => flight' \subseteq flight

(* The workers of a match keep together: none asks before the prefix is    *)
(* warm, none after one has failed.                                        *)
PoolDisciplined == [][WarmedFirst' /\ NoneAskedAfterFailure]_batchVars

(* api-scorer.ts: a write that throws on one posting costs that posting,   *)
(* "every other posting in the batch still gets scored and delivered".     *)
OnlyFatalSkips == stage = "stopped" /\ left # {} => fatal
=============================================================================
