-------------------------- MODULE ScoreBatchProofs --------------------------
(***************************************************************************)
(* Facts of the scoring batch, for any postings, any number of             *)
(* requirements, any concurrency, and any sequence of runs that fail,      *)
(* throw or crash: a published match rests on an answer for every          *)
(* requirement, no answer is paid for twice unless it could not be saved   *)
(* or was left to others when it was asked for again, and the workers of a *)
(* match keep together.                                                    *)
(*                                                                         *)
(* What makes it hold is the agreement between three records of the same   *)
(* answers: the rows of partial_matches, the cursor of runBounded and the  *)
(* results of the match.  AtWork states it for as long as a worker of the  *)
(* match is left, and Apart that what those left behind by an earlier      *)
(* batch may still ask, nobody else asks and nobody answered.              *)
(***************************************************************************)
EXTENDS ScoreBatch, FiniteSetTheorems, WellFoundedInduction, TLAPS

(* A match is under way, or workers of one that threw are.                 *)
Active == stage \in {"warm", "pool"} \/ flight # {} \/ Looping

(* What the match asks, or may still ask.                                  *)
Mine == {i \in Reqs : i \in flight \/ (i >= cursor /\ i \notin served)}

(* An answer that is saved was paid for; one that was paid for is saved,   *)
(* or published, or could not be saved.                                    *)
SavedArePaid == \A p \in Postings : \A i \in saved[p] : paid[p][i] > 0
PaidAreKept ==
    \A p \in Postings : \A i \in Reqs :
       paid[p][i] > 0 => i \in saved[p] \/ p \in published \/ <<p, i>> \in spoiled
Books == SavedArePaid /\ PaidAreKept /\ CachesSound

AtWork == Active =>
    /\ posting \in Postings \ published
    /\ \A i \in flight : i < cursor /\ i \notin served
    /\ \A i \in Mine : i \notin saved[posting] \/ Excused(posting, i)
    /\ \A i \in served : paid[posting][i] > 0
    /\ \A i \in Reqs : answer[i] = "ok" => paid[posting][i] > 0
    /\ \A i \in Reqs : i >= cursor \/ i \in flight => answer[i] = "none"
    /\ \A i \in Reqs : answer[i] \in {"failed", "fatal"} => halted

(* What a crew left behind asks or may ask is of a posting, and unless it  *)
(* is excused, it was never answered and no one else is to ask it.         *)
Apart ==
    \A r \in 1..MaxRuns : \A i \in Reach(behind[r]) :
       /\ behind[r].posting \in Postings
       /\ \/ Excused(behind[r].posting, i)
          \/ /\ paid[behind[r].posting][i] = 0
             /\ \A q \in 1..MaxRuns \ {r} :
                   behind[q].posting = behind[r].posting => i \notin Reach(behind[q])
             /\ ~(Active /\ posting = behind[r].posting /\ i \in Mine)

(* Between two matches of one batch no worker is left.                     *)
AtRest ==
    /\ stage \in {"next", "extract", "match"} => Quiet
    /\ stage \in {"extract", "match"} => posting \in Postings

(* The warming call is alone, and comes before the workers.                *)
Warming == stage = "warm" => flight = {cursor - 1} /\ cursor - 1 \in Reqs /\ live = 0
Warmed ==
    stage # "warm" /\ Active /\ (flight # {} \/ cursor \in Reqs)
       => \E i \in Reqs \ served : answer[i] = "ok"

Inv == BatchTypeOK /\ Books /\ AtWork /\ Apart /\ AtRest /\ Warming /\ Warmed

-----------------------------------------------------------------------------
(* A set of requirements that is not empty has a first one.                *)
LEMMA FirstExists ==
    ASSUME NEW S \in SUBSET Reqs, S # {}
    PROVE  Min(S) \in S /\ \A i \in S : Min(S) =< i
  <1> DEFINE R == {ss \in Nat \X Nat : ss[1] < ss[2]}
  <1>1. S \subseteq Nat
    BY DEF Reqs
  <1>2. IsWellFoundedOn(R, Nat)
    BY NatLessThanWellFounded DEF OpToRel
  <1>3. \A y, x \in Nat : y < x => <<y, x>> \in R
    BY Zenon
  <1> HIDE DEF R
  <1>4. PICK x \in S : \A y \in S : ~ (<<y, x>> \in R)
    BY <1>1, <1>2, WFMin
  <1>5. \A y \in S : ~ (y < x)
    BY <1>1, <1>3, <1>4, Zenon
  <1>6. \A y \in S : x =< y
    BY <1>1, <1>5
  <1> QED
    BY <1>6 DEF Min

(* Reading an answer that was just recorded.                               *)
LEMMA Paying ==
    ASSUME paid \in [Postings -> [Reqs -> Nat]], NEW p \in Postings, NEW i \in Reqs, Pay(p, i)
    PROVE  /\ paid' \in [Postings -> [Reqs -> Nat]]
           /\ \A q \in Postings : \A j \in Reqs :
                 paid'[q][j] = IF q = p /\ j = i THEN paid[q][j] + 1 ELSE paid[q][j]
  BY DEF Pay

LEMMA Saving ==
    ASSUME saved \in [Postings -> SUBSET Reqs], NEW p \in Postings,
           NEW S \in SUBSET Reqs, Save(p, S)
    PROVE  /\ saved' \in [Postings -> SUBSET Reqs]
           /\ \A q \in Postings : saved'[q] = IF q = p THEN saved[q] \cup S ELSE saved[q]
  BY DEF Save

(* Nobody works when the batch is between matches.                         *)
LEMMA NoWorkers ==
    ASSUME flight' = {}, live' = 0
    PROVE  Quiet'
  BY FS_EmptySet DEF Quiet, Looping

LEMMA IdleStages ==
    ASSUME Quiet, stage \notin {"warm", "pool"}
    PROVE  ~Active
  BY DEF Quiet, Active

-----------------------------------------------------------------------------
LEMMA Initially == BatchInit => Inv
  <1> SUFFICES ASSUME BatchInit PROVE Inv
    OBVIOUS
  <1>1. Quiet
    BY FS_EmptySet DEF BatchInit, Quiet, Looping
  <1>2. ~Active
    BY <1>1, IdleStages DEF BatchInit
  <1>3. BatchTypeOK
    <2>1. saved \in [Postings -> SUBSET Reqs] /\ answer \in [Reqs -> Answers]
      BY DEF BatchInit, Answers
    <2>2. [i \in Reqs |-> 0] \in [Reqs -> Nat]
      OBVIOUS
    <2>3. paid \in [Postings -> [Reqs -> Nat]]
      BY <2>2 DEF BatchInit
    <2>4. cursor \in 1..NumReqs + 1
      BY NumbersAssumption DEF BatchInit
    <2>5. halted \in BOOLEAN /\ fatal \in BOOLEAN
      BY Zenon DEF BatchInit
    <2>6. extracted \subseteq Postings /\ published \subseteq Postings /\ left \subseteq Postings
             /\ served \subseteq Reqs /\ flight \subseteq Reqs /\ spoiled \subseteq Postings \X Reqs
      BY DEF BatchInit
    <2>7. live \in Int /\ runs \in Nat /\ stage \in Stages /\ posting \in Postings \cup {NoPosting}
      BY DEF BatchInit, Stages
    <2>8. behind \in [1..MaxRuns -> Crew] /\ raced \subseteq Postings \X Reqs
      BY DEF BatchInit, Crew, NoCrew
    <2> QED
      BY <2>1, <2>3, <2>4, <2>5, <2>6, <2>7, <2>8, Zenon DEF BatchTypeOK
  <1>4. Books
    BY DEF BatchInit, Books, SavedArePaid, PaidAreKept, CachesSound, PublishedIsAnswered,
           PaidOnce
  <1>5. Apart
    BY DEF BatchInit, Apart, Reach, NoCrew
  <1> QED
    BY <1>1, <1>2, <1>3, <1>4, <1>5
    DEF Inv, AtWork, AtRest, Warming, Warmed, BatchInit

-----------------------------------------------------------------------------
(* A match that ends with nobody working leaves nothing to show but the    *)
(* books.                                                                  *)
LEMMA MatchEnds ==
    ASSUME flight' = {}, live' = 0, stage' \in {"idle", "next", "stopped"}
    PROVE  AtWork' /\ AtRest' /\ Warming' /\ Warmed'
  <1>1. Quiet'
    BY NoWorkers
  <1>2. ~Active'
    BY <1>1 DEF Quiet, Active
  <1> QED
    BY <1>1, <1>2 DEF AtWork, AtRest, Warming, Warmed

(* A fact of a working match that the invariant gives.                     *)
LEMMA Working ==
    ASSUME Inv, Active
    PROVE  /\ posting \in Postings /\ posting \notin published
           /\ \A i \in flight : i \in Reqs /\ i \in Mine
           /\ \A i \in Mine : paid[posting][i] > 0 => Excused(posting, i)
  BY DEF Inv, AtWork, Books, PaidAreKept, BatchTypeOK, Mine, Excused

(* A good answer is paid for, and saved.                                   *)
LEMMA PaidAndSaved ==
    ASSUME BatchTypeOK, Books, NEW p \in Postings, NEW i \in Reqs,
           paid[p][i] > 0 => Excused(p, i),
           Pay(p, i), Save(p, {i}), UNCHANGED <<published, spoiled, raced>>
    PROVE  /\ Books'
           /\ saved' \in [Postings -> SUBSET Reqs] /\ paid' \in [Postings -> [Reqs -> Nat]]
           /\ \A q \in Postings : \A j \in Reqs :
                 paid'[q][j] = IF q = p /\ j = i THEN paid[q][j] + 1 ELSE paid[q][j]
           /\ \A q \in Postings : saved'[q] = IF q = p THEN saved[q] \cup {i} ELSE saved[q]
  <1>1. /\ paid \in [Postings -> [Reqs -> Nat]] /\ saved \in [Postings -> SUBSET Reqs]
        /\ published \subseteq Postings /\ spoiled \subseteq Postings \X Reqs
    BY Zenon DEF BatchTypeOK
  <1>2. /\ paid' \in [Postings -> [Reqs -> Nat]]
        /\ \A q \in Postings : \A j \in Reqs :
              paid'[q][j] = IF q = p /\ j = i THEN paid[q][j] + 1 ELSE paid[q][j]
    BY <1>1, Paying
  <1>3. /\ saved' \in [Postings -> SUBSET Reqs]
        /\ \A q \in Postings : saved'[q] = IF q = p THEN saved[q] \cup {i} ELSE saved[q]
    <2>1. {i} \in SUBSET Reqs
      OBVIOUS
    <2> QED
      BY <1>1, <2>1, Saving
  <1>4. \A q \in Postings : \A j \in Reqs : paid[q][j] \in Nat /\ paid'[q][j] >= paid[q][j]
    <2>1. \A q \in Postings : \A j \in Reqs : paid[q][j] \in Nat
      BY <1>1
    <2> QED
      BY <1>2, <2>1
  <1>5. SavedArePaid'
    BY <1>1, <1>2, <1>3, <1>4 DEF Books, SavedArePaid
  <1>6. PaidAreKept'
    BY <1>2, <1>3 DEF Books, PaidAreKept
  <1>7. CachesSound'
    <2>1. PublishedIsAnswered'
      BY <1>1, <1>2, <1>4 DEF Books, CachesSound, PublishedIsAnswered
    <2>2. PaidOnce'
      BY <1>2, <1>4 DEF Books, CachesSound, PaidOnce, Excused
    <2> QED
      BY <2>1, <2>2 DEF CachesSound
  <1> QED
    BY <1>2, <1>3, <1>5, <1>6, <1>7 DEF Books

(* A good answer is paid for, and lost.                                    *)
LEMMA PaidAndSpoiled ==
    ASSUME BatchTypeOK, Books, NEW p \in Postings, NEW i \in Reqs,
           Pay(p, i), spoiled' = spoiled \cup {<<p, i>>}, UNCHANGED <<saved, published, raced>>
    PROVE  /\ Books' /\ paid' \in [Postings -> [Reqs -> Nat]]
           /\ spoiled' \subseteq Postings \X Reqs
           /\ \A q \in Postings : \A j \in Reqs :
                 paid'[q][j] = IF q = p /\ j = i THEN paid[q][j] + 1 ELSE paid[q][j]
  <1>1. /\ paid \in [Postings -> [Reqs -> Nat]] /\ saved \in [Postings -> SUBSET Reqs]
        /\ published \subseteq Postings /\ spoiled \subseteq Postings \X Reqs
    BY Zenon DEF BatchTypeOK
  <1>2. /\ paid' \in [Postings -> [Reqs -> Nat]]
        /\ \A q \in Postings : \A j \in Reqs :
              paid'[q][j] = IF q = p /\ j = i THEN paid[q][j] + 1 ELSE paid[q][j]
    BY <1>1, Paying
  <1>3. \A q \in Postings : \A j \in Reqs : paid[q][j] \in Nat
                            /\ paid'[q][j] \in Nat /\ paid'[q][j] >= paid[q][j]
    <2>1. \A q \in Postings : \A j \in Reqs : paid[q][j] \in Nat
      BY <1>1
    <2> QED
      BY <1>2, <2>1
  <1>4. SavedArePaid'
    BY <1>1, <1>3 DEF Books, SavedArePaid
  <1>8. <<p, i>> \in spoiled' /\ spoiled \subseteq spoiled'
    OBVIOUS
  <1>9. \A q \in Postings : \A j \in Reqs :
           paid'[q][j] = paid[q][j] \/ <<q, j>> \in spoiled'
    BY <1>2, <1>8
  <1>5. PaidAreKept'
    BY <1>8, <1>9 DEF Books, PaidAreKept
  <1>6. CachesSound'
    <2>1. PublishedIsAnswered'
      BY <1>1, <1>3 DEF Books, CachesSound, PublishedIsAnswered
    <2>2. PaidOnce'
      BY <1>8, <1>9 DEF Books, CachesSound, PaidOnce, Excused
    <2> QED
      BY <2>1, <2>2 DEF CachesSound
  <1>7. spoiled' \subseteq Postings \X Reqs
    BY <1>1
  <1> QED
    BY <1>2, <1>4, <1>5, <1>6, <1>7 DEF Books

(* No one else is to ask what those left behind may ask, when the match    *)
(* comes to ask for no more, and is answered only what it asked.           *)
LEMMA StaysApart ==
    ASSUME Inv, UNCHANGED behind, spoiled \subseteq spoiled', raced \subseteq raced',
           \A p \in Postings : \A i \in Reqs :
              paid'[p][i] = paid[p][i] \/ (Active /\ p = posting /\ i \in flight),
           ~Active' \/ (Active /\ posting' = posting /\ Mine' \subseteq Mine)
    PROVE  Apart'
  <1> SUFFICES ASSUME NEW r \in 1..MaxRuns, NEW i \in Reach(behind[r])
               PROVE  /\ behind[r].posting \in Postings
                      /\ \/ Excused(behind[r].posting, i)'
                         \/ /\ paid'[behind[r].posting][i] = 0
                            /\ \A q \in 1..MaxRuns \ {r} :
                                  behind[q].posting = behind[r].posting
                                     => i \notin Reach(behind[q])
                            /\ ~(Active' /\ posting' = behind[r].posting /\ i \in Mine')
    BY DEF Apart, Reach, Excused
  <1> DEFINE p == behind[r].posting
  <1>1. p \in Postings
    BY DEF Inv, Apart
  <1>2. i \in Reqs
    BY DEF Inv, BatchTypeOK, Crew, Reach
  <1>3. CASE Excused(p, i)
    BY <1>1, <1>3 DEF Excused
  <1>4. CASE ~Excused(p, i)
    <2>1. /\ paid[p][i] = 0
          /\ \A q \in 1..MaxRuns \ {r} : behind[q].posting = p => i \notin Reach(behind[q])
          /\ ~(Active /\ posting = p /\ i \in Mine)
      BY <1>4 DEF Inv, Apart
    <2>2. i \in flight => i \in Mine
      BY <1>2 DEF Mine
    <2>3. paid'[p][i] = 0
      BY <1>1, <1>2, <2>1, <2>2
    <2> QED
      BY <1>1, <2>1, <2>3
  <1> QED
    BY <1>3, <1>4

-----------------------------------------------------------------------------
(* Steps that leave the caches and the match alone keep its workers.       *)
LEMMA SameMatch ==
    ASSUME Inv, UNCHANGED <<saved, published, paid, spoiled, raced, behind, served, cursor,
                            live, halted, flight, answer>>,
           stage \notin {"warm", "pool"}, stage' \in Stages \ {"warm", "pool"},
           UNCHANGED posting \/ Quiet, posting' \in Postings \cup {NoPosting},
           stage' \in {"next", "extract", "match"} => Quiet,
           stage' \in {"extract", "match"} => posting' \in Postings,
           extracted' \subseteq Postings, left' \subseteq Postings, runs' \in Nat,
           fatal' \in BOOLEAN
    PROVE  Inv'
  <1>1. BatchTypeOK'
    BY DEF Inv, BatchTypeOK
  <1>2. Books'
    BY DEF Inv, Books, SavedArePaid, PaidAreKept, CachesSound, PublishedIsAnswered, PaidOnce,
           Excused
  <1>3. Quiet' <=> Quiet
    BY DEF Quiet, Looping
  <1>4. Active' <=> Active
    BY DEF Active, Looping
  <1>5. Quiet => ~Active
    BY IdleStages
  <1>6. AtWork'
    <2>1. CASE UNCHANGED posting
      BY <1>4, <2>1 DEF Inv, AtWork, Mine, Excused
    <2>2. CASE Quiet
      BY <1>4, <1>5, <2>2 DEF AtWork
    <2> QED BY <2>1, <2>2
  <1>7. AtRest'
    BY <1>3 DEF AtRest
  <1>8. Warming' /\ Warmed'
    BY <1>4 DEF Inv, Warming, Warmed
  <1>9. Apart'
    <2>1. Mine' = Mine
      BY DEF Mine
    <2> QED
      BY <1>4, <1>5, <2>1, StaysApart
  <1> QED
    BY <1>1, <1>2, <1>6, <1>7, <1>8, <1>9 DEF Inv

LEMMA BatchSteps ==
    ASSUME Inv, EndBatch \/ StageA \/ MatchCached \/ \E p \in Postings : NextPosting(p)
    PROVE  Inv'
  <1>0. BatchTypeOK /\ AtRest
    BY DEF Inv
  <1>2. CASE EndBatch
    BY <1>0, <1>2, SameMatch DEF EndBatch, BatchTypeOK, AtRest, Stages, caches, match, batchPast
  <1>3. CASE ExtractCached
    BY <1>0, <1>3, SameMatch DEF ExtractCached, BatchTypeOK, AtRest, Stages, caches, match, batchPast
  <1>4. CASE ExtractAsk
    BY <1>0, <1>4, SameMatch DEF ExtractAsk, Fail, BatchTypeOK, AtRest, Stages, match
  <1>5. CASE ExtractThrow
    BY <1>0, <1>5, SameMatch
    DEF ExtractThrow, Thrown, Fail, BatchTypeOK, AtRest, Stages, match, batchPast
  <1>6. CASE MatchCached
    BY <1>0, <1>6, SameMatch DEF MatchCached, BatchTypeOK, AtRest, Stages, caches, match, batchPast
  <1>7. ASSUME NEW p \in Postings, NextPosting(p) PROVE Inv'
    BY <1>0, <1>7, SameMatch DEF NextPosting, BatchTypeOK, AtRest, Stages, caches, batchPast
  <1> QED
    BY <1>2, <1>3, <1>4, <1>5, <1>6, <1>7 DEF StageA

-----------------------------------------------------------------------------
(* Reading the saved answers keeps the books, and starts a match.          *)
LEMMA MatchPartialStep ==
    ASSUME Inv, MatchPartial
    PROVE  Inv'
  <1> DEFINE known == saved[posting]
  <1>1. BatchTypeOK /\ posting \in Postings /\ posting \notin published
    BY DEF Inv, AtRest, MatchPartial
  <1>2. known \in SUBSET Reqs /\ \A i \in known : paid[posting][i] > 0
    BY <1>1 DEF Inv, Books, SavedArePaid, BatchTypeOK
  <1>3. Books'
    BY DEF MatchPartial, Inv, Books, SavedArePaid, PaidAreKept, CachesSound,
           PublishedIsAnswered, PaidOnce, Excused, caches
  <1>6. raced' = raced \cup {<<posting, i>> : i \in StillOut(posting) \ known}
           /\ raced' \subseteq Postings \X Reqs
    <2>1. StillOut(posting) \subseteq Reqs
      BY <1>1 DEF BatchTypeOK, StillOut, Reach, Crew
    <2> QED
      BY <1>1, <2>1 DEF MatchPartial, BatchTypeOK
  <1>7. ASSUME posting' = posting, served' = known, behind' = behind, paid' = paid,
               spoiled' = spoiled
        PROVE  Apart'
    <2> SUFFICES ASSUME NEW r \in 1..MaxRuns, NEW i \in Reach(behind[r])
                 PROVE  /\ behind[r].posting \in Postings
                        /\ \/ Excused(behind[r].posting, i)'
                           \/ /\ paid[behind[r].posting][i] = 0
                              /\ \A q \in 1..MaxRuns \ {r} :
                                    behind[q].posting = behind[r].posting
                                       => i \notin Reach(behind[q])
                              /\ ~(posting = behind[r].posting /\ i \in Mine')
      BY <1>7 DEF Apart, Reach, Excused
    <2> DEFINE p == behind[r].posting
    <2>1. /\ p \in Postings
          /\ \/ Excused(p, i)
             \/ /\ paid[p][i] = 0
                /\ \A q \in 1..MaxRuns \ {r} : behind[q].posting = p => i \notin Reach(behind[q])
      BY DEF Inv, Apart
    <2>2. Excused(p, i) => Excused(p, i)'
      BY <1>6, <1>7 DEF Excused
    <2>3. CASE posting = p /\ i \notin known
      <3>1. i \in StillOut(posting)
        BY <2>3 DEF StillOut
      <3> QED
        <4>1. <<posting, i>> \in raced'
          BY <1>6, <2>3, <3>1
        <4> QED
          BY <1>7, <2>1, <2>3, <4>1 DEF Excused
    <2>4. CASE posting = p /\ i \in known
      <3>1. paid[p][i] > 0
        BY <1>2, <2>4
      <3> QED
        BY <2>1, <2>2, <3>1
    <2>5. CASE posting # p
      BY <2>1, <2>2, <2>5
    <2> QED
      BY <2>3, <2>4, <2>5
  <1>4. CASE known = Reqs
    <2>1. served' = Reqs /\ cursor' = NumReqs + 1 /\ live' = 1 /\ flight' = {} /\ halted' = FALSE
             /\ answer' = [i \in Reqs |-> "ok"] /\ stage' = "pool"
      BY <1>4 DEF MatchPartial
    <2>2. /\ extracted' = extracted /\ saved' = saved /\ published' = published
           /\ left' = left /\ posting' = posting /\ runs' = runs /\ behind' = behind
           /\ paid' = paid /\ spoiled' = spoiled /\ fatal' = fatal
      BY DEF MatchPartial, caches
    <2>3. BatchTypeOK'
      <3>1. cursor' \in 1..NumReqs + 1 /\ live' \in Int /\ stage' \in Stages
               /\ answer' \in [Reqs -> Answers]
        BY <2>1, NumbersAssumption DEF Stages, Answers
      <3>2. halted' \in BOOLEAN
        BY <2>1, Zenon
      <3>3. served' \subseteq Reqs /\ flight' \subseteq Reqs
        BY <2>1
      <3>4. fatal' \in BOOLEAN
        BY <1>1, <2>2, Zenon DEF BatchTypeOK
      <3>5. /\ extracted' \subseteq Postings /\ saved' \in [Postings -> SUBSET Reqs]
            /\ published' \subseteq Postings /\ left' \subseteq Postings /\ runs' \in Nat
            /\ posting' \in Postings \cup {NoPosting} /\ paid' \in [Postings -> [Reqs -> Nat]]
            /\ spoiled' \subseteq Postings \X Reqs /\ raced' \subseteq Postings \X Reqs
            /\ behind' \in [1..MaxRuns -> Crew]
        BY <1>1, <1>6, <2>2 DEF BatchTypeOK
      <3> QED
        BY <3>1, <3>2, <3>3, <3>4, <3>5, Zenon DEF BatchTypeOK
    <2>4. AtWork'
      BY <1>1, <1>2, <1>4, <2>1, <2>2, NumbersAssumption DEF AtWork, Mine, Reqs
    <2>5. AtRest' /\ Warming'
      BY <2>1 DEF AtRest, Warming
    <2>6. Warmed'
      BY <2>1, NumbersAssumption DEF Warmed, Reqs
    <2>7. Apart'
      BY <1>4, <1>7, <2>1, <2>2
    <2> QED
      BY <1>3, <2>3, <2>4, <2>5, <2>6, <2>7 DEF Inv
  <1>5. CASE known # Reqs
    <2> DEFINE warm == Min(Reqs \ known)
    <2>1. warm \in Reqs \ known /\ \A i \in Reqs \ known : warm =< i
      BY <1>2, <1>5, FirstExists
    <2>2. served' = known /\ cursor' = warm + 1 /\ live' = 0 /\ flight' = {warm} /\ halted' = FALSE
             /\ answer' = [i \in Reqs |-> IF i < warm THEN "ok" ELSE "none"] /\ stage' = "warm"
      BY <1>5, <2>1 DEF MatchPartial, WarmIndex
    <2> HIDE DEF warm
    <2>3. /\ extracted' = extracted /\ saved' = saved /\ published' = published
           /\ left' = left /\ posting' = posting /\ runs' = runs /\ behind' = behind
           /\ paid' = paid /\ spoiled' = spoiled /\ fatal' = fatal
      BY DEF MatchPartial, caches
    <2>4. warm \in Int /\ cursor' \in 1..NumReqs + 1 /\ cursor' - 1 = warm
      BY <2>1, <2>2, NumbersAssumption DEF Reqs
    <2>5. \A i \in Reqs : i < warm => i \in known
      BY <2>1, NumbersAssumption DEF Reqs
    <2>6. BatchTypeOK'
      <3>1. answer' \in [Reqs -> Answers]
        BY <2>2 DEF Answers
      <3>2. halted' \in BOOLEAN
        BY <2>2, Zenon
      <3>3. served' \subseteq Reqs /\ flight' \subseteq Reqs
        BY <1>2, <2>1, <2>2
      <3>4. live' \in Int /\ stage' \in Stages
        BY <2>2 DEF Stages
      <3>5. fatal' \in BOOLEAN
        BY <1>1, <2>3, Zenon DEF BatchTypeOK
      <3>6. /\ extracted' \subseteq Postings /\ saved' \in [Postings -> SUBSET Reqs]
            /\ published' \subseteq Postings /\ left' \subseteq Postings /\ runs' \in Nat
            /\ posting' \in Postings \cup {NoPosting} /\ paid' \in [Postings -> [Reqs -> Nat]]
            /\ spoiled' \subseteq Postings \X Reqs /\ raced' \subseteq Postings \X Reqs
            /\ behind' \in [1..MaxRuns -> Crew]
        BY <1>1, <1>6, <2>3 DEF BatchTypeOK
      <3> QED
        BY <2>4, <3>1, <3>2, <3>3, <3>4, <3>5, <3>6, Zenon DEF BatchTypeOK
    <2>7. AtWork'
      <3>1. \A i \in flight' : i < cursor' /\ i \notin served'
        BY <2>1, <2>2, <2>4
      <3>4. \A i \in Mine' : i \notin saved'[posting']
        BY <2>1, <2>2, <2>3 DEF Mine
      <3>2. \A i \in Reqs : answer'[i] = "ok" => paid'[posting'][i] > 0
        BY <1>2, <2>2, <2>3, <2>5
      <3>3. \A i \in Reqs : i >= cursor' \/ i \in flight' => answer'[i] = "none"
        BY <2>2, <2>4, NumbersAssumption DEF Reqs
      <3> QED
        BY <1>1, <1>2, <2>2, <2>3, <3>1, <3>2, <3>3, <3>4 DEF AtWork
    <2>8. AtRest' /\ Warmed'
      BY <2>2 DEF AtRest, Warmed
    <2>9. Warming'
      BY <2>1, <2>2, <2>4 DEF Warming
    <2>10. Apart'
      BY <1>7, <2>2, <2>3
    <2> QED
      BY <1>3, <2>6, <2>7, <2>8, <2>9, <2>10 DEF Inv
  <1> QED
    BY <1>4, <1>5

-----------------------------------------------------------------------------
(* A batch begins: the match of the last one, if it was given up, is now   *)
(* one of those left behind.                                               *)
LEMMA StartStep ==
    ASSUME Inv, StartBatch
    PROVE  Inv'
  <1>1. /\ extracted' = extracted /\ saved' = saved /\ published' = published
        /\ posting' = posting /\ served' = served /\ cursor' = cursor /\ halted' = halted
        /\ answer' = answer /\ paid' = paid /\ spoiled' = spoiled /\ raced' = raced
        /\ fatal' = FALSE /\ stage' = "next" /\ left' = Postings /\ flight' = {} /\ live' = 0
        /\ runs' = runs + 1 /\ runs < MaxRuns /\ LeaveBehind
    BY DEF StartBatch, caches
  <1>2. BatchTypeOK /\ Books /\ runs + 1 \in 1..MaxRuns
    BY <1>1, NumbersAssumption DEF Inv, BatchTypeOK
  <1> DEFINE new == [posting |-> posting, asking |-> flight, live |-> live,
                     ahead |-> IF halted THEN {} ELSE {i \in Reqs \ served : i >= cursor}]
  <1>3. new.posting = posting /\ Reach(new) \subseteq Mine /\ (~Quiet => new \in Crew)
    <2>1. ~Quiet => \A i \in flight : i < cursor
      BY DEF Inv, AtWork, Quiet, Active
    <2>2. cursor \in Int /\ \A i \in Reqs : i \in Int
      BY <1>2 DEF BatchTypeOK, Reqs
    <2> QED
      BY <1>2, <2>1, <2>2 DEF BatchTypeOK, Crew, Reach, Mine
  <1>4. behind' = behind \/ (~Quiet /\ behind' = [behind EXCEPT ![runs + 1] = new])
    BY <1>1 DEF LeaveBehind
  <1> HIDE DEF new
  <1>5. BatchTypeOK'
    <2>1. behind' \in [1..MaxRuns -> Crew]
      BY <1>2, <1>3, <1>4 DEF BatchTypeOK
    <2>2. runs' \in Nat /\ live' \in Int /\ flight' \subseteq Reqs /\ stage' \in Stages
      BY <1>1, <1>2 DEF BatchTypeOK, Stages
    <2>3. fatal' \in BOOLEAN /\ halted' \in BOOLEAN
      BY <1>1, <1>2, Zenon DEF BatchTypeOK
    <2> QED
      BY <1>1, <1>2, <2>1, <2>2, <2>3 DEF BatchTypeOK
  <1>6. Books'
    BY <1>1, <1>2 DEF Books, SavedArePaid, PaidAreKept, CachesSound, PublishedIsAnswered,
           PaidOnce, Excused
  <1>7. AtWork' /\ AtRest' /\ Warming' /\ Warmed' /\ ~Active'
    BY <1>1, MatchEnds, NoWorkers DEF Quiet, Active
  <1>8. Apart'
    <2>1. CASE behind' = behind
      BY <1>1, <1>7, <2>1, StaysApart
    <2>2. CASE ~Quiet /\ behind' = [behind EXCEPT ![runs + 1] = new]
      <3>1. Active
        BY <2>2 DEF Quiet, Active
      <3>2. posting \in Postings /\ \A i \in Mine : i \in Reqs /\
               (paid[posting][i] > 0 => Excused(posting, i))
        BY <3>1, Working DEF Mine
      <3>3. \A r \in 1..MaxRuns : behind'[r] = IF r = runs + 1 THEN new ELSE behind[r]
        BY <1>2, <2>2 DEF BatchTypeOK
      <3>4. \A p, i : Excused(p, i)' = Excused(p, i)
        BY <1>1 DEF Excused
      <3>5. ASSUME NEW r \in 1..MaxRuns, NEW i \in Reach(behind'[r]),
                   ~Excused(behind'[r].posting, i)
            PROVE  /\ paid[behind'[r].posting][i] = 0
                   /\ \A q \in 1..MaxRuns \ {r} :
                         behind'[q].posting = behind'[r].posting => i \notin Reach(behind'[q])
        <4>1. CASE r = runs + 1
          <5>1. behind'[r] = new /\ i \in Mine
            BY <1>3, <3>3, <3>5, <4>1
          <5>2. paid[posting][i] = 0
            BY <1>2, <1>3, <3>2, <3>5, <5>1 DEF BatchTypeOK
          <5>3. ASSUME NEW q \in 1..MaxRuns \ {r}, behind'[q].posting = posting,
                       i \in Reach(behind'[q])
                PROVE  FALSE
            <6>1. behind'[q] = behind[q] /\ i \in Reach(behind[q])
              BY <3>3, <4>1, <5>3
            <6> QED
              BY <1>3, <3>1, <3>5, <5>1, <5>3, <6>1 DEF Inv, Apart
          <5> QED
            BY <1>3, <5>1, <5>2, <5>3
        <4>2. CASE r # runs + 1
          <5>1. behind'[r] = behind[r] /\ i \in Reach(behind[r])
            BY <3>3, <3>5, <4>2
          <5>2. /\ paid[behind[r].posting][i] = 0
                /\ \A q \in 1..MaxRuns \ {r} :
                      behind[q].posting = behind[r].posting => i \notin Reach(behind[q])
                /\ ~(posting = behind[r].posting /\ i \in Mine)
            BY <3>1, <3>5, <5>1 DEF Inv, Apart
          <5> QED
            BY <1>3, <3>3, <5>1, <5>2
        <4> QED
          BY <4>1, <4>2
      <3>6. \A r \in 1..MaxRuns : \A i \in Reach(behind'[r]) : behind'[r].posting \in Postings
        BY <1>3, <3>2, <3>3 DEF Inv, Apart
      <3> QED
        BY <1>1, <1>7, <3>4, <3>5, <3>6 DEF Apart, Reach
    <2> QED
      BY <1>4, <2>1, <2>2
  <1> QED
    BY <1>5, <1>6, <1>7, <1>8 DEF Inv

-----------------------------------------------------------------------------
(* The steps that end a match.                                             *)
LEMMA EndingSteps ==
    ASSUME Inv, WarmFail \/ WarmThrow \/ Publish \/ GiveUp \/ PublishThrow \/ Crash
    PROVE  Inv'
  <1>0. BatchTypeOK /\ Books
    BY DEF Inv
  <1>7. ASSUME flight' = {}, live' = 0, stage' \in {"idle", "next", "stopped"},
               UNCHANGED <<behind, paid, spoiled, raced>>
        PROVE  Apart'
    <2>1. ~Active'
      BY <1>7, NoWorkers DEF Quiet, Active
    <2> QED
      BY <1>7, <2>1, StaysApart
  <1>1. CASE WarmFail
    <2>1. flight' = {} /\ live' = 0 /\ stage' \in {"next", "stopped"}
      BY <1>1 DEF WarmFail, Fail, Inv, Warming
    <2>2. BatchTypeOK'
      BY <1>0, <1>1, <2>1 DEF WarmFail, BatchTypeOK, Stages, caches
    <2>3. Books'
      BY <1>0, <1>1 DEF WarmFail, Books, SavedArePaid, PaidAreKept, CachesSound,
             PublishedIsAnswered, PaidOnce, Excused, caches
    <2>9. Apart'
      BY <2>1, <1>7, <1>1 DEF WarmFail
    <2> QED
      BY <2>1, <2>9, <2>2, <2>3, MatchEnds DEF Inv
  <1>2. CASE WarmThrow
    <2>1. flight' = {} /\ live' = 0 /\ stage' \in {"next", "stopped"}
      BY <1>2 DEF WarmThrow, Thrown, Fail, Inv, Warming
    <2>2. PICK i \in flight : Pay(posting, i) /\ spoiled' = spoiled \cup {<<posting, i>>}
      BY <1>2 DEF WarmThrow
    <2>5. Active /\ posting \in Postings /\ i \in Reqs
      BY <1>2, Working DEF WarmThrow, Active
    <2>3. /\ Books' /\ paid' \in [Postings -> [Reqs -> Nat]] /\ spoiled' \subseteq Postings \X Reqs
          /\ \A q \in Postings : \A j \in Reqs :
                paid'[q][j] = IF q = posting /\ j = i THEN paid[q][j] + 1 ELSE paid[q][j]
      BY <1>0, <1>2, <2>2, <2>5, PaidAndSpoiled DEF WarmThrow, caches
    <2>6. Apart'
      <3>1. ~Active'
        BY <2>1, NoWorkers DEF Quiet, Active
      <3> QED
        BY <1>2, <2>2, <2>3, <2>5, <3>1, StaysApart DEF WarmThrow
    <2>4. BatchTypeOK'
      BY <1>0, <1>2, <2>1, <2>3 DEF WarmThrow, BatchTypeOK, Stages, caches
    <2> QED
      BY <2>1, <2>3, <2>4, <2>6, MatchEnds DEF Inv
  <1>3. CASE Publish
    <2>1. flight' = {} /\ live' = 0 /\ stage' = "next"
      BY <1>3 DEF Publish, PoolDone, Quiet
    <2>2. posting \in Postings /\ \A i \in Reqs : paid[posting][i] > 0
      BY <1>3 DEF Publish, PoolDone, Complete, Inv, AtWork, Active
    <2>3. BatchTypeOK'
      BY <1>0, <1>3, <2>1, <2>2 DEF Publish, BatchTypeOK, Stages, batchPast
    <2>4. \A p \in Postings : saved'[p] = IF p = posting THEN {} ELSE saved[p]
      BY <1>0, <1>3 DEF Publish, BatchTypeOK
    <2>5. Books'
      BY <1>0, <1>3, <2>2, <2>4 DEF Publish, Books, SavedArePaid, PaidAreKept, CachesSound,
             PublishedIsAnswered, PaidOnce, Excused, batchPast
    <2>9. Apart'
      BY <2>1, <1>7, <1>3 DEF Publish, batchPast
    <2> QED
      BY <2>1, <2>9, <2>3, <2>5, MatchEnds DEF Inv
  <1>4. CASE GiveUp
    <2>1. flight' = {} /\ live' = 0 /\ stage' \in {"next", "stopped"}
      BY <1>4 DEF GiveUp, Fail, PoolDone, Quiet
    <2>2. BatchTypeOK'
      BY <1>0, <1>4, <2>1 DEF GiveUp, BatchTypeOK, Stages, caches, batchPast
    <2>3. Books'
      BY <1>0, <1>4 DEF GiveUp, Books, SavedArePaid, PaidAreKept, CachesSound,
             PublishedIsAnswered, PaidOnce, Excused, caches, batchPast
    <2>9. Apart'
      BY <2>1, <1>7, <1>4 DEF GiveUp, batchPast
    <2> QED
      BY <2>1, <2>9, <2>2, <2>3, MatchEnds DEF Inv
  <1>5. CASE PublishThrow
    <2>1. flight' = {} /\ live' = 0 /\ stage' = "stopped"
      BY <1>5 DEF PublishThrow, Thrown, Fail, PoolDone, Quiet
    <2>2. posting \in Postings /\ \A i \in Reqs : paid[posting][i] > 0
      BY <1>5 DEF PublishThrow, PoolDone, Complete, Inv, AtWork, Active
    <2>3. BatchTypeOK'
      BY <1>0, <1>5, <2>1, <2>2 DEF PublishThrow, BatchTypeOK, Stages, batchPast
    <2>4. Books'
      BY <1>0, <1>5, <2>2 DEF PublishThrow, Books, SavedArePaid, PaidAreKept, CachesSound,
             PublishedIsAnswered, PaidOnce, Excused, batchPast
    <2>9. Apart'
      BY <2>1, <1>7, <1>5 DEF PublishThrow, batchPast
    <2> QED
      BY <2>1, <2>9, <2>3, <2>4, MatchEnds DEF Inv
  <1>6. CASE Crash
    <2>0. behind' \in [1..MaxRuns -> Crew]
      <3>1. NoCrew \in Crew
        BY DEF NoCrew, Crew
      <3> QED
        BY <1>0, <1>6, <3>1 DEF Crash, BatchTypeOK
    <2>1. BatchTypeOK'
      BY <1>0, <1>6, <2>0 DEF Crash, BatchTypeOK, Stages, caches, batchPast
    <2>2. Books'
      BY <1>0, <1>6 DEF Crash, Books, SavedArePaid, PaidAreKept, CachesSound,
             PublishedIsAnswered, PaidOnce, Excused, caches, batchPast
    <2>3. Apart'
      <3>1. CASE behind' = behind
        BY <1>6, <1>7, <3>1 DEF Crash, batchPast
      <3>2. CASE behind' = [r \in 1..MaxRuns |-> NoCrew]
        BY <3>2 DEF Apart, Reach, NoCrew
      <3> QED
        BY <1>6, <3>1, <3>2 DEF Crash
    <2> QED
      BY <1>6, <2>1, <2>2, <2>3, MatchEnds DEF Crash, Inv
  <1> QED
    BY <1>1, <1>2, <1>3, <1>4, <1>5, <1>6

-----------------------------------------------------------------------------
(* The warming answer starts the workers.                                  *)
LEMMA WarmOkStep ==
    ASSUME Inv, WarmOk
    PROVE  Inv'
  <1> DEFINE i == cursor - 1
  <1>1. stage = "warm" /\ Active /\ flight = {i} /\ i \in Reqs /\ BatchTypeOK
    BY DEF WarmOk, Inv, Warming, Active
  <1>2. posting \in Postings /\ posting \notin published
    BY <1>1, Working
  <1> HIDE DEF i
  <1>3. Pay(posting, i)
    <2>1. paid' = [paid EXCEPT ![posting] =
                     [j \in Reqs |-> IF j \in {i} THEN @[j] + 1 ELSE @[j]]]
      BY <1>1 DEF WarmOk
    <2>2. paid[posting] \in [Reqs -> Nat]
      BY <1>1, <1>2 DEF BatchTypeOK
    <2>3. [j \in Reqs |-> IF j \in {i} THEN paid[posting][j] + 1 ELSE paid[posting][j]]
             = [paid[posting] EXCEPT ![i] = @ + 1]
      BY <2>2
    <2> QED
      BY <2>1, <2>3 DEF Pay
  <1>4. Save(posting, {i}) /\ UNCHANGED <<published, spoiled, raced>>
    BY <1>1 DEF WarmOk
  <1>5. /\ Books'
        /\ saved' \in [Postings -> SUBSET Reqs] /\ paid' \in [Postings -> [Reqs -> Nat]]
        /\ \A q \in Postings : \A j \in Reqs :
              paid'[q][j] = IF q = posting /\ j = i THEN paid[q][j] + 1 ELSE paid[q][j]
        /\ saved'[posting] = saved[posting] \cup {i}
    <2>1. paid[posting][i] > 0 => Excused(posting, i)
      BY <1>1, Working
    <2> QED
      <3>1. BatchTypeOK /\ Books
        BY DEF Inv
      <3>2. /\ Books'
            /\ saved' \in [Postings -> SUBSET Reqs] /\ paid' \in [Postings -> [Reqs -> Nat]]
            /\ \A q \in Postings : \A j \in Reqs :
                  paid'[q][j] = IF q = posting /\ j = i THEN paid[q][j] + 1 ELSE paid[q][j]
            /\ \A q \in Postings : saved'[q] = IF q = posting THEN saved[q] \cup {i} ELSE saved[q]
        BY <1>1, <1>2, <1>3, <1>4, <2>1, <3>1, PaidAndSaved, Zenon
      <3> QED
        BY <1>2, <3>2
  <1>6. /\ extracted' = extracted /\ published' = published /\ left' = left
        /\ posting' = posting /\ served' = served /\ cursor' = cursor /\ halted' = halted
        /\ runs' = runs /\ spoiled' = spoiled /\ raced' = raced /\ fatal' = fatal
        /\ behind' = behind
        /\ flight' = {} /\ stage' = "pool" /\ answer' = [answer EXCEPT ![i] = "ok"]
    BY DEF WarmOk, i
  <1>7. live' \in Int
    <2>0. cursor \in Int
      BY <1>1, NumbersAssumption DEF BatchTypeOK
    <2>1. Max({1, NumReqs - (cursor - 1)}) \in Int
      BY <2>0, NumbersAssumption DEF Max
    <2> QED
      BY <2>1, NumbersAssumption DEF WarmOk, StartWorkers
  <1>8. BatchTypeOK'
    <2>1. answer' \in [Reqs -> Answers]
      BY <1>1, <1>6 DEF BatchTypeOK, Answers
    <2> QED
      BY <1>1, <1>5, <1>6, <1>7, <2>1 DEF BatchTypeOK, Stages
  <1>9. AtWork'
    <2>1. /\ \A j \in Mine : j \notin saved[posting] \/ Excused(posting, j)
          /\ \A j \in served : paid[posting][j] > 0
          /\ \A j \in Reqs : answer[j] = "ok" => paid[posting][j] > 0
          /\ \A j \in Reqs : j >= cursor => answer[j] = "none"
          /\ \A j \in Reqs : answer[j] \in {"failed", "fatal"} => halted
          /\ i < cursor /\ i \notin served
      BY <1>1 DEF Inv, AtWork
    <2>0. \A j \in Reqs : paid[posting][j] \in Nat
      <3>1. paid \in [Postings -> [Reqs -> Nat]]
        BY <1>1, Zenon DEF BatchTypeOK
      <3> QED
        BY <1>2, <3>1
    <2>2. \A j \in Reqs : paid[posting][j] > 0 => paid'[posting][j] > 0
      BY <1>2, <1>5, <2>0
    <2>9. paid'[posting][i] > 0
      BY <1>1, <1>2, <1>5, <2>0
    <2>3. \A j \in Reqs : answer'[j] = IF j = i THEN "ok" ELSE answer[j]
      BY <1>1, <1>6 DEF BatchTypeOK
    <2>4. \A j \in Mine' : j \notin saved'[posting'] \/ Excused(posting, j)'
      <3>1. cursor \in Int /\ \A j \in Reqs : j \in Int
        BY <1>1, NumbersAssumption DEF BatchTypeOK, Reqs
      <3>2. \A j \in Mine' : j \in Mine /\ j # i
        BY <1>1, <1>6, <2>1, <3>1 DEF Mine
      <3> QED
        BY <1>5, <1>6, <2>1, <3>2 DEF Excused
    <2>5. \A j \in served : paid'[posting][j] > 0
      BY <1>1, <2>1, <2>2 DEF BatchTypeOK
    <2>6. \A j \in Reqs : answer'[j] = "ok" => paid'[posting][j] > 0
      BY <2>1, <2>2, <2>3, <2>9
    <2>7. \A j \in Reqs : j >= cursor => answer'[j] = "none"
      BY <1>1, <2>1, <2>3 DEF BatchTypeOK, Reqs
    <2>8. \A j \in Reqs : answer'[j] \in {"failed", "fatal"} => halted
      BY <2>1, <2>3
    <2> QED
      BY <1>2, <1>6, <2>4, <2>5, <2>6, <2>7, <2>8 DEF AtWork
  <1>10. AtRest' /\ Warming'
    BY <1>6 DEF AtRest, Warming
  <1>11. Warmed'
    <2>1. i \notin served
      BY <1>1 DEF Inv, AtWork
    <2>2. answer'[i] = "ok"
      BY <1>1, <1>6 DEF BatchTypeOK
    <2> QED
      BY <1>1, <1>6, <2>1, <2>2 DEF Warmed
  <1>12. Apart'
    <2>1. Mine' \subseteq Mine
      BY <1>6 DEF Mine
    <2> QED
      BY <1>1, <1>2, <1>5, <1>6, <2>1, StaysApart
  <1> QED
    BY <1>5, <1>8, <1>9, <1>10, <1>11, <1>12 DEF Inv

(* A worker takes the next requirement.                                    *)
LEMMA TakeStep ==
    ASSUME Inv, Take
    PROVE  Inv'
  <1>1. /\ stage # "warm" /\ Active /\ ~halted /\ cursor \in Reqs /\ cursor' = cursor + 1
        /\ extracted' = extracted /\ saved' = saved /\ published' = published
        /\ stage' = stage /\ left' = left /\ posting' = posting /\ served' = served
        /\ live' = live /\ halted' = halted /\ behind' = behind /\ runs' = runs
        /\ paid' = paid /\ spoiled' = spoiled /\ raced' = raced /\ fatal' = fatal
    BY DEF Take, Active, Looping, caches, batchPast
  <1>2. BatchTypeOK /\ cursor \in Int /\ cursor' \in 1..NumReqs + 1
    BY <1>1, NumbersAssumption DEF Inv, Reqs
  <1>3. Books'
    BY <1>1 DEF Inv, Books, SavedArePaid, PaidAreKept, CachesSound, PublishedIsAnswered, PaidOnce,
           Excused
  <1>4. /\ posting \in Postings \ published
        /\ \A i \in flight : i < cursor /\ i \notin served
        /\ \A i \in Mine : i \notin saved[posting] \/ Excused(posting, i)
        /\ \A i \in served : paid[posting][i] > 0
        /\ \A i \in Reqs : answer[i] = "ok" => paid[posting][i] > 0
        /\ \A i \in Reqs : i >= cursor \/ i \in flight => answer[i] = "none"
        /\ \A i \in Reqs : answer[i] \in {"failed", "fatal"} => halted
    BY <1>1 DEF Inv, AtWork
  <1>5. AtRest' /\ Warming'
    <2>1. stage \notin {"next", "extract", "match"}
      BY <1>1 DEF Inv, AtRest, Quiet, Active
    <2> QED
      BY <1>1, <2>1 DEF AtRest, Warming
  <1>6. PICK w \in Reqs \ served : answer[w] = "ok"
    BY <1>1 DEF Inv, Warmed
  <1>7. \A i \in Reqs : i \in Int
    BY DEF Reqs
  <1>10. Mine' \subseteq Mine
    <2>1. \A i \in Reqs : i >= cursor + 1 => i >= cursor /\ i # cursor
      BY <1>2, <1>7
    <2>2. flight' \subseteq flight \cup {cursor} /\ (cursor \in served => flight' = flight)
      BY DEF Take
    <2>3. cursor >= cursor
      BY <1>2
    <2> QED
      BY <1>1, <2>1, <2>2, <2>3 DEF Mine
  <1>11. Apart'
    BY <1>1, <1>10, StaysApart
  <1>8. CASE cursor \in served
    <2>1. flight' = flight /\ answer' = [answer EXCEPT ![cursor] = "ok"]
      BY <1>8 DEF Take
    <2>2. answer' \in [Reqs -> Answers]
             /\ \A i \in Reqs : answer'[i] = IF i = cursor THEN "ok" ELSE answer[i]
      BY <1>1, <1>2, <2>1 DEF BatchTypeOK, Answers
    <2>3. BatchTypeOK'
      BY <1>1, <1>2, <2>1, <2>2 DEF BatchTypeOK
    <2>4. AtWork'
      <3>1. flight \subseteq Reqs /\ saved[posting] \subseteq Reqs /\ served \subseteq Reqs
        BY <1>2, <1>4 DEF BatchTypeOK
      <3>2. \A i \in flight' : i < cursor' /\ i \notin served'
        BY <1>1, <1>2, <1>4, <1>7, <2>1, <3>1
      <3>3. \A i \in Mine' : i \notin saved'[posting'] \/ Excused(posting, i)'
        BY <1>1, <1>4, <1>10, <2>1 DEF Excused
      <3>4. \A i \in Reqs : answer'[i] = "ok" => paid'[posting'][i] > 0
        BY <1>1, <1>4, <1>8, <2>2
      <3>5. \A i \in Reqs : i >= cursor' \/ i \in flight' => answer'[i] = "none"
        BY <1>1, <1>2, <1>4, <1>7, <1>8, <2>1, <2>2
      <3>6. \A i \in Reqs : answer'[i] \in {"failed", "fatal"} => halted'
        BY <1>1, <1>4, <2>2
      <3> QED
        BY <1>1, <1>4, <3>2, <3>3, <3>4, <3>5, <3>6 DEF AtWork
    <2>5. Warmed'
      BY <1>1, <1>6, <1>8, <2>2 DEF Warmed
    <2> QED
      BY <1>3, <1>5, <1>11, <2>3, <2>4, <2>5 DEF Inv
  <1>9. CASE cursor \notin served
    <2>1. flight' = flight \cup {cursor} /\ answer' = answer
      BY <1>9 DEF Take
    <2>2. BatchTypeOK'
      BY <1>1, <1>2, <2>1 DEF BatchTypeOK
    <2>3. AtWork'
      <3>1. flight \subseteq Reqs /\ saved[posting] \subseteq Reqs /\ served \subseteq Reqs
        BY <1>2, <1>4 DEF BatchTypeOK
      <3>2. \A i \in flight' : i < cursor' /\ i \notin served'
        BY <1>1, <1>2, <1>4, <1>7, <1>9, <2>1, <3>1
      <3>3. \A i \in Mine' : i \notin saved'[posting'] \/ Excused(posting, i)'
        BY <1>1, <1>4, <1>10, <2>1 DEF Excused
      <3>4. \A i \in Reqs : i >= cursor' \/ i \in flight' => answer'[i] = "none"
        BY <1>1, <1>2, <1>4, <1>7, <2>1
      <3> QED
        BY <1>1, <1>4, <2>1, <3>2, <3>3, <3>4 DEF AtWork
    <2>4. Warmed'
      BY <1>1, <1>6, <2>1 DEF Warmed
    <2> QED
      BY <1>3, <1>5, <1>11, <2>2, <2>3, <2>4 DEF Inv
  <1> QED
    BY <1>8, <1>9

(* A worker's answer.                                                      *)
LEMMA PoolSteps ==
    ASSUME Inv, NEW i \in Reqs, PoolOk(i) \/ PoolFail(i) \/ PoolThrow(i)
    PROVE  Inv'
  <1>1. /\ stage # "warm" /\ Active /\ i \in flight /\ flight' = flight \ {i}
        /\ extracted' = extracted /\ published' = published /\ left' = left
        /\ posting' = posting /\ served' = served /\ cursor' = cursor /\ runs' = runs
        /\ behind' = behind /\ raced' = raced
    BY DEF PoolOk, PoolFail, PoolThrow, Active, caches
  <1>2. BatchTypeOK /\ flight' \subseteq Reqs /\ \A j \in Reqs : j \in Int
    BY <1>1 DEF Inv, BatchTypeOK, Reqs
  <1>3. /\ posting \in Postings \ published
        /\ \A j \in flight : j < cursor /\ j \notin served
        /\ \A j \in Mine : j \notin saved[posting] \/ Excused(posting, j)
        /\ \A j \in served : paid[posting][j] > 0
        /\ \A j \in Reqs : answer[j] = "ok" => paid[posting][j] > 0
        /\ \A j \in Reqs : j >= cursor \/ j \in flight => answer[j] = "none"
        /\ \A j \in Reqs : answer[j] \in {"failed", "fatal"} => halted
    BY <1>1 DEF Inv, AtWork
  <1>4. stage \notin {"next", "extract", "match"}
    BY <1>1 DEF Inv, AtRest, Quiet, Active
  <1>5. PICK w \in Reqs \ served : answer[w] = "ok"
    BY <1>1 DEF Inv, Warmed
  <1>6. w # i /\ served \subseteq Reqs /\ saved[posting] \subseteq Reqs
    BY <1>1, <1>2, <1>3, <1>5 DEF BatchTypeOK
  <1>10. Mine' \subseteq Mine /\ (Active' => Active /\ posting' = posting)
    BY <1>1 DEF Mine
  <1>7. CASE PoolOk(i)
    <2>1. /\ Save(posting, {i}) /\ Pay(posting, i) /\ answer' = [answer EXCEPT ![i] = "ok"] /\ stage' = stage
          /\ live' = live /\ halted' = halted /\ spoiled' = spoiled /\ fatal' = fatal
      BY <1>7 DEF PoolOk
    <2>2. /\ Books'
          /\ saved' \in [Postings -> SUBSET Reqs] /\ paid' \in [Postings -> [Reqs -> Nat]]
          /\ \A q \in Postings : \A j \in Reqs :
                paid'[q][j] = IF q = posting /\ j = i THEN paid[q][j] + 1 ELSE paid[q][j]
          /\ saved'[posting] = saved[posting] \cup {i}
      <3>1. paid[posting][i] > 0 => Excused(posting, i)
        BY <1>1, Working
      <3>2. BatchTypeOK /\ Books /\ posting \in Postings
        BY <1>3 DEF Inv
      <3>3. Pay(posting, i) /\ Save(posting, {i}) /\ UNCHANGED <<published, spoiled, raced>>
        BY <1>1, <2>1
      <3>5. i \in Reqs
        OBVIOUS
      <3>4. /\ Books'
            /\ saved' \in [Postings -> SUBSET Reqs] /\ paid' \in [Postings -> [Reqs -> Nat]]
            /\ \A q \in Postings : \A j \in Reqs :
                  paid'[q][j] = IF q = posting /\ j = i THEN paid[q][j] + 1 ELSE paid[q][j]
            /\ \A q \in Postings : saved'[q] = IF q = posting THEN saved[q] \cup {i} ELSE saved[q]
        BY <3>1, <3>2, <3>3, <3>5, PaidAndSaved, ZenonT(60)
      <3> QED
        BY <3>2, <3>4, Zenon
    <2>11. \A j \in Reqs : paid[posting][j] \in Nat
      <3>1. paid \in [Postings -> [Reqs -> Nat]]
        BY <1>2, Zenon DEF BatchTypeOK
      <3> QED
        BY <1>3, <3>1
    <2>9. paid'[posting][i] > 0
      BY <1>3, <2>2, <2>11
    <2>10. Apart'
      BY <1>1, <1>3, <1>10, <2>1, <2>2, StaysApart
    <2>3. answer' \in [Reqs -> Answers]
             /\ \A j \in Reqs : answer'[j] = IF j = i THEN "ok" ELSE answer[j]
      BY <1>2, <2>1 DEF BatchTypeOK, Answers
    <2>4. BatchTypeOK'
      BY <1>1, <1>2, <2>1, <2>2, <2>3 DEF BatchTypeOK
    <2>0. \A j \in Reqs : paid[posting][j] \in Nat
      <3>1. paid \in [Postings -> [Reqs -> Nat]]
        BY <1>2, Zenon DEF BatchTypeOK
      <3> QED
        BY <1>3, <3>1
    <2>5. \A j \in Reqs : paid[posting][j] > 0 => paid'[posting][j] > 0
      BY <1>3, <2>0, <2>2
    <2>6. AtWork'
      <3>1. \A j \in flight' : j < cursor /\ j \notin served
        BY <1>1, <1>3, <2>2
      <3>2. \A j \in Mine' : j \notin saved'[posting] \/ Excused(posting, j)'
        <4>1. \A j \in Mine' : j # i
          <5>1. cursor \in Int /\ i < cursor /\ i \notin flight'
            BY <1>1, <1>2, <1>3, NumbersAssumption DEF BatchTypeOK
          <5> QED
            BY <1>1, <1>2, <5>1 DEF Mine
        <4> QED
          BY <1>1, <1>3, <1>10, <2>1, <2>2, <4>1 DEF Excused
      <3>3. \A j \in served : paid'[posting][j] > 0
        BY <1>3, <1>6, <2>5
      <3>4. \A j \in Reqs : answer'[j] = "ok" => paid'[posting][j] > 0
        BY <1>3, <2>3, <2>5, <2>9
      <3>5. \A j \in Reqs : j >= cursor \/ j \in flight' => answer'[j] = "none"
        BY <1>1, <1>2, <1>3, <2>3 DEF BatchTypeOK
      <3>6. \A j \in Reqs : answer'[j] \in {"failed", "fatal"} => halted
        BY <1>3, <2>3
      <3> QED
        BY <1>1, <1>3, <2>1, <3>1, <3>2, <3>3, <3>4, <3>5, <3>6 DEF AtWork
    <2>7. AtRest' /\ Warming'
      BY <1>1, <1>4, <2>1 DEF AtRest, Warming
    <2>8. Warmed'
      BY <1>1, <1>5, <2>3 DEF Warmed
    <2> QED
      BY <2>2, <2>4, <2>6, <2>7, <2>8, <2>10 DEF Inv
  <1>8. CASE PoolFail(i)
    <2>1. /\ saved' = saved /\ paid' = paid /\ spoiled' = spoiled /\ stage' = stage
          /\ live' = live /\ halted' = TRUE
          /\ fatal' \in BOOLEAN
      BY <1>2, <1>8 DEF PoolFail, Halt, caches, BatchTypeOK
    <2>2. PICK a \in {"failed", "fatal"} : answer' = [answer EXCEPT ![i] = a]
      BY <1>8 DEF PoolFail
    <2>3. answer' \in [Reqs -> Answers]
             /\ \A j \in Reqs : answer'[j] = IF j = i THEN a ELSE answer[j]
      BY <1>2, <2>2 DEF BatchTypeOK, Answers
    <2>4. BatchTypeOK'
      BY <1>1, <1>2, <2>1, <2>3 DEF BatchTypeOK
    <2>5. Books'
      BY <1>1, <2>1 DEF Inv, Books, SavedArePaid, PaidAreKept, CachesSound,
             PublishedIsAnswered, PaidOnce, Excused
    <2>10. Apart'
      BY <1>1, <1>10, <2>1, StaysApart
    <2>9. \A j \in Mine' : j \notin saved'[posting] \/ Excused(posting, j)'
      BY <1>1, <1>3, <1>10, <2>1 DEF Excused
    <2>6. AtWork'
      <3>1. \A j \in flight' : j < cursor /\ j \notin served
        BY <1>1, <1>3
      <3>2. \A j \in Reqs : answer'[j] = "ok" => paid[posting][j] > 0
        BY <1>3, <2>3
      <3>3. \A j \in Reqs : j >= cursor \/ j \in flight' => answer'[j] = "none"
        BY <1>1, <1>2, <1>3, <2>3 DEF BatchTypeOK
      <3> QED
        BY <1>1, <1>3, <2>1, <2>9, <3>1, <3>2, <3>3 DEF AtWork
    <2>7. AtRest' /\ Warming'
      BY <1>1, <1>4, <2>1 DEF AtRest, Warming
    <2>8. Warmed'
      BY <1>1, <1>5, <1>6, <2>3 DEF Warmed
    <2> QED
      BY <2>4, <2>5, <2>6, <2>7, <2>8, <2>10 DEF Inv
  <1>9. CASE PoolThrow(i)
    <2>1. /\ Pay(posting, i) /\ spoiled' = spoiled \cup {<<posting, i>>} /\ live' = live - 1
          /\ saved' = saved /\ halted' = halted /\ answer' = answer /\ fatal' = fatal
          /\ stage' \in {stage, "stopped", "next"} /\ stage' # "warm" /\ stage' # "next"
      BY <1>1, <1>4, <1>9 DEF PoolThrow, Thrown, Fail, caches
    <2>2. /\ Books' /\ paid' \in [Postings -> [Reqs -> Nat]]
          /\ spoiled' \subseteq Postings \X Reqs
          /\ \A q \in Postings : \A j \in Reqs :
                paid'[q][j] = IF q = posting /\ j = i THEN paid[q][j] + 1 ELSE paid[q][j]
      BY <1>1, <1>2, <1>3, <2>1, PaidAndSpoiled DEF Inv
    <2>10. Apart'
      BY <1>1, <1>3, <1>10, <2>1, <2>2, StaysApart
    <2>3. stage' \in Stages /\ stage' \notin {"next", "extract", "match", "warm"}
      BY <1>2, <1>4, <2>1 DEF BatchTypeOK, Stages
    <2>4. BatchTypeOK'
      <3>1. live' \in Int
        BY <1>2, <2>1 DEF BatchTypeOK
      <3>2. /\ extracted' \subseteq Postings /\ saved' \in [Postings -> SUBSET Reqs]
            /\ published' \subseteq Postings /\ left' \subseteq Postings
            /\ posting' \in Postings \cup {NoPosting} /\ served' \subseteq Reqs
            /\ cursor' \in 1..NumReqs + 1 /\ halted' \in BOOLEAN /\ answer' \in [Reqs -> Answers]
            /\ behind' \in [1..MaxRuns -> Crew] /\ runs' \in Nat
            /\ raced' \subseteq Postings \X Reqs /\ fatal' \in BOOLEAN
        BY <1>1, <1>2, <2>1, Zenon DEF BatchTypeOK
      <3> QED
        BY <1>2, <2>2, <2>3, <3>1, <3>2, Zenon DEF BatchTypeOK
    <2>0. \A j \in Reqs : paid[posting][j] \in Nat
      <3>1. paid \in [Postings -> [Reqs -> Nat]]
        BY <1>2, Zenon DEF BatchTypeOK
      <3> QED
        BY <1>3, <3>1
    <2>5. \A j \in Reqs : paid[posting][j] > 0 => paid'[posting][j] > 0
      BY <1>3, <2>0, <2>2
    <2>9. \A j \in Mine' : j \notin saved'[posting] \/ Excused(posting, j)'
      BY <1>1, <1>3, <1>10, <2>1 DEF Excused
    <2>6. AtWork'
      <3>1. \A j \in flight' : j < cursor /\ j \notin served
        BY <1>1, <1>3
      <3>2. \A j \in served : paid'[posting][j] > 0
        BY <1>3, <1>6, <2>5
      <3>3. \A j \in Reqs : answer[j] = "ok" => paid'[posting][j] > 0
        BY <1>3, <2>5
      <3>4. \A j \in Reqs : j >= cursor \/ j \in flight' => answer[j] = "none"
        BY <1>1, <1>3
      <3> QED
        BY <1>1, <1>3, <2>1, <2>9, <3>1, <3>2, <3>3, <3>4 DEF AtWork
    <2>7. AtRest' /\ Warming'
      BY <2>3 DEF AtRest, Warming
    <2>8. Warmed'
      BY <1>1, <1>5, <2>1 DEF Warmed
    <2> QED
      BY <2>2, <2>4, <2>6, <2>7, <2>8, <2>10 DEF Inv
  <1> QED
    BY <1>7, <1>8, <1>9

-----------------------------------------------------------------------------
(* Those left behind go on: the match sees no more of it than another      *)
(* saved answer, of a requirement that is excused if the match asks it.    *)
LEMMA StragglerSteps ==
    ASSUME Inv, NEW r \in 1..MaxRuns,
           StragglerTakes(r) \/ \E i \in Reqs : StragglerOk(r, i) \/ StragglerFails(r, i)
                                             \/ StragglerThrows(r, i)
    PROVE  Inv'
  <1> DEFINE b == behind[r]
             p == b.posting
  <1>0. /\ extracted' = extracted /\ published' = published /\ stage' = stage /\ left' = left
        /\ posting' = posting /\ served' = served /\ cursor' = cursor /\ live' = live
        /\ halted' = halted /\ flight' = flight /\ answer' = answer
        /\ runs' = runs /\ raced' = raced /\ fatal' = fatal
    BY DEF StragglerTakes, StragglerOk, StragglerFails, StragglerThrows, caches, match, batchPast
  <1>1. BatchTypeOK /\ Books /\ b \in Crew /\ \A i \in Reach(b) : i \in Reqs /\ p \in Postings
    <2>1. BatchTypeOK /\ Books /\ b \in Crew
      BY DEF Inv, BatchTypeOK
    <2> QED
      BY <2>1 DEF Inv, Apart, Reach, Crew
  <1>2. (Active' <=> Active) /\ (Quiet' <=> Quiet) /\ Mine' = Mine
    BY <1>0 DEF Active, Quiet, Looping, Mine
  (* What the rest of the invariant makes of any of these steps.           *)
  <1>3. ASSUME NEW B \in Crew, behind' = [behind EXCEPT ![r] = B], B.posting = p,
               Reach(B) \subseteq Reach(b), NEW D \in SUBSET (Reach(b) \ Reach(B)),
               Books', saved' \in [Postings -> SUBSET Reqs], paid' \in [Postings -> [Reqs -> Nat]],
               spoiled' \subseteq Postings \X Reqs, spoiled \subseteq spoiled',
               \A q \in Postings : \A j \in Reqs :
                  paid'[q][j] = IF q = p /\ j \in D THEN paid[q][j] + 1 ELSE paid[q][j],
               \A q \in Postings : saved'[q] \subseteq saved[q]
                                   \/ (q = p /\ saved'[q] \subseteq saved[q] \cup D)
        PROVE  Inv'
    <2>1. \A s \in 1..MaxRuns : behind'[s] = IF s = r THEN B ELSE behind[s]
      BY <1>1, <1>3 DEF BatchTypeOK
    <2>2. BatchTypeOK'
      <3>1. behind' \in [1..MaxRuns -> Crew]
        BY <1>1, <1>3 DEF BatchTypeOK
      <3> QED
        BY <1>0, <1>1, <1>3, <3>1 DEF BatchTypeOK
    <2>3. \A q \in Postings : \A j \in Reqs :
             /\ <<q, j>> \in spoiled \cup raced => <<q, j>> \in spoiled' \cup raced'
             /\ paid[q][j] > 0 => paid'[q][j] > 0
      <3>1. paid \in [Postings -> [Reqs -> Nat]]
        BY <1>1, Zenon DEF BatchTypeOK
      <3>2. \A q \in Postings : \A j \in Reqs : paid[q][j] \in Nat
        BY <3>1
      <3> QED
        BY <1>0, <1>3, <3>2
    <2>4. AtWork'
      <3> SUFFICES ASSUME Active PROVE AtWork'
        BY <1>2 DEF AtWork
      <3>1. /\ posting \in Postings \ published
            /\ \A i \in flight : i < cursor /\ i \notin served
            /\ \A i \in Mine : i \notin saved[posting] \/ Excused(posting, i)
            /\ \A i \in served : paid[posting][i] > 0
            /\ \A i \in Reqs : answer[i] = "ok" => paid[posting][i] > 0
            /\ \A i \in Reqs : i >= cursor \/ i \in flight => answer[i] = "none"
            /\ \A i \in Reqs : answer[i] \in {"failed", "fatal"} => halted
        BY DEF Inv, AtWork
      <3>2. \A i \in served : paid'[posting][i] > 0
        BY <1>1, <2>3, <3>1 DEF BatchTypeOK
      <3>3. ASSUME NEW i \in Mine, i \in saved'[posting] PROVE Excused(posting, i)'
        <4>1. i \in Reqs
          BY DEF Mine
        <4>2. CASE i \in saved[posting]
          BY <1>0, <2>3, <3>1, <4>1, <4>2 DEF Excused
        <4>3. CASE i \notin saved[posting]
          <5>1. posting = p /\ i \in Reach(b)
            BY <1>3, <3>1, <3>3, <4>3
          <5>2. Excused(posting, i)
            BY <5>1 DEF Inv, Apart
          <5> QED
            BY <1>0, <2>3, <3>1, <4>1, <5>2 DEF Excused
        <4> QED
          BY <4>2, <4>3
      <3>4. \A i \in Reqs : answer[i] = "ok" => paid'[posting][i] > 0
        BY <2>3, <3>1
      <3> QED
        BY <1>0, <1>2, <3>1, <3>2, <3>3, <3>4 DEF AtWork
    <2>5. AtRest' /\ Warming' /\ Warmed'
      BY <1>0, <1>2 DEF Inv, AtRest, Warming, Warmed
    <2>6. Apart'
      <3>1. ASSUME NEW s \in 1..MaxRuns, NEW i \in Reach(behind'[s]),
                   <<behind'[s].posting, i>> \notin spoiled' \cup raced'
            PROVE  /\ paid'[behind'[s].posting][i] = 0
                   /\ \A q \in 1..MaxRuns \ {s} :
                         behind'[q].posting = behind'[s].posting => i \notin Reach(behind'[q])
                   /\ ~(Active' /\ posting' = behind'[s].posting /\ i \in Mine')
        <4>1. i \in Reach(behind[s]) /\ behind'[s].posting = behind[s].posting
          BY <1>3, <2>1, <3>1
        <4>2. i \in Reqs /\ behind[s].posting \in Postings
          BY <1>1, <4>1 DEF Inv, Apart, BatchTypeOK, Reach, Crew
        <4>3. ~Excused(behind[s].posting, i)
          BY <2>3, <3>1, <4>1, <4>2 DEF Excused
        <4>4. /\ paid[behind[s].posting][i] = 0
              /\ \A q \in 1..MaxRuns \ {s} :
                    behind[q].posting = behind[s].posting => i \notin Reach(behind[q])
              /\ ~(Active /\ posting = behind[s].posting /\ i \in Mine)
          BY <4>1, <4>3 DEF Inv, Apart
        <4>5. behind[s].posting = p => i \notin D
          <5>1. CASE s = r
            BY <1>3, <2>1, <3>1, <5>1
          <5>2. CASE s # r
            BY <1>3, <4>4, <5>2
          <5> QED
            BY <5>1, <5>2
        <4>6. paid'[behind[s].posting][i] = 0
          BY <1>3, <4>2, <4>4, <4>5
        <4>7. \A q \in 1..MaxRuns : behind'[q].posting = behind[q].posting
                                   /\ Reach(behind'[q]) \subseteq Reach(behind[q])
          BY <1>3, <2>1
        <4> QED
          BY <1>0, <1>2, <4>1, <4>4, <4>6, <4>7
      <3>2. \A s \in 1..MaxRuns : \A i \in Reach(behind'[s]) : behind'[s].posting \in Postings
        BY <1>3, <2>1 DEF Inv, Apart
      <3> QED
        BY <3>1, <3>2 DEF Apart, Reach, Excused
    <2> QED
      BY <1>3, <2>2, <2>4, <2>5, <2>6 DEF Inv
  (* Steps that pay for nothing.                                           *)
  <1>4. ASSUME NEW B \in Crew, behind' = [behind EXCEPT ![r] = B], B.posting = p,
               Reach(B) \subseteq Reach(b), UNCHANGED <<saved, paid, spoiled>>
        PROVE  Inv'
    <2>1. Books'
      BY <1>0, <1>1, <1>4 DEF Books, SavedArePaid, PaidAreKept, CachesSound,
             PublishedIsAnswered, PaidOnce, Excused
    <2>2. /\ saved' \in [Postings -> SUBSET Reqs] /\ paid' \in [Postings -> [Reqs -> Nat]]
          /\ spoiled' \subseteq Postings \X Reqs
      BY <1>1, <1>4 DEF BatchTypeOK
    <2>3. /\ {} \in SUBSET (Reach(b) \ Reach(B)) /\ spoiled \subseteq spoiled'
          /\ \A q \in Postings : \A j \in Reqs :
                paid'[q][j] = IF q = p /\ j \in {} THEN paid[q][j] + 1 ELSE paid[q][j]
          /\ \A q \in Postings : saved'[q] \subseteq saved[q]
      BY <1>4
    <2> QED
      BY <1>3, <1>4, <2>1, <2>2, <2>3, ZenonT(60)
  <1>5. CASE StragglerTakes(r)
    <2> DEFINE i == Min(b.ahead)
               B == [posting |-> p, asking |-> b.asking \cup {i}, ahead |-> b.ahead \ {i},
                     live |-> b.live]
    <2>1. i \in b.ahead
      BY <1>1, <1>5, FirstExists DEF StragglerTakes, Crew
    <2> HIDE DEF i
    <2>2. B \in Crew /\ B.posting = p /\ Reach(B) \subseteq Reach(b)
      BY <1>1, <2>1 DEF Crew, Reach
    <2>3. behind' = [behind EXCEPT ![r] = B]
      BY <1>1, <1>5 DEF StragglerTakes, CrewNow, i
    <2> QED
      BY <1>4, <1>5, <2>2, <2>3 DEF StragglerTakes, caches, batchPast
  <1>6. ASSUME NEW i \in Reqs, StragglerFails(r, i) PROVE Inv'
    <2> DEFINE B == [posting |-> p, asking |-> b.asking \ {i}, ahead |-> {}, live |-> b.live]
    <2>1. B \in Crew /\ B.posting = p /\ Reach(B) \subseteq Reach(b)
      BY <1>1 DEF Crew, Reach
    <2>2. behind' = [behind EXCEPT ![r] = B]
      BY <1>1, <1>6 DEF StragglerFails, CrewNow
    <2> QED
      BY <1>4, <1>6, <2>1, <2>2 DEF StragglerFails, caches, batchPast
  (* Steps that pay for one requirement.                                   *)
  <1>7. ASSUME NEW i \in b.asking, NEW ahead \in SUBSET b.ahead, NEW n \in Int,
               behind' = [behind EXCEPT ![r] = [posting |-> p, asking |-> b.asking \ {i},
                                                ahead |-> ahead, live |-> n]],
               Books', saved' \in [Postings -> SUBSET Reqs], paid' \in [Postings -> [Reqs -> Nat]],
               spoiled' \subseteq Postings \X Reqs, spoiled \subseteq spoiled',
               \A q \in Postings : \A j \in Reqs :
                  paid'[q][j] = IF q = p /\ j = i THEN paid[q][j] + 1 ELSE paid[q][j],
               \A q \in Postings : saved'[q] \subseteq saved[q]
                                   \/ (q = p /\ saved'[q] \subseteq saved[q] \cup {i})
        PROVE  Inv'
    <2> DEFINE B == [posting |-> p, asking |-> b.asking \ {i}, ahead |-> ahead, live |-> n]
    <2>1. B \in Crew /\ B.posting = p /\ Reach(B) \subseteq Reach(b)
             /\ {i} \in SUBSET (Reach(b) \ Reach(B))
      BY <1>1 DEF Crew, Reach
    <2>2. \A q \in Postings : \A j \in Reqs :
             paid'[q][j] = IF q = p /\ j \in {i} THEN paid[q][j] + 1 ELSE paid[q][j]
      BY <1>7
    <2> QED
      BY <1>3, <1>7, <2>1, <2>2
  <1>8. ASSUME NEW i \in Reqs, StragglerOk(r, i) PROVE Inv'
    <2>1. i \in b.asking /\ i \in Reach(b) /\ p \in Postings /\ b.live \in Int
      BY <1>1, <1>8 DEF StragglerOk, Reach, Crew
    <2>2. paid[p][i] > 0 => Excused(p, i)
      BY <1>1, <2>1 DEF Inv, Apart, BatchTypeOK
    <2>3. /\ Books'
          /\ saved' \in [Postings -> SUBSET Reqs] /\ paid' \in [Postings -> [Reqs -> Nat]]
          /\ \A q \in Postings : \A j \in Reqs :
                paid'[q][j] = IF q = p /\ j = i THEN paid[q][j] + 1 ELSE paid[q][j]
          /\ \A q \in Postings : saved'[q] = IF q = p THEN saved[q] \cup {i} ELSE saved[q]
      <3>1. Pay(p, i) /\ Save(p, {i}) /\ UNCHANGED <<published, spoiled, raced>>
        BY <1>8 DEF StragglerOk
      <3>2. i \in Reqs
        OBVIOUS
      <3> QED
        BY <1>1, <2>1, <2>2, <3>1, <3>2, PaidAndSaved, ZenonT(60)
    <2>4. behind' = [behind EXCEPT ![r] = [posting |-> p, asking |-> b.asking \ {i},
                                           ahead |-> b.ahead, live |-> b.live]]
      BY <1>1, <1>8 DEF StragglerOk, CrewNow
    <2>5. spoiled' = spoiled /\ spoiled \subseteq Postings \X Reqs
      BY <1>1, <1>8 DEF StragglerOk, BatchTypeOK
    <2>6. /\ spoiled \subseteq spoiled' /\ spoiled' \subseteq Postings \X Reqs
          /\ b.ahead \in SUBSET b.ahead
          /\ \A q \in Postings : saved'[q] \subseteq saved[q]
                               \/ (q = p /\ saved'[q] \subseteq saved[q] \cup {i})
      BY <2>3, <2>5
    <2>7. /\ saved' \in [Postings -> SUBSET Reqs] /\ paid' \in [Postings -> [Reqs -> Nat]]
          /\ \A q \in Postings : \A j \in Reqs :
                paid'[q][j] = IF q = p /\ j = i THEN paid[q][j] + 1 ELSE paid[q][j]
      BY <2>3
    <2> QED
      BY <1>7, <2>1, <2>3, <2>4, <2>6, <2>7, ZenonT(60)
  <1>9. ASSUME NEW i \in Reqs, StragglerThrows(r, i) PROVE Inv'
    <2> DEFINE ahead == IF b.live = 1 THEN {} ELSE b.ahead
    <2>1. i \in b.asking /\ i \in Reach(b) /\ p \in Postings /\ b.live - 1 \in Int
             /\ ahead \in SUBSET b.ahead
      BY <1>1, <1>9 DEF StragglerThrows, Reach, Crew
    <2>3. /\ Books' /\ paid' \in [Postings -> [Reqs -> Nat]]
          /\ spoiled' \subseteq Postings \X Reqs
          /\ \A q \in Postings : \A j \in Reqs :
                paid'[q][j] = IF q = p /\ j = i THEN paid[q][j] + 1 ELSE paid[q][j]
      BY <1>1, <1>9, <2>1, PaidAndSpoiled DEF StragglerThrows, caches
    <2>4. behind' = [behind EXCEPT ![r] = [posting |-> p, asking |-> b.asking \ {i},
                                           ahead |-> ahead, live |-> b.live - 1]]
      BY <1>1, <1>9 DEF StragglerThrows, CrewNow
    <2>5. spoiled \subseteq spoiled' /\ saved' = saved /\ saved \in [Postings -> SUBSET Reqs]
      BY <1>1, <1>9 DEF StragglerThrows, caches, BatchTypeOK
    <2> HIDE DEF ahead
    <2> QED
      BY <1>7, <2>1, <2>3, <2>4, <2>5
  <1> QED
    BY <1>5, <1>6, <1>8, <1>9
-----------------------------------------------------------------------------
LEMMA Inductive == Inv /\ [BatchNext]_batchVars => Inv'
  <1> SUFFICES ASSUME Inv, [BatchNext]_batchVars PROVE Inv'
    OBVIOUS
  <1>8. CASE StartBatch
    BY <1>8, StartStep
  <1>9. CASE Stragglers
    BY <1>9, StragglerSteps DEF Stragglers
  <1>1. CASE EndBatch \/ StageA \/ MatchCached \/ \E p \in Postings : NextPosting(p)
    BY <1>1, BatchSteps
  <1>2. CASE MatchPartial
    BY <1>2, MatchPartialStep
  <1>3. CASE WarmFail \/ WarmThrow \/ Publish \/ GiveUp \/ PublishThrow \/ Crash
    BY <1>3, EndingSteps
  <1>4. CASE WarmOk
    BY <1>4, WarmOkStep
  <1>5. CASE Take
    BY <1>5, TakeStep
  <1>6. ASSUME NEW i \in Reqs, PoolOk(i) \/ PoolFail(i) \/ PoolThrow(i) PROVE Inv'
    BY <1>6, PoolSteps
  <1>7. CASE UNCHANGED batchVars
    BY <1>7 DEF batchVars, caches, match, batchPast, Inv, BatchTypeOK, Books, SavedArePaid,
           PaidAreKept, CachesSound, PublishedIsAnswered, PaidOnce, AtWork, Apart, AtRest,
           Warming, Warmed, Active, Quiet, Looping, Mine, Excused
  <1> QED
    BY <1>1, <1>2, <1>3, <1>4, <1>5, <1>6, <1>7, <1>8, <1>9 DEF BatchNext, StageB

(* Every reachable state of the scoring batch has the declared types, for  *)
(* any postings, requirements and concurrency (api-scorer.ts,              *)
(* stage-b-matcher.ts).                                                    *)
THEOREM TypeInvariant == BatchSpec => []BatchTypeOK
  <1>1. Inv => BatchTypeOK
    BY DEF Inv
  <1> QED
    BY <1>1, Initially, Inductive, PTL DEF BatchSpec

(* The two caches of StageBMatcher.match are sound: a complete match is    *)
(* published only when a model answer was received for each of its         *)
(* requirements, and none is paid for twice, through any sequence of       *)
(* failures, throws and crashes, unless its answer could not be saved or   *)
(* it was out to workers left behind when a later match read what is saved.*)
THEOREM CachesAreSound == BatchSpec => []CachesSound
  <1>1. Inv => CachesSound
    BY DEF Inv, Books
  <1> QED
    BY <1>1, Initially, Inductive, PTL DEF BatchSpec

(* The workers of a match keep together (runBounded, the warming call of   *)
(* StageBMatcher.match): requirements are asked together only after one    *)
(* answer of the match came back, and none is asked after a failure.       *)
THEOREM WorkersKeepTogether == BatchSpec => PoolDisciplined
  <1>1. Inv => WarmedFirst
    <2> SUFFICES ASSUME Inv, Cardinality(flight) > 1
                 PROVE  \E i \in Reqs \ served : answer[i] = "ok"
      BY DEF WarmedFirst
    <2>1. flight # {}
      BY FS_EmptySet
    <2>2. stage # "warm"
      <3>1. Cardinality({cursor - 1}) = 1
        BY FS_Singleton
      <3> QED
        BY <3>1 DEF Inv, Warming
    <2> QED
      BY <2>1, <2>2 DEF Inv, Warmed, Active
  <1>2. Inv /\ [BatchNext]_batchVars => NoneAskedAfterFailure
    <2> SUFFICES ASSUME Inv, [BatchNext]_batchVars, stage # "match",
                        NEW i \in Reqs, answer[i] \in {"failed", "fatal"}
                 PROVE  flight' \subseteq flight
      BY DEF NoneAskedAfterFailure
    <2>1. ~Take
      BY DEF Take, Looping, Inv, AtWork, Active
    <2> QED
      BY <2>1 DEF BatchNext, StageA, StageB, Stragglers, StragglerTakes, StragglerOk,
             StragglerFails, StragglerThrows, StartBatch, EndBatch, NextPosting, ExtractCached,
             ExtractAsk, ExtractThrow, MatchCached, MatchPartial, WarmOk, WarmFail, WarmThrow,
             PoolOk, PoolFail, PoolThrow, Publish, GiveUp, PublishThrow, Crash, batchVars,
             caches, match, batchPast
  <1> QED
    BY <1>1, <1>2, Initially, Inductive, PTL DEF BatchSpec, PoolDisciplined
=============================================================================
