-------------------------- MODULE DeliverRunProofs --------------------------
(***************************************************************************)
(* What the scoring claims guarantee, for any number of postings and runs, *)
(* any ceiling of failures, and crashes, stale claims, rescores and        *)
(* discards at any moment.                                                 *)
(***************************************************************************)
EXTENDS DeliverRun, FiniteSetTheorems, TLAPS

Holding  == AtWork \cup {"releasing", "catching"}
Deciding == AtWork \ {"marking"}
Admitted == AtWork \ {"screening", "deferring"}

Typed ==
    /\ claimRun \in [Postings -> Runs \cup {None}]
    /\ notified \subseteq Postings
    /\ discarded \subseteq Postings
    /\ failures \in [Postings -> Nat]
    /\ row \in [Runs -> RowStatus]
    /\ pc \in [Runs -> Stage]
    /\ hand \in [Runs -> SUBSET Postings]
    /\ deferred \in [Runs -> SUBSET Postings]
    /\ passed \in [Runs -> SUBSET Postings]
    /\ queue \in [Runs -> SUBSET Postings]
    /\ current \in [Runs -> Postings \cup {None}]
    /\ outcome \in [Runs -> [Postings -> Outcome]]
    /\ ending \in [Runs -> Ending]
    /\ stale \in [Runs -> BOOLEAN]
    /\ reported \in [Postings -> Nat]
    /\ unmarked \in [Postings -> Nat]
    /\ disturbed \subseteq Postings

(* A run's own lists: nothing is in them before its claim and after its    *)
(* end; what it counts as passed is deferred, waiting, being scored or     *)
(* settled, and all of it is in hand while the run is at work.             *)
ListsOf(r) ==
    /\ pc[r] \notin Working \ {"started"} => hand[r] = {} /\ deferred[r] = {}
    /\ pc[r] \in {"started", "screening"} => deferred[r] = {}
    /\ pc[r] \notin Working \/ pc[r] \in {"started", "screening", "deferring"} =>
          passed[r] = {}
    /\ passed[r] # {} \/ pc[r] \notin {"deferring"} \cup InCatch =>
          deferred[r] \subseteq passed[r]
    /\ pc[r] = "deferring" => deferred[r] \subseteq hand[r]
    /\ pc[r] \in Admitted => hand[r] = passed[r]
    /\ pc[r] \in InCatch => ending[r] = "failed"
    /\ queue[r] \subseteq passed[r] /\ queue[r] \cap deferred[r] = {}
    /\ \A p \in Postings :
          outcome[r][p] # "none" =>
             p \in passed[r] /\ p \notin queue[r] /\ p \notin deferred[r]
    /\ pc[r] = "scoring" =>
          /\ current[r] \in passed[r]
          /\ current[r] \notin queue[r] /\ current[r] \notin deferred[r]
          /\ outcome[r][current[r]] = "none"
Lists == \A r \in Runs : ListsOf(r)

(* Until its exclusion is given up, a posting's claim names the run that   *)
(* has it in hand.                                                         *)
Held ==
    \A r \in Runs : pc[r] \in AtWork =>
        \A p \in hand[r] \ disturbed : claimRun[p] = r

(* A claim on something unnotified is that of a run that has not released  *)
(* yet, or of one that never will; the row of either says "running".       *)
Returned ==
    /\ \A r \in Runs : pc[r] \in Working \cup {"crashed", "abandoned"} => row[r] = "running"
    /\ \A r \in Runs : pc[r] = "idle" => row[r] = "absent"
    /\ \A p \in Postings \ notified : claimRun[p] # None =>
          pc[claimRun[p]] \in Holding \cup {"crashed", "abandoned"}

(* What a run believes of a posting it holds is what the row says, and its *)
(* verdict was not sent before but by runs that failed.                    *)
BelievedOf(r, p) ==
    /\ pc[r] = "scoring" /\ current[r] = p => failures[p] < MaxFailures
    /\ pc[r] \in AtWork /\ outcome[r][p] = "shown" => failures[p] = 0
    /\ pc[r] \in AtWork /\ outcome[r][p] = "exhausted" => failures[p] >= MaxFailures
    /\ pc[r] \in AtWork /\ p \in hand[r] => p \notin notified
    /\ pc[r] \in Deciding /\ p \in hand[r] => reported[p] = unmarked[p]
    /\ pc[r] = "marking" /\ outcome[r][p] = "shown" => reported[p] = unmarked[p] + 1
Believed == \A r \in Runs : \A p \in Postings \ disturbed : BelievedOf(r, p)

(* A verdict whose digest went well stands on a clean failure count, and   *)
(* is or is about to be marked.                                            *)
AboutToMark(p) == \E r \in Runs : pc[r] = "marking" /\ outcome[r][p] = "shown"
SentOf(p) ==
    /\ failures[p] <= MaxFailures
    /\ reported[p] \in {unmarked[p], unmarked[p] + 1}
    /\ reported[p] = unmarked[p] + 1 => failures[p] = 0 /\ (p \in notified \/ AboutToMark(p))
    /\ p \in notified => reported[p] > 0 \/ failures[p] >= MaxFailures
Sent == \A p \in Postings \ disturbed : SentOf(p)

IInv == Typed /\ Lists /\ Held /\ Returned /\ Believed /\ Sent

(* The claims keep runs apart: only one run works on an undisturbed        *)
(* posting.                                                                *)
LEMMA Apart ==
  ASSUME Held, NEW r \in Runs, NEW s \in Runs, NEW p \in hand[r],
         p \in hand[s], pc[r] \in AtWork, pc[s] \in AtWork, p \notin disturbed
  PROVE  r = s
  BY DEF Held

(* One more digest for each of a set of postings.                          *)
LEMMA OneMore ==
  ASSUME NEW count \in [Postings -> Nat], NEW ps
  PROVE  /\ More(count, ps) \in [Postings -> Nat]
         /\ \A p \in Postings :
               More(count, ps)[p] = IF p \in ps THEN count[p] + 1 ELSE count[p]
  BY DEF More

(* A digest that went well carried every verdict shown.                    *)
LEMMA Counted ==
  ASSUME Typed, NEW r \in Runs, NotifyOk(r)
  PROVE  \A q \in Postings :
            reported'[q] = IF outcome[r][q] = "shown" THEN reported[q] + 1 ELSE reported[q]
<1>1. reported' = More(reported, Shown(r)) /\ reported \in [Postings -> Nat]
  BY DEF NotifyOk, Typed
<1>2. \A q \in Postings :
         reported'[q] = IF q \in Shown(r) THEN reported[q] + 1 ELSE reported[q]
  BY <1>1, OneMore
<1> QED
  BY <1>2 DEF Shown

(* A run that fails after it sent some verdicts: each of them is counted   *)
(* on both sides, unless the whole digest had been counted before.         *)
WasMarking(r, p) == pc[r] = "marking" /\ outcome[r][p] = "shown"
LEMMA LeftUnmarked ==
  ASSUME Typed, NEW r \in Runs, LeaveUnmarked(r)
  PROVE  /\ reported' \in [Postings -> Nat]
         /\ unmarked' \in [Postings -> Nat]
         /\ \A p \in Postings :
               IF WasMarking(r, p)
                 THEN reported'[p] = reported[p] /\ unmarked'[p] = unmarked[p] + 1
                 ELSE \E d \in {0, 1} :
                        reported'[p] = reported[p] + d /\ unmarked'[p] = unmarked[p] + d
<1>1. CASE pc[r] = "sending"
  <2>1. PICK arrived \in SUBSET Shown(r) :
           reported' = More(reported, arrived) /\ unmarked' = More(unmarked, arrived)
    BY <1>1 DEF LeaveUnmarked
  <2>2. \A p \in Postings : ~WasMarking(r, p)
    BY <1>1 DEF WasMarking
  <2>3. /\ reported' \in [Postings -> Nat] /\ unmarked' \in [Postings -> Nat]
        /\ \A p \in Postings :
              /\ reported'[p] = IF p \in arrived THEN reported[p] + 1 ELSE reported[p]
              /\ unmarked'[p] = IF p \in arrived THEN unmarked[p] + 1 ELSE unmarked[p]
    <3>1. reported \in [Postings -> Nat] /\ unmarked \in [Postings -> Nat]
      BY DEF Typed
    <3>2. /\ reported' \in [Postings -> Nat]
          /\ \A p \in Postings :
                reported'[p] = IF p \in arrived THEN reported[p] + 1 ELSE reported[p]
      BY <2>1, <3>1, OneMore
    <3>3. /\ unmarked' \in [Postings -> Nat]
          /\ \A p \in Postings :
                unmarked'[p] = IF p \in arrived THEN unmarked[p] + 1 ELSE unmarked[p]
      BY <2>1, <3>1, OneMore
    <3> QED
      BY <3>2, <3>3
  <2>4. ASSUME NEW p \in Postings
        PROVE  \E d \in {0, 1} :
                  reported'[p] = reported[p] + d /\ unmarked'[p] = unmarked[p] + d
    <3>1. CASE p \in arrived
      BY <2>3, <3>1
    <3>2. CASE p \notin arrived
      <4>1. reported[p] + 0 = reported[p] /\ unmarked[p] + 0 = unmarked[p]
        BY DEF Typed
      <4> QED
        BY <2>3, <3>2, <4>1
    <3> QED
      BY <3>1, <3>2
  <2> QED
    BY <2>2, <2>3, <2>4
<1>2. CASE pc[r] = "marking"
  <2>1. unmarked' = More(unmarked, Shown(r)) /\ UNCHANGED reported
    BY <1>2 DEF LeaveUnmarked
  <2>2. reported \in [Postings -> Nat] /\ unmarked \in [Postings -> Nat]
    BY DEF Typed
  <2>3. /\ unmarked' \in [Postings -> Nat]
        /\ \A p \in Postings :
              unmarked'[p] = IF p \in Shown(r) THEN unmarked[p] + 1 ELSE unmarked[p]
    BY <2>1, <2>2, OneMore
  <2>4. \A p \in Postings : p \in Shown(r) <=> WasMarking(r, p)
    BY <1>2 DEF WasMarking, Shown
  <2>5. \A p \in Postings : reported'[p] = reported[p] + 0 /\ unmarked[p] + 0 = unmarked[p]
    BY <2>1, <2>2
  <2> QED
    BY <2>1, <2>2, <2>3, <2>4, <2>5
<1>3. CASE pc[r] \notin {"sending", "marking"}
  BY <1>3 DEF LeaveUnmarked, Typed, WasMarking
<1> QED
  BY <1>1, <1>2, <1>3

(* Such a run believes nothing any more, and what the others believe and   *)
(* what was sent stays true.                                               *)
LEMMA FailedIsSettled ==
  ASSUME IInv, NEW r \in Runs, LeaveUnmarked(r),
         NEW stage \in {"releasing", "catching", "crashed"},
         pc' = [pc EXCEPT ![r] = stage],
         \A s \in Runs : s # r =>
            hand'[s] = hand[s] /\ outcome'[s] = outcome[s] /\ current'[s] = current[s],
         UNCHANGED <<failures, notified, disturbed>>
  PROVE  Believed' /\ Sent'
<1> USE DEF IInv, Typed
<1> SUFFICES ASSUME NEW q \in Postings, q \notin disturbed
             PROVE  (\A s \in Runs : BelievedOf(s, q)') /\ SentOf(q)'
  BY DEF Believed, Sent
<1>1. /\ reported'[q] \in Nat /\ unmarked'[q] \in Nat
      /\ reported[q] \in Nat /\ unmarked[q] \in Nat
  BY LeftUnmarked
<1>2. WasMarking(r, q) => /\ reported'[q] = reported[q] /\ unmarked'[q] = unmarked[q] + 1
                          /\ reported[q] = unmarked[q] + 1
  BY LeftUnmarked DEF WasMarking, Believed, BelievedOf
<1>3. ~WasMarking(r, q) => \E d \in {0, 1} :
         reported'[q] = reported[q] + d /\ unmarked'[q] = unmarked[q] + d
  BY LeftUnmarked
<1>4. WasMarking(r, q) => \A s \in Runs : s # r /\ pc[s] \in AtWork => q \notin hand[s]
  BY Apart DEF WasMarking, Lists, ListsOf, AtWork, Admitted
<1>5. ASSUME NEW s \in Runs PROVE BelievedOf(s, q)'
  <2>1. CASE s = r
    BY <2>1 DEF BelievedOf, AtWork, Deciding
  <2>2. CASE s # r
    <3>1. BelievedOf(s, q) /\ pc'[s] = pc[s]
      BY <2>2 DEF Believed
    <3>2. pc[s] = "marking" /\ outcome[s][q] = "shown" => q \in hand[s]
      BY DEF Lists, ListsOf, AtWork, Admitted
    <3>3. CASE WasMarking(r, q)
      BY <1>4, <2>2, <3>1, <3>2, <3>3 DEF BelievedOf, Deciding, AtWork
    <3>4. CASE ~WasMarking(r, q)
      <4>1. PICK d \in {0, 1} :
               reported'[q] = reported[q] + d /\ unmarked'[q] = unmarked[q] + d
        BY <1>3, <3>4
      <4> QED
        BY <1>1, <2>2, <3>1, <4>1 DEF BelievedOf, Deciding, AtWork
    <3> QED
      BY <3>3, <3>4
  <2> QED
    BY <2>1, <2>2
<1>6. SentOf(q)'
  <2>1. SentOf(q)
    BY DEF Sent
  <2>2. CASE WasMarking(r, q)
    BY <1>1, <1>2, <2>1, <2>2 DEF SentOf
  <2>3. CASE ~WasMarking(r, q)
    <3>1. PICK d \in {0, 1} :
             reported'[q] = reported[q] + d /\ unmarked'[q] = unmarked[q] + d
      BY <1>3, <2>3
    <3>2. AboutToMark(q) => AboutToMark(q)'
      BY <2>3 DEF AboutToMark, WasMarking
    <3> QED
      BY <1>1, <2>1, <3>1, <3>2 DEF SentOf
  <2> QED
    BY <2>2, <2>3
<1> QED
  BY <1>5, <1>6

(* The posting a run is scoring is one it has in hand.                     *)
LEMMA InHand ==
  ASSUME Typed, Lists, NEW r \in Runs, pc[r] = "scoring"
  PROVE  current[r] \in hand[r] /\ current[r] \in Postings
<1>1. current[r] \in passed[r] /\ hand[r] = passed[r]
  BY DEF Lists, ListsOf, Admitted, AtWork
<1> QED
  BY <1>1 DEF Typed

(* The types are kept.                                                     *)
LEMMA TypedKept ==
  ASSUME IInv, [Next]_vars
  PROVE  Typed'
<1> USE NoneAssumption, FailuresAssumption
<1> USE DEF IInv, Typed, Goto, rows, lists, local, past, Working, InTry, InCatch,
    AtWork, Stage, Outcome, RowStatus, Ending, Nothing
<1>1. ASSUME NEW r \in Runs, Start(r) PROVE Typed'
  BY <1>1 DEF Start
<1>2. ASSUME NEW r \in Runs, Claim(r) PROVE Typed'
  BY <1>2 DEF Claim, Eligible, Live, Outlived
<1>3. ASSUME NEW r \in Runs, Cancel(r) PROVE Typed'
  BY <1>3 DEF Cancel
<1>4. ASSUME NEW r \in Runs, ScoreOk(r) PROVE Typed'
  <2>1. current[r] \in Postings
    BY <1>4 DEF ScoreOk, Lists, ListsOf
  <2> QED
    BY <1>4, <2>1 DEF ScoreOk
<1>5. ASSUME NEW r \in Runs, ScoreFail(r) PROVE Typed'
  <2>1. current[r] \in Postings
    BY <1>5 DEF ScoreFail, Lists, ListsOf
  <2>2. failures' \in [Postings -> Nat]
    BY <1>5, <2>1 DEF ScoreFail, OneMoreFailure
  <2>3. pc' \in [Runs -> Stage] /\ ending' \in [Runs -> Ending]
    BY <1>5 DEF ScoreFail
  <2>4. outcome' \in [Runs -> [Postings -> Outcome]]
    BY <1>5, <2>1 DEF ScoreFail
  <2> QED
    BY <1>5, <2>2, <2>3, <2>4 DEF ScoreFail
<1>6. ASSUME NEW r \in Runs, EndBatch(r) PROVE Typed'
  BY <1>6 DEF EndBatch
<1>7. ASSUME NEW r \in Runs, NotifyOk(r) PROVE Typed'
  BY <1>7, OneMore DEF NotifyOk
<1>8. ASSUME NEW r \in Runs, NotifyFailed(r) PROVE Typed'
  BY <1>8, LeftUnmarked DEF NotifyFailed
<1>9. ASSUME NEW r \in Runs, MarkNotified(r) PROVE Typed'
  BY <1>9 DEF MarkNotified, ToMark, Settled
<1>10. ASSUME NEW r \in Runs, Throw(r) PROVE Typed'
  BY <1>10, LeftUnmarked DEF Throw, Lists, ListsOf
<1>11. ASSUME NEW r \in Runs, ReleaseClaims(r) PROVE Typed'
  BY <1>11 DEF ReleaseClaims, DropClaims
<1>12. ASSUME NEW r \in Runs, Finish(r) PROVE Typed'
  BY <1>12 DEF Finish, Closing, Forget
<1>13. ASSUME NEW r \in Runs, Crash(r) PROVE Typed'
  BY <1>13, LeftUnmarked DEF Crash, Forget
<1>14. ASSUME NEW r \in Runs, GoStale(r) PROVE Typed'
  BY <1>14 DEF GoStale
<1>15. ASSUME NEW r \in Runs, NEW p \in Postings, GiveUp(r, p) PROVE Typed'
  BY <1>15 DEF GiveUp
<1>16. ASSUME NEW r \in Runs, NEW p \in Postings, BeginScore(r, p) PROVE Typed'
  BY <1>16 DEF BeginScore, Retriable
<1>17. ASSUME NEW p \in Postings, Rescore(p) PROVE Typed'
  BY <1>17 DEF Rescore, Live
<1>18. ASSUME NEW p \in Postings, Discard(p) PROVE Typed'
  BY <1>18 DEF Discard
<1>20. ASSUME NEW r \in Runs, Screen(r) PROVE Typed'
  BY <1>20 DEF Screen
<1>21. ASSUME NEW r \in Runs, Admit(r) PROVE Typed'
  BY <1>21 DEF Admit
<1>22. ASSUME NEW r \in Runs, ThrowInCatch(r) PROVE Typed'
  BY <1>22 DEF ThrowInCatch, Forget
<1>19. CASE UNCHANGED vars
  BY <1>19 DEF vars
<1> QED
  BY <1>1, <1>2, <1>3, <1>4, <1>5, <1>6, <1>7, <1>8, <1>9, <1>10, <1>11,
      <1>12, <1>13, <1>14, <1>15, <1>16, <1>17, <1>18, <1>19, <1>20, <1>21, <1>22
  DEF Next, Step

(* The lists of a run that takes no step stay as they are.                 *)
LEMMA OwnLists ==
  ASSUME NEW s \in Runs, ListsOf(s),
         pc'[s] = pc[s], hand'[s] = hand[s], deferred'[s] = deferred[s],
         passed'[s] = passed[s], queue'[s] = queue[s], current'[s] = current[s],
         outcome'[s] = outcome[s], ending'[s] = ending[s]
  PROVE  ListsOf(s)'
  BY DEF ListsOf

(* What a run that threw has in its lists is what it had.                  *)
LEMMA ThrowLists ==
  ASSUME IInv, NEW r \in Runs, Throw(r)
  PROVE  Lists'
<1>0. /\ ListsOf(r) /\ Typed
      /\ hand \in [Runs -> SUBSET Postings] /\ pc \in [Runs -> Stage]
      /\ current \in [Runs -> Postings \cup {None}] /\ ending \in [Runs -> Ending]
      /\ outcome \in [Runs -> [Postings -> Outcome]]
  BY DEF IInv, Lists, Typed
<1>1. /\ pc[r] \in InTry /\ pc' = [pc EXCEPT ![r] = "catching"]
      /\ hand' = [hand EXCEPT ![r] = {}]
      /\ current' = [current EXCEPT ![r] = None]
      /\ ending' = [ending EXCEPT ![r] = "failed"]
      /\ UNCHANGED <<deferred, passed, queue>>
  BY DEF Throw, Goto
<1>2. /\ \A s \in Runs : s # r => outcome'[s] = outcome[s]
      /\ \A p \in Postings : outcome'[r][p] # "none" =>
            \/ outcome[r][p] # "none"
            \/ pc[r] = "scoring" /\ p = current[r]
  <2>1. CASE UNCHANGED outcome
    BY <2>1
  <2>2. CASE pc[r] = "scoring" /\ outcome' = [outcome EXCEPT ![r][current[r]] = "failed"]
    BY <1>0, <2>2
  <2> QED
    BY <2>1, <2>2 DEF Throw
<1>3. passed[r] # {} => deferred[r] \subseteq passed[r] /\ pc[r] # "deferring"
  BY <1>0, <1>1 DEF ListsOf, InTry, AtWork, InCatch, Working
<1>4. \A p \in Postings : outcome'[r][p] # "none" =>
         p \in passed[r] /\ p \notin queue[r] /\ p \notin deferred[r]
  BY <1>0, <1>2 DEF ListsOf
<1>5. pc'[r] = "catching" /\ hand'[r] = {} /\ ending'[r] = "failed"
  BY <1>0, <1>1
<1>6. \A s \in Runs : s # r =>
         /\ pc'[s] = pc[s] /\ hand'[s] = hand[s] /\ current'[s] = current[s]
         /\ ending'[s] = ending[s] /\ outcome'[s] = outcome[s]
  BY <1>0, <1>1, <1>2
<1>7. UNCHANGED <<deferred, passed, queue>>
  BY <1>1
<1>8. ListsOf(r)'
  BY <1>0, <1>3, <1>4, <1>5, <1>7 DEF ListsOf, InCatch, Working, AtWork, Admitted
<1>9. ASSUME NEW s \in Runs, s # r PROVE ListsOf(s)'
  <2>1. ListsOf(s)
    BY DEF IInv, Lists
  <2> QED
    BY <1>6, <1>7, <1>9, <2>1, OwnLists
<1> QED
  BY <1>8, <1>9 DEF Lists

(* So are the lists of every run,                                          *)
LEMMA ListsKept ==
  ASSUME IInv, [Next]_vars
  PROVE  Lists'
<1>10. ASSUME NEW r \in Runs, Throw(r) PROVE Lists'
  BY <1>10, ThrowLists
<1> USE NoneAssumption, FailuresAssumption
<1> USE DEF IInv, Typed, Lists, ListsOf, Goto, rows, lists, local, past, Working, InTry,
    InCatch, AtWork, Admitted, Stage, Outcome, RowStatus, Ending, Nothing
<1>1. ASSUME NEW r \in Runs, Start(r) PROVE Lists'
  BY <1>1 DEF Start
<1>2. ASSUME NEW r \in Runs, Claim(r) PROVE Lists'
  BY <1>2 DEF Claim, Eligible, Live, Outlived
<1>3. ASSUME NEW r \in Runs, Cancel(r) PROVE Lists'
  BY <1>3 DEF Cancel
<1>4. ASSUME NEW r \in Runs, ScoreOk(r) PROVE Lists'
  BY <1>4 DEF ScoreOk
<1>5. ASSUME NEW r \in Runs, ScoreFail(r) PROVE Lists'
  <2>1. PICK stage \in {"choosing", "sending"} : pc' = [pc EXCEPT ![r] = stage]
    BY <1>5 DEF ScoreFail
  <2>2. /\ pc[r] = "scoring"
        /\ outcome' = [outcome EXCEPT ![r][current[r]] = "failed"]
        /\ current' = [current EXCEPT ![r] = None]
        /\ \A s \in Runs : s # r => ending'[s] = ending[s]
        /\ UNCHANGED lists
    BY <1>5 DEF ScoreFail
  <2> QED
    BY <2>1, <2>2
<1>6. ASSUME NEW r \in Runs, EndBatch(r) PROVE Lists'
  BY <1>6 DEF EndBatch
<1>7. ASSUME NEW r \in Runs, NotifyOk(r) PROVE Lists'
  BY <1>7 DEF NotifyOk
<1>8. ASSUME NEW r \in Runs, NotifyFailed(r) PROVE Lists'
  BY <1>8 DEF NotifyFailed
<1>9. ASSUME NEW r \in Runs, MarkNotified(r) PROVE Lists'
  BY <1>9 DEF MarkNotified, ToMark, Settled
<1>11. ASSUME NEW r \in Runs, ReleaseClaims(r) PROVE Lists'
  <2>1. PICK stage \in {"finishing", "closing"} :
           /\ pc' = [pc EXCEPT ![r] = stage]
           /\ pc[r] = (IF stage = "finishing" THEN "releasing" ELSE "catching")
    BY <1>11 DEF ReleaseClaims
  <2>2. UNCHANGED <<lists, current, outcome, ending>>
    BY <1>11 DEF ReleaseClaims
  <2> QED
    BY <2>1, <2>2
<1>12. ASSUME NEW r \in Runs, Finish(r) PROVE Lists'
  BY <1>12 DEF Finish, Closing, Forget
<1>13. ASSUME NEW r \in Runs, Crash(r) PROVE Lists'
  BY <1>13 DEF Crash, Forget
<1>14. ASSUME NEW r \in Runs, GoStale(r) PROVE Lists'
  BY <1>14 DEF GoStale
<1>15. ASSUME NEW r \in Runs, NEW p \in Postings, GiveUp(r, p) PROVE Lists'
  BY <1>15 DEF GiveUp
<1>16. ASSUME NEW r \in Runs, NEW p \in Postings, BeginScore(r, p) PROVE Lists'
  BY <1>16 DEF BeginScore, Retriable
<1>17. ASSUME NEW p \in Postings, Rescore(p) PROVE Lists'
  BY <1>17 DEF Rescore, Live
<1>18. ASSUME NEW p \in Postings, Discard(p) PROVE Lists'
  BY <1>18 DEF Discard
<1>20. ASSUME NEW r \in Runs, Screen(r) PROVE Lists'
  BY <1>20 DEF Screen
<1>21. ASSUME NEW r \in Runs, Admit(r) PROVE Lists'
  BY <1>21 DEF Admit
<1>22. ASSUME NEW r \in Runs, ThrowInCatch(r) PROVE Lists'
  BY <1>22 DEF ThrowInCatch, Forget
<1>19. CASE UNCHANGED vars
  BY <1>19 DEF vars
<1> QED
  BY <1>1, <1>2, <1>3, <1>4, <1>5, <1>6, <1>7, <1>8, <1>9, <1>10, <1>11,
      <1>12, <1>13, <1>14, <1>15, <1>16, <1>17, <1>18, <1>19, <1>20, <1>21, <1>22
  DEF Next, Step

(* the claims on what is in hand,                                          *)
LEMMA HeldKept ==
  ASSUME IInv, [Next]_vars
  PROVE  Held'
<1> USE NoneAssumption, FailuresAssumption
<1> USE DEF IInv, Typed, Lists, ListsOf, Held, Goto, rows, lists, local, past, Working,
    InTry, InCatch, AtWork, Admitted, Stage, Outcome, RowStatus, Nothing
<1>1. ASSUME NEW r \in Runs, Start(r) PROVE Held'
  BY <1>1 DEF Start
<1>2. ASSUME NEW r \in Runs, Claim(r) PROVE Held'
  BY <1>2 DEF Claim, Eligible, Live, Outlived
<1>3. ASSUME NEW r \in Runs, Cancel(r) PROVE Held'
  BY <1>3 DEF Cancel
<1>4. ASSUME NEW r \in Runs, ScoreOk(r) PROVE Held'
  BY <1>4 DEF ScoreOk
<1>5. ASSUME NEW r \in Runs, ScoreFail(r) PROVE Held'
  <2>1. PICK stage \in {"choosing", "sending"} : pc' = [pc EXCEPT ![r] = stage]
    BY <1>5 DEF ScoreFail
  <2>2. pc[r] = "scoring" /\ UNCHANGED <<claimRun, hand, disturbed>>
    BY <1>5 DEF ScoreFail
  <2> QED
    BY <2>1, <2>2
<1>6. ASSUME NEW r \in Runs, EndBatch(r) PROVE Held'
  BY <1>6 DEF EndBatch
<1>7. ASSUME NEW r \in Runs, NotifyOk(r) PROVE Held'
  BY <1>7 DEF NotifyOk
<1>8. ASSUME NEW r \in Runs, NotifyFailed(r) PROVE Held'
  BY <1>8 DEF NotifyFailed
<1>9. ASSUME NEW r \in Runs, MarkNotified(r) PROVE Held'
  BY <1>9 DEF MarkNotified, ToMark, Settled
<1>10. ASSUME NEW r \in Runs, Throw(r) PROVE Held'
  BY <1>10 DEF Throw
<1>11. ASSUME NEW r \in Runs, ReleaseClaims(r) PROVE Held'
  BY <1>11 DEF ReleaseClaims, DropClaims
<1>12. ASSUME NEW r \in Runs, Finish(r) PROVE Held'
  BY <1>12 DEF Finish, Closing, Forget
<1>13. ASSUME NEW r \in Runs, Crash(r) PROVE Held'
  BY <1>13 DEF Crash, Forget
<1>14. ASSUME NEW r \in Runs, GoStale(r) PROVE Held'
  BY <1>14 DEF GoStale
<1>15. ASSUME NEW r \in Runs, NEW p \in Postings, GiveUp(r, p) PROVE Held'
  BY <1>15 DEF GiveUp
<1>16. ASSUME NEW r \in Runs, NEW p \in Postings, BeginScore(r, p) PROVE Held'
  BY <1>16 DEF BeginScore, Retriable
<1>17. ASSUME NEW p \in Postings, Rescore(p) PROVE Held'
  BY <1>17 DEF Rescore, Live
<1>18. ASSUME NEW p \in Postings, Discard(p) PROVE Held'
  BY <1>18 DEF Discard
<1>20. ASSUME NEW r \in Runs, Screen(r) PROVE Held'
  BY <1>20 DEF Screen
<1>21. ASSUME NEW r \in Runs, Admit(r) PROVE Held'
  BY <1>21 DEF Admit
<1>22. ASSUME NEW r \in Runs, ThrowInCatch(r) PROVE Held'
  BY <1>22 DEF ThrowInCatch, Forget
<1>19. CASE UNCHANGED vars
  BY <1>19 DEF vars
<1> QED
  BY <1>1, <1>2, <1>3, <1>4, <1>5, <1>6, <1>7, <1>8, <1>9, <1>10, <1>11,
      <1>12, <1>13, <1>14, <1>15, <1>16, <1>17, <1>18, <1>19, <1>20, <1>21, <1>22
  DEF Next, Step

(* the claims given back,                                                  *)
LEMMA ReturnedKept ==
  ASSUME IInv, [Next]_vars
  PROVE  Returned'
<1> USE NoneAssumption, FailuresAssumption
<1> USE DEF IInv, Typed, Returned, Goto, rows, lists, local, past, Working, InTry,
    InCatch, AtWork, Holding, Stage, Outcome, RowStatus
<1>1. ASSUME NEW r \in Runs, Start(r) PROVE Returned'
  BY <1>1 DEF Start
<1>2. ASSUME NEW r \in Runs, Claim(r) PROVE Returned'
  BY <1>2 DEF Claim, Eligible, Live, Outlived
<1>3. ASSUME NEW r \in Runs, Cancel(r) PROVE Returned'
  BY <1>3 DEF Cancel
<1>4. ASSUME NEW r \in Runs, ScoreOk(r) PROVE Returned'
  BY <1>4 DEF ScoreOk
<1>5. ASSUME NEW r \in Runs, ScoreFail(r) PROVE Returned'
  <2>1. PICK stage \in {"choosing", "sending"} : pc' = [pc EXCEPT ![r] = stage]
    BY <1>5 DEF ScoreFail
  <2>2. pc[r] = "scoring" /\ UNCHANGED <<claimRun, notified, row>>
    BY <1>5 DEF ScoreFail
  <2> QED
    BY <2>1, <2>2
<1>6. ASSUME NEW r \in Runs, EndBatch(r) PROVE Returned'
  BY <1>6 DEF EndBatch
<1>7. ASSUME NEW r \in Runs, NotifyOk(r) PROVE Returned'
  BY <1>7 DEF NotifyOk
<1>8. ASSUME NEW r \in Runs, NotifyFailed(r) PROVE Returned'
  BY <1>8 DEF NotifyFailed
<1>9. ASSUME NEW r \in Runs, MarkNotified(r) PROVE Returned'
  BY <1>9 DEF MarkNotified, ToMark, Settled
<1>10. ASSUME NEW r \in Runs, Throw(r) PROVE Returned'
  BY <1>10 DEF Throw
<1>11. ASSUME NEW r \in Runs, ReleaseClaims(r) PROVE Returned'
  BY <1>11 DEF ReleaseClaims, DropClaims
<1>12. ASSUME NEW r \in Runs, Finish(r) PROVE Returned'
  BY <1>12 DEF Finish, Closing, Forget
<1>13. ASSUME NEW r \in Runs, Crash(r) PROVE Returned'
  BY <1>13 DEF Crash, Forget
<1>14. ASSUME NEW r \in Runs, GoStale(r) PROVE Returned'
  BY <1>14 DEF GoStale
<1>15. ASSUME NEW r \in Runs, NEW p \in Postings, GiveUp(r, p) PROVE Returned'
  BY <1>15 DEF GiveUp
<1>16. ASSUME NEW r \in Runs, NEW p \in Postings, BeginScore(r, p) PROVE Returned'
  BY <1>16 DEF BeginScore, Retriable
<1>17. ASSUME NEW p \in Postings, Rescore(p) PROVE Returned'
  BY <1>17 DEF Rescore, Live
<1>18. ASSUME NEW p \in Postings, Discard(p) PROVE Returned'
  BY <1>18 DEF Discard
<1>20. ASSUME NEW r \in Runs, Screen(r) PROVE Returned'
  BY <1>20 DEF Screen
<1>21. ASSUME NEW r \in Runs, Admit(r) PROVE Returned'
  BY <1>21 DEF Admit
<1>22. ASSUME NEW r \in Runs, ThrowInCatch(r) PROVE Returned'
  BY <1>22 DEF ThrowInCatch, Forget
<1>19. CASE UNCHANGED vars
  BY <1>19 DEF vars
<1> QED
  BY <1>1, <1>2, <1>3, <1>4, <1>5, <1>6, <1>7, <1>8, <1>9, <1>10, <1>11,
      <1>12, <1>13, <1>14, <1>15, <1>16, <1>17, <1>18, <1>19, <1>20, <1>21, <1>22
  DEF Next, Step

(* what a run believes,                                                    *)
LEMMA BelievedKept ==
  ASSUME IInv, [Next]_vars
  PROVE  Believed'
<1> USE DEF IInv, Typed, Goto, rows, lists, local, past, AtWork, Deciding, Admitted
<1>1. ASSUME NEW r \in Runs, Start(r) PROVE Believed'
  BY <1>1 DEF Start, Believed, BelievedOf, Deciding
<1>2. ASSUME NEW r \in Runs, Claim(r) PROVE Believed'
  <2> SUFFICES ASSUME NEW s \in Runs, NEW q \in Postings, q \notin disturbed'
               PROVE  BelievedOf(s, q)'
    BY DEF Believed
  <2>1. UNCHANGED <<notified, failures, current, outcome, reported, unmarked>>
    BY <1>2 DEF Claim
  <2>2. pc' = [pc EXCEPT ![r] = "screening"] /\ pc[r] = "started"
    BY <1>2 DEF Claim
  <2>3. q \notin disturbed /\ (Eligible(q) => ~Outlived(q))
    BY <1>2 DEF Claim
  <2>4. CASE s = r
    <3>1. outcome[r][q] = "none"
      BY <2>2 DEF Lists, ListsOf
    <3>2. q \in hand'[r] => Eligible(q)
      BY <1>2 DEF Claim
    <3>3. Eligible(q) => q \notin notified /\ reported[q] = unmarked[q]
      <4> SUFFICES ASSUME Eligible(q) PROVE q \notin notified /\ reported[q] = unmarked[q]
        OBVIOUS
      <4>1. q \notin notified
        BY DEF Eligible
      <4>2. ~AboutToMark(q)
        <5> SUFFICES ASSUME NEW t \in Runs, pc[t] = "marking", outcome[t][q] = "shown"
                     PROVE  FALSE
          BY DEF AboutToMark
        <5>1. q \in hand[t]
          BY DEF Lists, ListsOf
        <5>2. claimRun[q] = t
          BY <2>3, <5>1 DEF Held, AtWork, Working
        <5> QED
          BY <2>3, <5>2, NoneAssumption DEF Eligible, Live, Outlived, Working, InTry
      <4> QED
        BY <2>3, <4>1, <4>2 DEF Sent, SentOf
    <3> QED
      BY <2>1, <2>2, <2>4, <3>1, <3>2, <3>3 DEF BelievedOf
  <2>5. CASE s # r
    <3>1. pc'[s] = pc[s] /\ hand'[s] = hand[s] /\ BelievedOf(s, q)
      BY <1>2, <2>2, <2>3, <2>5 DEF Claim, Believed
    <3> QED
      BY <2>1, <3>1 DEF BelievedOf
  <2> QED
    BY <2>4, <2>5
<1>3. ASSUME NEW r \in Runs, Cancel(r) PROVE Believed'
  BY <1>3 DEF Cancel, Believed, BelievedOf, Deciding
<1>4. ASSUME NEW r \in Runs, ScoreOk(r) PROVE Believed'
  <2> SUFFICES ASSUME NEW s \in Runs, NEW q \in Postings, q \notin disturbed'
               PROVE  BelievedOf(s, q)'
    BY DEF Believed
  <2>1. /\ pc[r] = "scoring" /\ pc' = [pc EXCEPT ![r] = "choosing"]
        /\ failures' = [failures EXCEPT ![current[r]] = 0]
        /\ \E verdict \in {"shown", "dropped", "gated"} :
              outcome' = [outcome EXCEPT ![r][current[r]] = verdict]
        /\ current' = [current EXCEPT ![r] = None]
        /\ UNCHANGED <<notified, hand, reported, unmarked, disturbed>>
    BY <1>4 DEF ScoreOk, past
  <2>2. BelievedOf(s, q)
    BY <2>1 DEF Believed
  <2>3. current[r] \in hand[r] /\ current[r] \in Postings
    BY <2>1, InHand
  <2>4. CASE s = r
    BY <2>1, <2>2, <2>3, <2>4, NoneAssumption DEF BelievedOf, Deciding
  <2>5. CASE s # r /\ q # current[r]
    BY <2>1, <2>2, <2>3, <2>5 DEF BelievedOf
  <2>6. CASE s # r /\ q = current[r]
    <3>1. pc[s] \notin AtWork \/ q \notin hand[s]
      BY <2>1, <2>3, <2>6, Apart DEF AtWork, Working
    <3>2. pc'[s] = pc[s] /\ outcome'[s] = outcome[s] /\ current'[s] = current[s]
      BY <2>1, <2>6
    <3>3. pc[s] \in AtWork =>
             outcome[s][q] = "none" /\ (pc[s] = "scoring" => current[s] # q)
      BY <3>1 DEF Lists, ListsOf
    <3> QED
      BY <2>1, <2>2, <3>1, <3>2, <3>3 DEF BelievedOf
  <2> QED
    BY <2>4, <2>5, <2>6
<1>5. ASSUME NEW r \in Runs, ScoreFail(r) PROVE Believed'
  <2> SUFFICES ASSUME NEW s \in Runs, NEW q \in Postings, q \notin disturbed'
               PROVE  BelievedOf(s, q)'
    BY DEF Believed
  <2>1. /\ pc[r] = "scoring" 
        /\ failures' = [failures EXCEPT ![current[r]] = OneMoreFailure(@)]
        /\ outcome' = [outcome EXCEPT ![r][current[r]] = "failed"]
        /\ current' = [current EXCEPT ![r] = None]
        /\ UNCHANGED <<notified, hand, reported, unmarked, disturbed>>
    BY <1>5 DEF ScoreFail, past
  <2>7. PICK ahead \in {"choosing", "sending"} : pc' = [pc EXCEPT ![r] = ahead]
    BY <1>5 DEF ScoreFail
  <2>2. BelievedOf(s, q)
    BY <2>1 DEF Believed
  <2>3. current[r] \in hand[r] /\ current[r] \in Postings
    BY <2>1, InHand
  <2>4. CASE s = r
    BY <2>1, <2>2, <2>3, <2>4, <2>7, NoneAssumption DEF BelievedOf, Deciding
  <2>5. CASE s # r /\ q # current[r]
    BY <2>1, <2>2, <2>3, <2>5, <2>7 DEF BelievedOf
  <2>6. CASE s # r /\ q = current[r]
    <3>1. pc[s] \notin AtWork \/ q \notin hand[s]
      BY <2>1, <2>3, <2>6, Apart DEF AtWork, Working
    <3>2. pc'[s] = pc[s] /\ outcome'[s] = outcome[s] /\ current'[s] = current[s]
      BY <2>1, <2>6, <2>7
    <3>3. pc[s] \in AtWork =>
             outcome[s][q] = "none" /\ (pc[s] = "scoring" => current[s] # q)
      BY <3>1 DEF Lists, ListsOf
    <3> QED
      BY <2>1, <2>2, <3>1, <3>2, <3>3 DEF BelievedOf
  <2> QED
    BY <2>4, <2>5, <2>6
<1>6. ASSUME NEW r \in Runs, EndBatch(r) PROVE Believed'
  BY <1>6 DEF EndBatch, Believed, BelievedOf, Deciding
<1>7. ASSUME NEW r \in Runs, NotifyOk(r) PROVE Believed'
  <2> SUFFICES ASSUME NEW s \in Runs, NEW q \in Postings, q \notin disturbed'
               PROVE  BelievedOf(s, q)'
    BY DEF Believed
  <2>1. /\ pc[r] = "sending" /\ pc' = [pc EXCEPT ![r] = "marking"]
        /\ reported'[q] = IF outcome[r][q] = "shown" THEN reported[q] + 1 ELSE reported[q]
        /\ UNCHANGED <<failures, notified, hand, current, outcome, unmarked, disturbed>>
    BY <1>7, Counted DEF NotifyOk
  <2>2. BelievedOf(s, q)
    BY <2>1 DEF Believed
  <2>3. outcome[r][q] = "shown" => q \in hand[r]
    BY <2>1 DEF Lists, ListsOf
  <2>4. CASE s = r
    BY <2>1, <2>2, <2>3, <2>4 DEF BelievedOf, Deciding
  <2>5. CASE s # r
    <3>1. pc[s] \in AtWork /\ outcome[r][q] = "shown" => q \notin hand[s]
      BY <2>1, <2>3, <2>5, Apart DEF AtWork, Working
    <3>2. pc[s] \in AtWork /\ outcome[s][q] = "shown" => q \in hand[s]
      BY DEF Lists, ListsOf
    <3>3. pc'[s] = pc[s]
      BY <2>1, <2>5
    <3> QED
      BY <2>1, <2>2, <3>1, <3>2, <3>3 DEF BelievedOf
  <2> QED
    BY <2>4, <2>5
<1>8. ASSUME NEW r \in Runs, NotifyFailed(r) PROVE Believed'
  <2>1. LeaveUnmarked(r) /\ pc' = [pc EXCEPT ![r] = "releasing"]
    BY <1>8 DEF NotifyFailed
  <2>2. UNCHANGED <<failures, notified, disturbed>>
    BY <1>8 DEF NotifyFailed
  <2>3. \A t \in Runs : t # r =>
           hand'[t] = hand[t] /\ outcome'[t] = outcome[t] /\ current'[t] = current[t]
    BY <1>8 DEF NotifyFailed
  <2> QED
    BY <2>1, <2>2, <2>3, FailedIsSettled
<1>9. ASSUME NEW r \in Runs, MarkNotified(r) PROVE Believed'
  <2> SUFFICES ASSUME NEW s \in Runs, NEW q \in Postings, q \notin disturbed'
               PROVE  BelievedOf(s, q)'
    BY DEF Believed
  <2>1. /\ pc[r] = "marking" /\ pc' = [pc EXCEPT ![r] = "releasing"]
        /\ UNCHANGED <<failures, reported, unmarked, hand, current, outcome, disturbed>>
    BY <1>9 DEF MarkNotified, past
  <2>2. BelievedOf(s, q)
    BY <2>1 DEF Believed
  <2>3. q \in notified' => q \in notified \/ q \in hand[r]
    BY <1>9 DEF MarkNotified, ToMark, Settled, Lists, ListsOf
  <2>4. CASE s = r
    BY <2>1, <2>4 DEF BelievedOf, Deciding
  <2>5. CASE s # r
    <3>1. pc[s] \in AtWork /\ q \in hand[r] => q \notin hand[s]
      BY <2>1, <2>5, Apart DEF AtWork, Working
    <3>2. pc'[s] = pc[s]
      BY <2>1, <2>5
    <3> QED
      BY <2>1, <2>2, <2>3, <3>1, <3>2 DEF BelievedOf
  <2> QED
    BY <2>4, <2>5
<1>10. ASSUME NEW r \in Runs, Throw(r) PROVE Believed'
  <2>1. LeaveUnmarked(r) /\ pc' = [pc EXCEPT ![r] = "catching"]
    BY <1>10 DEF Throw
  <2>2. UNCHANGED <<failures, notified, disturbed>>
    BY <1>10 DEF Throw
  <2>3. \A t \in Runs : t # r =>
           hand'[t] = hand[t] /\ outcome'[t] = outcome[t] /\ current'[t] = current[t]
    BY <1>10 DEF Throw
  <2> QED
    BY <2>1, <2>2, <2>3, FailedIsSettled
<1>11. ASSUME NEW r \in Runs, ReleaseClaims(r) PROVE Believed'
  BY <1>11 DEF ReleaseClaims, Believed, BelievedOf, Deciding
<1>12. ASSUME NEW r \in Runs, Finish(r) PROVE Believed'
  BY <1>12 DEF Finish, Forget, Believed, BelievedOf, Nothing
<1>13. ASSUME NEW r \in Runs, Crash(r) PROVE Believed'
  <2>1. LeaveUnmarked(r) /\ pc' = [pc EXCEPT ![r] = "crashed"]
    BY <1>13 DEF Crash
  <2>2. UNCHANGED <<failures, notified, disturbed>>
    BY <1>13 DEF Crash
  <2>3. \A t \in Runs : t # r =>
           hand'[t] = hand[t] /\ outcome'[t] = outcome[t] /\ current'[t] = current[t]
    BY <1>13 DEF Crash, Forget
  <2> QED
    BY <2>1, <2>2, <2>3, FailedIsSettled
<1>14. ASSUME NEW r \in Runs, GoStale(r) PROVE Believed'
  BY <1>14 DEF GoStale, Believed, BelievedOf
<1>15. ASSUME NEW r \in Runs, NEW p \in Postings, GiveUp(r, p) PROVE Believed'
  BY <1>15 DEF GiveUp, Believed, BelievedOf
<1>16. ASSUME NEW r \in Runs, NEW p \in Postings, BeginScore(r, p) PROVE Believed'
  BY <1>16 DEF BeginScore, Retriable, Believed, BelievedOf, Deciding
<1>17. ASSUME NEW p \in Postings, Rescore(p) PROVE Believed'
  <2> SUFFICES ASSUME NEW s \in Runs, NEW q \in Postings, q \notin disturbed'
               PROVE  BelievedOf(s, q)'
    BY DEF Believed
  <2>1. /\ failures' = [failures EXCEPT ![p] = 0]
        /\ notified' \subseteq notified
        /\ disturbed \subseteq disturbed' /\ (Live(p) => p \in disturbed')
        /\ UNCHANGED <<pc, hand, current, outcome, reported, unmarked>>
    BY <1>17 DEF Rescore
  <2>2. BelievedOf(s, q)
    BY <2>1 DEF Believed
  <2>3. CASE q # p
    BY <2>1, <2>2, <2>3 DEF BelievedOf
  <2>4. CASE q = p
    <3>1. pc[s] \in AtWork => q \notin hand[s]
      BY <2>1, <2>4, NoneAssumption DEF Held, Live, Working, InTry
    <3>2. pc[s] \in AtWork =>
             outcome[s][q] = "none" /\ (pc[s] = "scoring" => current[s] # q)
      BY <3>1 DEF Lists, ListsOf
    <3> QED
      BY <2>1, <2>2, <3>1, <3>2 DEF BelievedOf
  <2> QED
    BY <2>3, <2>4
<1>18. ASSUME NEW p \in Postings, Discard(p) PROVE Believed'
  BY <1>18 DEF Discard, Believed, BelievedOf
<1>20. ASSUME NEW r \in Runs, Screen(r) PROVE Believed'
  BY <1>20 DEF Screen, Believed, BelievedOf
<1>21. ASSUME NEW r \in Runs, Admit(r) PROVE Believed'
  BY <1>21 DEF Admit, Believed, BelievedOf
<1>22. ASSUME NEW r \in Runs, ThrowInCatch(r) PROVE Believed'
  BY <1>22 DEF ThrowInCatch, Forget, Believed, BelievedOf
<1>19. CASE UNCHANGED vars
  BY <1>19 DEF vars, Believed, BelievedOf
<1> QED
  BY <1>1, <1>2, <1>3, <1>4, <1>5, <1>6, <1>7, <1>8, <1>9, <1>10, <1>11,
      <1>12, <1>13, <1>14, <1>15, <1>16, <1>17, <1>18, <1>19, <1>20, <1>21, <1>22
  DEF Next, Step

(* and what was sent.                                                      *)
LEMMA SentKept ==
  ASSUME IInv, [Next]_vars
  PROVE  Sent'
<1> USE DEF IInv, Typed, Goto, rows, lists, local, past, AtWork, Deciding, Admitted
<1>1. ASSUME NEW r \in Runs, Start(r) PROVE Sent'
  BY <1>1 DEF Start, Sent, SentOf, AboutToMark
<1>2. ASSUME NEW r \in Runs, Claim(r) PROVE Sent'
  BY <1>2 DEF Claim, Sent, SentOf, AboutToMark
<1>3. ASSUME NEW r \in Runs, Cancel(r) PROVE Sent'
  BY <1>3 DEF Cancel, Sent, SentOf, AboutToMark
<1>4. ASSUME NEW r \in Runs, ScoreOk(r) PROVE Sent'
  <2> SUFFICES ASSUME NEW q \in Postings, q \notin disturbed'
               PROVE  SentOf(q)'
    BY DEF Sent
  <2>1. /\ pc[r] = "scoring"
        /\ failures' = [failures EXCEPT ![current[r]] = 0]
        /\ \A s \in Runs : s # r => pc'[s] = pc[s] /\ outcome'[s] = outcome[s]
        /\ UNCHANGED <<notified, reported, unmarked, disturbed>>
    BY <1>4 DEF ScoreOk, past
  <2>2. SentOf(q)
    BY <2>1 DEF Sent
  <2>3. current[r] \in hand[r] /\ current[r] \in Postings
    BY <2>1, InHand
  <2>4. AboutToMark(q) => AboutToMark(q)'
    BY <2>1 DEF AboutToMark
  <2>5. CASE q # current[r]
    BY <2>1, <2>2, <2>4, <2>5 DEF SentOf
  <2>6. CASE q = current[r]
    <3>1. reported[q] = unmarked[q] /\ q \notin notified
      BY <2>1, <2>3, <2>6 DEF Believed, BelievedOf, Deciding
    <3> QED
      BY <2>1, <2>3, <2>6, <3>1, FailuresAssumption DEF SentOf
  <2> QED
    BY <2>5, <2>6
<1>5. ASSUME NEW r \in Runs, ScoreFail(r) PROVE Sent'
  <2> SUFFICES ASSUME NEW q \in Postings, q \notin disturbed'
               PROVE  SentOf(q)'
    BY DEF Sent
  <2>1. /\ pc[r] = "scoring"
        /\ failures' = [failures EXCEPT ![current[r]] = OneMoreFailure(@)]
        /\ outcome' = [outcome EXCEPT ![r][current[r]] = "failed"]
        /\ \A s \in Runs : s # r => pc'[s] = pc[s]
        /\ UNCHANGED <<notified, reported, unmarked, disturbed>>
    BY <1>5 DEF ScoreFail, past
  <2>2. SentOf(q)
    BY <2>1 DEF Sent
  <2>3. current[r] \in hand[r] /\ current[r] \in Postings
    BY <2>1, InHand
  <2>4. AboutToMark(q) => AboutToMark(q)'
    BY <2>1 DEF AboutToMark
  <2>5. CASE q # current[r]
    BY <2>1, <2>2, <2>4, <2>5 DEF SentOf
  <2>6. CASE q = current[r]
    <3>1. failures[q] < MaxFailures /\ reported[q] = unmarked[q] /\ q \notin notified
      BY <2>1, <2>3, <2>6 DEF Believed, BelievedOf, Deciding
    <3> QED
      BY <2>1, <2>3, <2>6, <3>1, FailuresAssumption DEF SentOf, OneMoreFailure
  <2> QED
    BY <2>5, <2>6
<1>6. ASSUME NEW r \in Runs, EndBatch(r) PROVE Sent'
  BY <1>6 DEF EndBatch, Sent, SentOf, AboutToMark
<1>7. ASSUME NEW r \in Runs, NotifyOk(r) PROVE Sent'
  <2> SUFFICES ASSUME NEW q \in Postings, q \notin disturbed'
               PROVE  SentOf(q)'
    BY DEF Sent
  <2>1. /\ pc[r] = "sending" /\ pc' = [pc EXCEPT ![r] = "marking"]
        /\ reported'[q] = IF outcome[r][q] = "shown" THEN reported[q] + 1 ELSE reported[q]
        /\ UNCHANGED <<failures, notified, outcome, unmarked, disturbed>>
    BY <1>7, Counted DEF NotifyOk
  <2>2. SentOf(q) /\ reported[q] \in Nat /\ unmarked[q] \in Nat
    BY <2>1 DEF Sent
  <2>3. AboutToMark(q) => AboutToMark(q)'
    BY <2>1 DEF AboutToMark
  <2>4. CASE outcome[r][q] = "shown"
    <3>1. q \in hand[r]
      BY <2>1, <2>4 DEF Lists, ListsOf
    <3>3. BelievedOf(r, q)
      BY <2>1 DEF Believed
    <3>4. failures[q] = 0 /\ reported[q] = unmarked[q]
      BY <2>1, <2>4, <3>1, <3>3 DEF BelievedOf
    <3>2. AboutToMark(q)'
      BY <2>1, <2>4 DEF AboutToMark
    <3> QED
      BY <2>1, <2>2, <2>4, <3>2, <3>4 DEF SentOf
  <2>5. CASE outcome[r][q] # "shown"
    BY <2>1, <2>2, <2>3, <2>5 DEF SentOf
  <2> QED
    BY <2>4, <2>5
<1>8. ASSUME NEW r \in Runs, NotifyFailed(r) PROVE Sent'
  <2>1. LeaveUnmarked(r) /\ pc' = [pc EXCEPT ![r] = "releasing"]
    BY <1>8 DEF NotifyFailed
  <2>2. UNCHANGED <<failures, notified, disturbed>>
    BY <1>8 DEF NotifyFailed
  <2>3. \A t \in Runs : t # r =>
           hand'[t] = hand[t] /\ outcome'[t] = outcome[t] /\ current'[t] = current[t]
    BY <1>8 DEF NotifyFailed
  <2> QED
    BY <2>1, <2>2, <2>3, FailedIsSettled
<1>9. ASSUME NEW r \in Runs, MarkNotified(r) PROVE Sent'
  BY <1>9 DEF MarkNotified, ToMark, Settled, Believed, BelievedOf, Sent,
      SentOf, AboutToMark
<1>10. ASSUME NEW r \in Runs, Throw(r) PROVE Sent'
  <2>1. LeaveUnmarked(r) /\ pc' = [pc EXCEPT ![r] = "catching"]
    BY <1>10 DEF Throw
  <2>2. UNCHANGED <<failures, notified, disturbed>>
    BY <1>10 DEF Throw
  <2>3. \A t \in Runs : t # r =>
           hand'[t] = hand[t] /\ outcome'[t] = outcome[t] /\ current'[t] = current[t]
    BY <1>10 DEF Throw
  <2> QED
    BY <2>1, <2>2, <2>3, FailedIsSettled
<1>11. ASSUME NEW r \in Runs, ReleaseClaims(r) PROVE Sent'
  BY <1>11 DEF ReleaseClaims, Sent, SentOf, AboutToMark
<1>12. ASSUME NEW r \in Runs, Finish(r) PROVE Sent'
  BY <1>12 DEF Finish, Closing, Forget, Sent, SentOf, AboutToMark
<1>13. ASSUME NEW r \in Runs, Crash(r) PROVE Sent'
  <2>1. LeaveUnmarked(r) /\ pc' = [pc EXCEPT ![r] = "crashed"]
    BY <1>13 DEF Crash
  <2>2. UNCHANGED <<failures, notified, disturbed>>
    BY <1>13 DEF Crash
  <2>3. \A t \in Runs : t # r =>
           hand'[t] = hand[t] /\ outcome'[t] = outcome[t] /\ current'[t] = current[t]
    BY <1>13 DEF Crash, Forget
  <2> QED
    BY <2>1, <2>2, <2>3, FailedIsSettled
<1>14. ASSUME NEW r \in Runs, GoStale(r) PROVE Sent'
  BY <1>14 DEF GoStale, Sent, SentOf, AboutToMark
<1>15. ASSUME NEW r \in Runs, NEW p \in Postings, GiveUp(r, p) PROVE Sent'
  BY <1>15 DEF GiveUp, Sent, SentOf, AboutToMark
<1>16. ASSUME NEW r \in Runs, NEW p \in Postings, BeginScore(r, p) PROVE Sent'
  BY <1>16 DEF BeginScore, Sent, SentOf, AboutToMark
<1>17. ASSUME NEW p \in Postings, Rescore(p) PROVE Sent'
  <2> SUFFICES ASSUME NEW q \in Postings, q \notin disturbed'
               PROVE  SentOf(q)'
    BY DEF Sent
  <2>1. /\ failures[p] > 0
        /\ failures' = [failures EXCEPT ![p] = 0]
        /\ notified' = notified \ {p}
        /\ disturbed \subseteq disturbed'
        /\ UNCHANGED <<pc, outcome, reported, unmarked>>
    BY <1>17 DEF Rescore
  <2>2. SentOf(q) /\ reported[q] \in Nat /\ unmarked[q] \in Nat
    BY <2>1 DEF Sent
  <2>3. AboutToMark(q)' <=> AboutToMark(q)
    BY <2>1 DEF AboutToMark
  <2>4. CASE q # p
    BY <2>1, <2>2, <2>3, <2>4 DEF SentOf
  <2>5. CASE q = p
    BY <2>1, <2>2, <2>3, <2>5, FailuresAssumption DEF SentOf
  <2> QED
    BY <2>4, <2>5
<1>18. ASSUME NEW p \in Postings, Discard(p) PROVE Sent'
  BY <1>18 DEF Discard, Sent, SentOf, AboutToMark
<1>20. ASSUME NEW r \in Runs, Screen(r) PROVE Sent'
  BY <1>20 DEF Screen, Sent, SentOf, AboutToMark
<1>21. ASSUME NEW r \in Runs, Admit(r) PROVE Sent'
  BY <1>21 DEF Admit, Sent, SentOf, AboutToMark
<1>22. ASSUME NEW r \in Runs, ThrowInCatch(r) PROVE Sent'
  BY <1>22 DEF ThrowInCatch, InCatch, Forget, Sent, SentOf, AboutToMark
<1>19. CASE UNCHANGED vars
  BY <1>19 DEF vars, Sent, SentOf, AboutToMark
<1> QED
  BY <1>1, <1>2, <1>3, <1>4, <1>5, <1>6, <1>7, <1>8, <1>9, <1>10, <1>11,
      <1>12, <1>13, <1>14, <1>15, <1>16, <1>17, <1>18, <1>19, <1>20, <1>21, <1>22
  DEF Next, Step

(* The facts above hold together throughout.                               *)
LEMMA Invariance == Spec => []IInv
<1>1. Init => IInv
  BY NoneAssumption, FailuresAssumption
  DEF Init, IInv, Typed, Lists, ListsOf, Held, Returned, Believed, BelievedOf, Sent, SentOf,
      Nothing, Deciding, Working, InTry, InCatch, AtWork, Holding, Admitted, Stage,
      Outcome, RowStatus, Ending
<1>2. IInv /\ [Next]_vars => IInv'
  BY TypedKept, ListsKept, HeldKept, ReturnedKept, BelievedKept, SentKept DEF
      IInv
<1> QED
  BY <1>1, <1>2, PTL DEF Spec

(* The claim keeps a posting in one working run, until its exclusion is    *)
(* given up.                                                               *)
THEOREM ClaimsExclude == Spec => []OneRunPerPosting
<1>1. IInv => OneRunPerPosting
  <2> SUFFICES ASSUME IInv, NEW r \in Runs, NEW s \in Runs, r # s,
                      pc[r] \in AtWork, pc[s] \in AtWork,
                      NEW p \in hand[r] \cap hand[s]
               PROVE  p \in disturbed
    BY DEF OneRunPerPosting
  <2> QED
    BY Apart DEF IInv
<1> QED
  BY <1>1, Invariance, PTL

(* A verdict of an undisturbed posting reaches the chat once, and again    *)
(* only for a run that failed or died after it may have been sent and      *)
(* before the posting was marked.                                          *)
THEOREM VerdictsAreSentOnce == Spec => []ReportedOnce
<1>1. IInv => ReportedOnce
  <2> SUFFICES ASSUME IInv, NEW p \in Postings \ disturbed
               PROVE  reported[p] <= 1 + unmarked[p]
    BY DEF ReportedOnce
  <2>1. reported[p] \in Nat /\ unmarked[p] \in Nat
    BY DEF IInv, Typed
  <2>2. reported[p] = unmarked[p] \/ reported[p] = unmarked[p] + 1
    BY DEF IInv, Sent, SentOf
  <2> QED
    BY <2>1, <2>2
<1> QED
  BY <1>1, Invariance, PTL

(* A closed run holds no claim on a posting that is still to be notified.  *)
THEOREM ClaimsComeBack == Spec => []ClaimsReturned
<1>1. IInv => ClaimsReturned
  BY DEF IInv, Typed, Returned, Holding, AtWork, Working, InTry, InCatch, ClaimsReturned
<1> QED
  BY <1>1, Invariance, PTL

(* No attempt is spent on an undisturbed posting past the ceiling.         *)
THEOREM CeilingHolds == Spec => []FailureCeiling
<1>1. IInv => FailureCeiling
  BY DEF IInv, Sent, SentOf, FailureCeiling
<1> QED
  BY <1>1, Invariance, PTL

(* Nothing is retired without a delivered verdict or a spent ceiling.      *)
THEOREM RetiredForAReason == Spec => []NotifiedForAReason
<1>1. IInv => NotifiedForAReason
  BY DEF IInv, Typed, Sent, SentOf, NotifiedForAReason
<1> QED
  BY <1>1, Invariance, PTL

(* The union of disjoint finite sets has the sum of their sizes.           *)
LEMMA DisjointUnion ==
  ASSUME NEW A, NEW B, IsFiniteSet(A), IsFiniteSet(B), A \cap B = {}
  PROVE  /\ IsFiniteSet(A \cup B)
         /\ Cardinality(A \cup B) = Cardinality(A) + Cardinality(B)
<1>1. Cardinality(A) \in Nat /\ Cardinality(B) \in Nat
  BY FS_CardinalityType
<1>2. Cardinality(A \cap B) = 0
  BY FS_EmptySet
<1>3. /\ IsFiniteSet(A \cup B)
      /\ Cardinality(A \cup B) = Cardinality(A) + Cardinality(B) - Cardinality(A \cap B)
  BY FS_Union
<1> QED
  BY <1>1, <1>2, <1>3

(* What a run knows of its postings is disjoint, so that the parts cannot  *)
(* outgrow the whole and the remainder in Unscored makes up the rest; a    *)
(* run stopped before it counted the whole has its deferrals alone.        *)
LEMMA PartsReconcile ==
  ASSUME Typed, Lists, NEW r \in Runs
  PROVE  /\ Cardinality(passed[r]) \in Nat /\ Cardinality(Scored(r)) \in Nat
         /\ Cardinality(deferred[r]) \in Nat /\ Unscored(r) \in Nat
         /\ deferred[r] \subseteq passed[r] =>
               Cardinality(passed[r]) = Cardinality(Scored(r)) + Unscored(r)
         /\ passed[r] = {} =>
               /\ Cardinality(passed[r]) = 0 /\ Cardinality(Scored(r)) = 0
               /\ Unscored(r) = Cardinality(deferred[r])
<1> DEFINE S == Scored(r)
           F == Failed(r)
           D == deferred[r]
           P == passed[r]
<1>1. S \subseteq P /\ F \subseteq P
  BY DEF Typed, Lists, ListsOf, Scored, Failed
<1>2. S \cap F = {} /\ (S \cup F) \cap D = {}
  BY DEF Lists, ListsOf, Scored, Failed
<1>3. IsFiniteSet(P) /\ IsFiniteSet(D)
  BY PostingsAssumption, FS_Subset DEF Typed
<1>4. IsFiniteSet(S) /\ IsFiniteSet(F)
  BY <1>1, <1>3, FS_Subset
<1>5. /\ Cardinality(P) \in Nat /\ Cardinality(S) \in Nat
      /\ Cardinality(F) \in Nat /\ Cardinality(D) \in Nat
  BY <1>3, <1>4, FS_CardinalityType
<1>6. IsFiniteSet(S \cup F) /\ Cardinality(S \cup F) = Cardinality(S) + Cardinality(F)
  BY <1>2, <1>4, DisjointUnion
<1>7. Cardinality((S \cup F) \cup D) = Cardinality(S \cup F) + Cardinality(D)
  BY <1>2, <1>3, <1>6, DisjointUnion
<1>8. D \subseteq P => Cardinality((S \cup F) \cup D) <= Cardinality(P)
  BY <1>1, <1>3, FS_Subset
<1>9. P = {} => Cardinality(P) = 0 /\ Cardinality(S) = 0 /\ Cardinality(F) = 0
  BY <1>1, FS_EmptySet
<1>10. Unscored(r) = Cardinality(F) + Cardinality(D)
          + (IF Cardinality(P) > Cardinality(S) + Cardinality(F) + Cardinality(D)
               THEN Cardinality(P) - (Cardinality(S) + Cardinality(F) + Cardinality(D))
               ELSE 0)
  BY DEF Unscored
<1> HIDE DEF S, F, D, P
<1>11. Unscored(r) \in Nat
  BY <1>5, <1>10
<1>12. D \subseteq P => Cardinality(P) = Cardinality(S) + Unscored(r)
  BY <1>5, <1>6, <1>7, <1>8, <1>10
<1>13. P = {} => Unscored(r) = Cardinality(D)
  BY <1>5, <1>9, <1>10
<1> QED
  BY <1>5, <1>9, <1>11, <1>12, <1>13 DEF S, F, D, P

(* Every stored breakdown is well typed and adds up.                       *)
Tallied ==
    /\ tally \in [Runs -> [filtered : Nat, scored : Nat, deferred : Nat, unscored : Nat]]
    /\ CountsReconcile

(* The counters match the outcomes in every reachable state.               *)
LEMMA Tallies == Spec => []Tallied
<1>1. Init => Tallied
  BY DEF Init, Tallied, CountsReconcile
<1>2. IInv /\ Tallied /\ [Next]_vars => Tallied'
  <2> SUFFICES ASSUME IInv, Tallied, [Next]_vars PROVE Tallied'
    OBVIOUS
  <2>1. ASSUME NEW r \in Runs, Finish(r) PROVE Tallied'
    <3> DEFINE now == [filtered |-> Cardinality(passed[r]), scored |-> Cardinality(Scored(r)),
                       deferred |-> Cardinality(deferred[r]), unscored |-> Unscored(r)]
    <3>1. tally' = [tally EXCEPT ![r] = now] /\ row' = [row EXCEPT ![r] = ending[r]]
      BY <2>1 DEF Finish
    <3>2. now \in [filtered : Nat, scored : Nat, deferred : Nat, unscored : Nat]
      BY PartsReconcile DEF IInv
    <3>3. \/ now.filtered = now.scored + now.unscored
          \/ /\ ending[r] = "failed" /\ now.filtered = 0 /\ now.scored = 0
             /\ now.unscored = now.deferred
      <4>1. deferred[r] \subseteq passed[r] \/ (passed[r] = {} /\ ending[r] = "failed")
        BY <2>1 DEF Finish, Closing, IInv, Lists, ListsOf, InCatch
      <4> QED
        BY <4>1, PartsReconcile DEF IInv
    <3> HIDE DEF now
    <3>4. tally'[r] = now /\ row'[r] = ending[r]
      BY <3>1 DEF Tallied, IInv, Typed
    <3>5. \A s \in Runs : s # r => tally'[s] = tally[s] /\ row'[s] = row[s]
      BY <3>1 DEF Tallied, IInv, Typed
    <3>6. CountsReconcile'
      BY <3>3, <3>4, <3>5 DEF Tallied, CountsReconcile
    <3> QED
      BY <3>1, <3>2, <3>6 DEF Tallied
  <2>2. ASSUME NEW r \in Runs, Start(r) PROVE Tallied'
    <3>1. row[r] = "absent" /\ row' = [row EXCEPT ![r] = "running"] /\ UNCHANGED tally
      BY <2>2 DEF Start, IInv, Returned
    <3> QED
      BY <3>1 DEF Tallied, CountsReconcile, IInv, Typed
  <2>3. UNCHANGED <<tally, row>> => Tallied'
    BY DEF Tallied, CountsReconcile
  <2>4. (\A r \in Runs : ~Finish(r) /\ ~Start(r)) => UNCHANGED <<tally, row>>
    BY DEF Next, Step, Claim, Screen, Admit, Cancel, GiveUp, BeginScore, ScoreOk,
        ScoreFail, EndBatch, NotifyOk, NotifyFailed, MarkNotified, Throw, ThrowInCatch,
        ReleaseClaims, Crash, GoStale, Rescore, Discard, vars
  <2> QED
    BY <2>1, <2>2, <2>3, <2>4
<1> QED
  BY <1>1, <1>2, Invariance, PTL DEF Spec

(* The counts a run records add up: filtered is scored plus unscored, so   *)
(* that no posting that passed the filter is missing from the breakdown;   *)
(* but a run stopped while recording its deferrals stores them alone.      *)
THEOREM CountsAddUp == Spec => []CountsReconcile
<1>1. Tallied => CountsReconcile
  BY DEF Tallied
<1> QED
  BY <1>1, Tallies, PTL

(* Every reachable state has the declared types.                           *)
THEOREM TypeInvariant == Spec => []TypeOK
<1>1. IInv /\ Tallied => TypeOK
  BY DEF IInv, Typed, Tallied, TypeOK
<1> QED
  BY <1>1, Invariance, Tallies, PTL
=============================================================================
