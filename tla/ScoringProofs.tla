--------------------------- MODULE ScoringProofs ---------------------------
(***************************************************************************)
(* What is proved of a run's scoring, for all values of the constants.     *)
(*                                                                         *)
(* The model calls: the breaker is never half-open without a trial that    *)
(* will resolve it, it is shut only on evidence of an outage, and a call   *)
(* never makes more attempts than its two budgets allow.                   *)
(*                                                                         *)
(* The screening: a posting that is decided again is decided otherwise     *)
(* only for a reason its row or the clock gives, and the budget of a run   *)
(* goes to the postings that rank first.                                   *)
(*                                                                         *)
(* The verdict: what is credited is evidenced, the digest's sections mean  *)
(* what they say, and better answers never cost a posting its place.       *)
(***************************************************************************)
EXTENDS ModelTransport, Screening, Verdict, FiniteSetTheorems, WellFoundedInduction, TLAPS

-----------------------------------------------------------------------------
(* Model calls.                                                            *)

(* What every state satisfies before TrialIsOut can be shown: the stages   *)
(* are a function on Calls.                                                *)
StagesOK == pc \in [Calls -> Stage]

Inv == StagesOK /\ TrialIsOut

(* An answer, whoever's it is, leaves the breaker closed or open.          *)
LEMMA AnswersResolve ==
    ASSUME NEW c \in Calls, StagesOK, Answer(c)
    PROVE  StagesOK' /\ (circuit' = "half_open" => FALSE)
  <1> USE DEF StagesOK, Stage, Ended, Goto
  <1>1. CASE AnswerGood(c)
    BY <1>1 DEF AnswerGood, Close
  <1>2. CASE AnswerGarbled(c)
    BY <1>2 DEF AnswerGarbled, Close, CountRepair
  <1>3. CASE AnswerDown(c)
    <2>1. circuit' = "half_open" => FALSE
      BY <1>3 DEF AnswerDown, TransportFailed, Open
    <2>2. StagesOK'
      BY <1>3 DEF AnswerDown, CountTransport
    <2> QED BY <2>1, <2>2
  <1>4. CASE AnswerOdd(c)
    <2>1. circuit' = "half_open" => FALSE
      BY <1>4 DEF AnswerOdd, CallAnswered, Close, breaker
    <2>2. StagesOK'
      BY <1>4 DEF AnswerOdd, CountTransport
    <2> QED BY <2>1, <2>2
  <1>5. CASE AnswerRefused(c)
    BY <1>5 DEF AnswerRefused, CallAnswered, Close, breaker
  <1> QED BY <1>1, <1>2, <1>3, <1>4, <1>5 DEF Answer

(* At the start the breaker is closed.                                     *)
LEMMA Initially == Init => Inv
  BY DEF Init, Inv, StagesOK, TrialIsOut, Stage

(* A step of another call leaves the trial of a half-open breaker alone.   *)
LEMMA Inductive == Inv /\ [Next]_vars => Inv'
  <1> SUFFICES ASSUME Inv, [Next]_vars PROVE Inv'
    OBVIOUS
  <1> USE DEF Inv, StagesOK, TrialIsOut, Stage, Goto
  <1>1. CASE Cooldown
    BY <1>1 DEF Cooldown
  <1>2. ASSUME NEW c \in Calls, Start(c) PROVE Inv'
    BY <1>2 DEF Start, breaker, past
  <1>3. ASSUME NEW c \in Calls, Request(c) PROVE Inv'
    <2>1. CASE circuit = "open"
      BY <1>3, <2>1, NoneAssumption DEF Request
    <2>2. CASE circuit # "open"
      BY <1>3, <2>2 DEF Request, Admits
    <2> QED BY <2>1, <2>2
  <1>4. ASSUME NEW c \in Calls, Refused(c) PROVE Inv'
    BY <1>4 DEF Refused, CountTransport, Ended, breaker, past
  <1>5. ASSUME NEW c \in Calls, Answer(c) PROVE Inv'
    BY <1>5, AnswersResolve
  <1>6. ASSUME NEW c \in Calls, Wake(c) PROVE Inv'
    BY <1>6 DEF Wake, breaker, past
  <1>7. CASE UNCHANGED vars
    BY <1>7 DEF vars, breaker, past
  <1> QED BY <1>1, <1>2, <1>3, <1>4, <1>5, <1>6, <1>7 DEF Next, Step

(* While the breaker is half-open its trial is in flight: nothing can      *)
(* leave it half-open for good (circuit-breaker.ts, the class comment).    *)
THEOREM TrialAlwaysOut == Spec => []TrialIsOut
  <1>1. Inv => TrialIsOut
    BY DEF Inv
  <1> QED BY Initially, Inductive, <1>1, PTL DEF Spec

-----------------------------------------------------------------------------
(* The budget of one call.  Every attempt either is still to be answered,  *)
(* ended the call, or was charged to one of the two budgets; while the     *)
(* call goes on neither is used up.                                        *)
Uncharged(c) == IF pc[c] \in {"inFlight", "ok", "permanent_error"} THEN 1 ELSE 0

Budgeted ==
    /\ pc \in [Calls -> Stage]
    /\ transport \in [Calls -> Nat]
    /\ repair \in [Calls -> Nat]
    /\ attempts \in [Calls -> Nat]
    /\ \A c \in Calls :
        /\ attempts[c] = transport[c] + repair[c] + Uncharged(c)
        /\ pc[c] # "transport_failed" => transport[c] < MaxTransportAttempts
        /\ pc[c] # "invalid_output" => repair[c] < MaxRepairAttempts
        /\ transport[c] <= MaxTransportAttempts
        /\ repair[c] <= MaxRepairAttempts

(* At the start no call has used anything.                                 *)
LEMMA BudgetedInitially == Init => Budgeted
  BY BudgetAssumption DEF Init, Budgeted, Uncharged, Stage

(* Charging an attempt to the transport budget, which was not used up.     *)
LEMMA ChargeTransport ==
    ASSUME Budgeted, NEW c \in Calls, CountTransport(c), pc[c] \in {"asking", "inFlight"},
           attempts' = [attempts EXCEPT ![c] = IF pc[c] = "asking" THEN @ + 1 ELSE @]
    PROVE  Budgeted'
  BY BudgetAssumption
     DEF Budgeted, CountTransport, LastTransport, Goto, Uncharged, Stage, Ended

(* Every step keeps the three counters of every call in line.              *)
LEMMA BudgetedInductive == Budgeted /\ [Next]_vars => Budgeted'
  <1> SUFFICES ASSUME Budgeted, [Next]_vars PROVE Budgeted'
    OBVIOUS
  <1>1. CASE Cooldown
    BY <1>1 DEF Cooldown, budgets, Budgeted, Uncharged
  <1>2. ASSUME NEW c \in Calls, Start(c) PROVE Budgeted'
    BY <1>2 DEF Start, budgets, Budgeted, Uncharged, Goto, Stage
  <1>3. ASSUME NEW c \in Calls, Request(c) PROVE Budgeted'
    BY <1>3 DEF Request, Attempt, Budgeted, Uncharged, Goto, Stage
  <1>4. ASSUME NEW c \in Calls, Refused(c) PROVE Budgeted'
    BY <1>4, ChargeTransport DEF Refused, Attempt
  <1>5. ASSUME NEW c \in Calls, Answer(c) PROVE Budgeted'
    <2>1. CASE AnswerGood(c)
      BY <2>1 DEF AnswerGood, budgets, Budgeted, Uncharged, Goto, Stage, Ended
    <2>2. CASE AnswerGarbled(c)
      BY <2>2, BudgetAssumption
         DEF AnswerGarbled, CountRepair, Budgeted, Uncharged, Goto, Stage, Ended
    <2>3. CASE AnswerDown(c)
      <3>1. CountTransport(c) /\ pc[c] = "inFlight" /\ attempts' = attempts
        BY <2>3 DEF AnswerDown
      <3>2. attempts' = [attempts EXCEPT ![c] = IF pc[c] = "asking" THEN @ + 1 ELSE @]
        BY <3>1 DEF Budgeted
      <3> QED BY <3>1, <3>2, ChargeTransport
    <2>4. CASE AnswerOdd(c)
      <3>1. CountTransport(c) /\ pc[c] = "inFlight" /\ attempts' = attempts
        BY <2>4 DEF AnswerOdd
      <3>2. attempts' = [attempts EXCEPT ![c] = IF pc[c] = "asking" THEN @ + 1 ELSE @]
        BY <3>1 DEF Budgeted
      <3> QED BY <3>1, <3>2, ChargeTransport
    <2>5. CASE AnswerRefused(c)
      BY <2>5 DEF AnswerRefused, budgets, Budgeted, Uncharged, Goto, Stage, Ended
    <2> QED BY <1>5, <2>1, <2>2, <2>3, <2>4, <2>5 DEF Answer
  <1>6. ASSUME NEW c \in Calls, Wake(c) PROVE Budgeted'
    BY <1>6 DEF Wake, budgets, Budgeted, Uncharged, Goto, Stage
  <1>7. CASE UNCHANGED vars
    BY <1>7 DEF vars, budgets, Budgeted, Uncharged
  <1> QED BY <1>1, <1>2, <1>3, <1>4, <1>5, <1>6, <1>7 DEF Next, Step

(* llm-output.ts: the attempts of a call are bounded by its two budgets    *)
(* together, whatever the breaker and the other calls do.                  *)
THEOREM AttemptsAreBounded == Spec => []AttemptsBounded
  <1>1. Budgeted => AttemptsBounded
    <2> SUFFICES ASSUME Budgeted, NEW c \in Calls
                 PROVE  attempts[c] <= MaxTransportAttempts + MaxRepairAttempts - 1
      BY DEF AttemptsBounded
    <2>1. /\ attempts[c] = transport[c] + repair[c] + Uncharged(c)
          /\ transport[c] \in Nat /\ repair[c] \in Nat
          /\ transport[c] <= MaxTransportAttempts /\ repair[c] <= MaxRepairAttempts
          /\ pc[c] # "transport_failed" => transport[c] < MaxTransportAttempts
          /\ pc[c] # "invalid_output" => repair[c] < MaxRepairAttempts
      BY DEF Budgeted
    <2>2. CASE pc[c] = "transport_failed" \/ pc[c] = "invalid_output"
      BY <2>1, <2>2, BudgetAssumption DEF Uncharged
    <2>3. CASE pc[c] # "transport_failed" /\ pc[c] # "invalid_output"
      BY <2>1, <2>3, BudgetAssumption DEF Uncharged
    <2> QED BY <2>2, <2>3
  <1> QED BY BudgetedInitially, BudgetedInductive, <1>1, PTL DEF Spec

-----------------------------------------------------------------------------
(* The evidence: while the circuit is closed the breaker's own count never *)
(* exceeds the signs of an outage, and stays short of the threshold; once  *)
(* it is not, they have reached the threshold.                             *)
OutageEvidence ==
    /\ circuit \in {"closed", "open", "half_open"}
    /\ streak \in Nat
    /\ cooled \in BOOLEAN
    /\ downs \in 0..FailureThreshold
    /\ trial \in Calls \cup {None}
    /\ circuit = "closed" => streak <= downs /\ streak < FailureThreshold
    /\ circuit # "closed" => downs = FailureThreshold

(* At the start there are no signs and the count is zero.                  *)
LEMMA EvidenceInitially == Init => OutageEvidence
  <1>1. FailureThreshold \in Nat /\ 0 < FailureThreshold
    BY BudgetAssumption
  <1>2. 0 \in 0..FailureThreshold
    BY <1>1
  <1>3. SUFFICES ASSUME Init PROVE OutageEvidence
    OBVIOUS
  <1>4. /\ circuit = "closed" /\ streak = 0 /\ cooled = FALSE
        /\ downs = 0 /\ trial = None
    BY <1>3 DEF Init
  <1>5. streak \in Nat /\ streak <= downs /\ streak < FailureThreshold
    BY <1>1, <1>4
  <1>6. downs \in 0..FailureThreshold
    BY <1>2, <1>4
  <1> QED BY <1>4, <1>5, <1>6 DEF OutageEvidence

(* An outage adds to both; whatever clears the signs clears the count.     *)
LEMMA EvidenceInductive == OutageEvidence /\ [Next]_vars => OutageEvidence'
  <1> SUFFICES ASSUME OutageEvidence, [Next]_vars PROVE OutageEvidence'
    OBVIOUS
  <1> USE BudgetAssumption DEF OutageEvidence
  <1>1. CASE Cooldown
    BY <1>1 DEF Cooldown, past
  <1>2. ASSUME NEW c \in Calls, Start(c) PROVE OutageEvidence'
    BY <1>2 DEF Start, breaker, past
  <1>3. ASSUME NEW c \in Calls, Request(c) PROVE OutageEvidence'
    BY <1>3 DEF Request, Admits
  <1>4. ASSUME NEW c \in Calls, Refused(c) PROVE OutageEvidence'
    BY <1>4 DEF Refused, breaker, past
  <1>5. ASSUME NEW c \in Calls, Answer(c) PROVE OutageEvidence'
    <2>1. CASE AnswerGood(c)
      BY <2>1 DEF AnswerGood, Close
    <2>2. CASE AnswerGarbled(c)
      BY <2>2 DEF AnswerGarbled, Close
    <2>3. CASE AnswerDown(c)
      <3>1. /\ TransportFailed
            /\ trial' = trial
            /\ downs' = IF downs < FailureThreshold THEN downs + 1 ELSE downs
        BY <2>3 DEF AnswerDown
      <3>2. downs' \in 0..FailureThreshold
        BY <3>1
      <3>3. CASE circuit = "half_open"
        <4>1. downs' = FailureThreshold
          BY <3>1, <3>3
        <4> QED BY <3>1, <3>2, <3>3, <4>1 DEF TransportFailed, Open
      <3>4. CASE circuit = "open"
        <4>1. downs' = FailureThreshold
          BY <3>1, <3>4
        <4>2. streak' = streak + 1
          BY <3>1, <3>4 DEF TransportFailed
        <4>3. circuit' = "open" /\ cooled' \in BOOLEAN
          <5>1. CASE streak' >= FailureThreshold
            BY <3>1, <3>4, <5>1 DEF TransportFailed, Open
          <5>2. CASE ~(streak' >= FailureThreshold)
            BY <3>1, <3>4, <5>2 DEF TransportFailed
          <5> QED BY <5>1, <5>2
        <4>4. streak' \in Nat
          BY <4>2
        <4> QED BY <3>1, <3>2, <4>1, <4>3, <4>4
      <3>5. CASE circuit = "closed"
        <4>1. streak' = streak + 1 /\ streak <= downs /\ streak < FailureThreshold
          BY <3>1, <3>5 DEF TransportFailed
        <4>2. CASE streak' >= FailureThreshold
          <5>1. downs' = FailureThreshold
            BY <3>1, <4>1, <4>2
          <5>2. circuit' = "open" /\ cooled' = FALSE
            BY <3>1, <3>5, <4>2 DEF TransportFailed, Open
          <5>3. streak' \in Nat
            BY <4>1
          <5>4. trial' \in Calls \cup {None}
            BY <3>1
          <5> QED BY <3>2, <5>1, <5>2, <5>3, <5>4
        <4>3. CASE ~(streak' >= FailureThreshold)
          <5>1. circuit' = "closed" /\ cooled' = cooled
            BY <3>1, <3>5, <4>3 DEF TransportFailed
          <5>2. streak' <= downs' /\ streak' < FailureThreshold /\ streak' \in Nat
            BY <3>1, <4>1, <4>3
          <5> QED BY <3>1, <3>2, <5>1, <5>2
        <4> QED BY <4>2, <4>3
      <3> QED BY <3>3, <3>4, <3>5
    <2>4. CASE AnswerOdd(c)
      BY <2>4 DEF AnswerOdd, CallAnswered, Close, breaker
    <2>5. CASE AnswerRefused(c)
      BY <2>5 DEF AnswerRefused, CallAnswered, Close, breaker
    <2> QED BY <1>5, <2>1, <2>2, <2>3, <2>4, <2>5 DEF Answer
  <1>6. ASSUME NEW c \in Calls, Wake(c) PROVE OutageEvidence'
    BY <1>6 DEF Wake, breaker, past
  <1>7. CASE UNCHANGED vars
    BY <1>7 DEF vars, breaker, past
  <1> QED BY <1>1, <1>2, <1>3, <1>4, <1>5, <1>6, <1>7 DEF Next, Step

(* isBreakerTrippingFailure: the circuit is shut only after as many signs  *)
(* of an outage as the threshold says, with no good answer in between, in  *)
(* whatever order concurrent calls are answered.                           *)
THEOREM ShutOnlyOnEvidence == Spec => []ShutOnEvidence
  <1>1. OutageEvidence => ShutOnEvidence
    BY DEF OutageEvidence, ShutOnEvidence
  <1> QED BY EvidenceInitially, EvidenceInductive, <1>1, PTL DEF Spec

(* Both together: the breaker neither sticks nor shuts without a reason.   *)
THEOREM BreakerIsSound == Spec => []BreakerSound
  <1>1. TrialIsOut /\ ShutOnEvidence => BreakerSound
    BY DEF BreakerSound
  <1> QED BY TrialAlwaysOut, ShutOnlyOnEvidence, <1>1, PTL

(* Every reachable state has the declared types.                           *)
THEOREM TypeInvariant == Spec => []TypeOK
  <1>1. Budgeted /\ OutageEvidence => TypeOK
    BY BudgetAssumption DEF Budgeted, OutageEvidence, TypeOK
  <1> QED
    BY BudgetedInitially, BudgetedInductive, EvidenceInitially, EvidenceInductive,
       <1>1, PTL DEF Spec

-----------------------------------------------------------------------------
(* The least of some natural numbers is one of them.                       *)
LEMMA LeastOfNaturals ==
  ASSUME NEW S \in SUBSET Nat, S # {}
  PROVE  Min(S) \in S /\ \A x \in S : Min(S) <= x
<1> DEFINE R == OpToRel(<, Nat)
<1>1. IsWellFoundedOn(R, Nat)
  BY NatLessThanWellFounded
<1>2. PICK t \in S : \A u \in S : ~(<<u, t>> \in R)
  BY <1>1, WFMin
<1>3. \A u \in S : ~(u < t)
  BY <1>2 DEF OpToRel
<1>4. \A u \in S : t <= u
  BY <1>3
<1> QED
  BY <1>4 DEF Min

-----------------------------------------------------------------------------
(* Screening.                                                              *)

(* The rule that decides is the first that rejects.                        *)
LEMMA FirstThatRejects ==
  ASSUME NEW r, NEW c, NEW at
  PROVE  \/ /\ ApplyPreFilter(r, c, at) = "passed"
            /\ \A i \in 1..8 : ~Rejects(Reasons[i], r, c, at)
         \/ \E k \in 1..8 : /\ ApplyPreFilter(r, c, at) = Reasons[k]
                            /\ Rejects(Reasons[k], r, c, at)
                            /\ \A j \in 1..8 : j < k => ~Rejects(Reasons[j], r, c, at)
<1> DEFINE failing == {i \in DOMAIN Reasons : Rejects(Reasons[i], r, c, at)}
<1>1. DOMAIN Reasons = 1..8
  BY DEF Reasons
<1>2. CASE failing = {}
  BY <1>1, <1>2 DEF ApplyPreFilter
<1>3. CASE failing # {}
  <2>1. failing \in SUBSET Nat
    BY <1>1
  <2>2. Min(failing) \in failing /\ \A x \in failing : Min(failing) <= x
    BY <1>3, <2>1, LeastOfNaturals
  <2>3. ApplyPreFilter(r, c, at) = Reasons[Min(failing)]
    BY <1>3 DEF ApplyPreFilter
  <2>4. \A j \in 1..8 : j < Min(failing) => j \notin failing
    BY <2>1, <2>2
  <2> QED
    BY <1>1, <2>2, <2>3, <2>4
<1> QED
  BY <1>2, <1>3

(* The first four rules look at nothing but the title and the company.     *)
LEMMA TitleRulesAgree ==
  ASSUME NEW r, NEW s, NEW c, NEW at, NEW atS, r.title = s.title, r.company = s.company
  PROVE  \A i \in 1..4 : Rejects(Reasons[i], r, c, at) <=> Rejects(Reasons[i], s, c, atS)
BY DEF Rejects, Reasons

LEMMA ReasonNames ==
  /\ Reasons[1] = "title_blocked" /\ Reasons[2] = "title_missing_required_term"
  /\ Reasons[3] = "track_unknown" /\ Reasons[4] = "company_blocked"
  /\ Reasons[5] = "expired" /\ Reasons[6] = "too_old"
  /\ Reasons[7] = "location_not_allowed" /\ Reasons[8] = "insufficient_keyword_adherence"
BY DEF Reasons

LEMMA TitleDecides ==
  ASSUME NEW r, NEW s, NEW c, NEW at, NEW atS, r.title = s.title, r.company = s.company,
         ApplyPreFilter(r, c, at) \in ByTitle
  PROVE  ApplyPreFilter(s, c, atS) = ApplyPreFilter(r, c, at)
<1>1. PICK k \in 1..8 : /\ ApplyPreFilter(r, c, at) = Reasons[k]
                        /\ Rejects(Reasons[k], r, c, at)
                        /\ \A j \in 1..8 : j < k => ~Rejects(Reasons[j], r, c, at)
  BY FirstThatRejects DEF ByTitle
<1>2. k \in 1..4
  BY <1>1, ReasonNames DEF ByTitle
<1>3. Rejects(Reasons[k], s, c, atS)
  BY <1>1, <1>2, TitleRulesAgree
<1>4. PICK n \in 1..8 : /\ ApplyPreFilter(s, c, atS) = Reasons[n]
                        /\ Rejects(Reasons[n], s, c, atS)
                        /\ \A j \in 1..8 : j < n => ~Rejects(Reasons[j], s, c, atS)
  BY <1>3, FirstThatRejects
<1>5. n <= k
  BY <1>3, <1>4
<1>6. n \in 1..4
  BY <1>2, <1>5
<1>7. Rejects(Reasons[n], r, c, at)
  BY <1>4, <1>6, TitleRulesAgree
<1>8. k <= n
  BY <1>1, <1>7
<1> QED
  BY <1>1, <1>4, <1>5, <1>8

(* What an outcome says of the rules.                                      *)
LEMMA OutcomeMeans ==
  ASSUME NEW r, NEW c, NEW at, NEW o, o = ApplyPreFilter(r, c, at)
  PROVE  /\ o \in ByTitle \cup {"expired", "too_old", "location_not_allowed",
                               "insufficient_keyword_adherence", "passed"}
         /\ o = "expired" => IsExpired(r, at)
         /\ o \notin ByTitle \cup {"expired"} => ~IsExpired(r, at)
         /\ o = "too_old" => IsTooOld(r, c, at)
         /\ o \notin ByTitle \cup {"expired", "too_old"} => ~IsTooOld(r, c, at)
         /\ o = "passed" => IsLocationAllowed(r, c) /\ HasMinKeywordAdherence(r, c)
         /\ o = "location_not_allowed" => ~IsLocationAllowed(r, c)
         /\ o = "insufficient_keyword_adherence" => ~HasMinKeywordAdherence(r, c)
<1>1. /\ Rejects("expired", r, c, at) <=> IsExpired(r, at)
      /\ Rejects("too_old", r, c, at) <=> IsTooOld(r, c, at)
      /\ Rejects("location_not_allowed", r, c, at) <=> ~IsLocationAllowed(r, c)
      /\ Rejects("insufficient_keyword_adherence", r, c, at) <=> ~HasMinKeywordAdherence(r, c)
  BY DEF Rejects
<1>2. CASE o = "passed" /\ \A i \in 1..8 : ~Rejects(Reasons[i], r, c, at)
  BY <1>1, <1>2, ReasonNames
<1>3. ASSUME NEW k \in 1..8, o = Reasons[k], Rejects(Reasons[k], r, c, at),
             \A j \in 1..8 : j < k => ~Rejects(Reasons[j], r, c, at)
      PROVE  /\ o \in ByTitle \cup {"expired", "too_old", "location_not_allowed",
                                   "insufficient_keyword_adherence"}
             /\ o = "expired" => Rejects("expired", r, c, at)
             /\ o \notin ByTitle \cup {"expired"} => ~Rejects("expired", r, c, at)
             /\ o = "too_old" => Rejects("too_old", r, c, at)
             /\ o \notin ByTitle \cup {"expired", "too_old"} => ~Rejects("too_old", r, c, at)
             /\ o = "location_not_allowed" => Rejects("location_not_allowed", r, c, at)
             /\ o = "insufficient_keyword_adherence" =>
                   Rejects("insufficient_keyword_adherence", r, c, at)
  <2>1. k <= 4 => o \in ByTitle
    BY <1>3, ReasonNames DEF ByTitle
  <2>2. k = 5 => o = "expired"
    BY <1>3, ReasonNames
  <2>3. k = 6 => o = "too_old" /\ ~Rejects("expired", r, c, at)
    BY <1>3, ReasonNames
  <2>4. k \in {7, 8} => /\ o \in {"location_not_allowed", "insufficient_keyword_adherence"}
                        /\ ~Rejects("expired", r, c, at) /\ ~Rejects("too_old", r, c, at)
    BY <1>3, ReasonNames
  <2>5. k <= 4 \/ k = 5 \/ k = 6 \/ k \in {7, 8}
    OBVIOUS
  <2> QED
    BY <1>3, <2>1, <2>2, <2>3, <2>4, <2>5
<1>4. ASSUME NEW k \in 1..8, o = Reasons[k], Rejects(Reasons[k], r, c, at),
             \A j \in 1..8 : j < k => ~Rejects(Reasons[j], r, c, at)
      PROVE  o # "passed"
  BY <1>4, ReasonNames
<1> QED
  BY <1>1, <1>2, <1>3, <1>4, FirstThatRejects

-----------------------------------------------------------------------------
(* A later decision about a row that was sighted since, or was not.        *)

Judged(outcome, r, at) ==
    \/ outcome = ApplyPreFilter(r, criteria, at)
    \/ outcome = "deferred" /\ ApplyPreFilter(r, criteria, at) = "passed"

SamePosting(r, s) == r.company = s.company /\ r.city = s.city

(* Row s is what row r, judged at the instant at, became.                  *)
Became(r, at, s) ==
    /\ SamePosting(r, s)
    /\ r.deadline # Unstated => s.deadline # Unstated
    /\ r = s \/ s.last >= at

LEMMA TypedCriteria ==
  ASSUME criteria \in AllCriteria
  PROVE  /\ criteria.maxAge \in OrUnstated(Int)
         /\ criteria.stillListedWithin \in OrUnstated(Int)
         /\ criteria.stillListedMaxAge \in OrUnstated(Int)
         /\ criteria.undatedCutover \in OrUnstated(Int)
         /\ criteria.maxInternationalPerRun \in OrUnstated(Int)
         /\ criteria.maxFutureSkew \in Int
BY CriteriaAssumption

(* A row that nothing brought up to date does not get younger.             *)
LEMMA StaysTooOld ==
  ASSUME criteria \in AllCriteria, NEW r \in Row, NEW at \in Nat, NEW later \in Nat, at <= later,
         r.last < at, ~ImplausiblyFuture(r, criteria, at), IsTooOld(r, criteria, at)
  PROVE  IsTooOld(r, criteria, later)
<1> DEFINE c == criteria
<1>0. /\ r.first \in Nat /\ r.last \in Nat /\ r.publishedAt \in OrUnstated(Int)
      /\ Unstated \notin Int
  BY StatementsAssumption DEF Row
<1>1. ~ImplausiblyFuture(r, c, later)
  BY <1>0, TypedCriteria DEF ImplausiblyFuture, OrUnstated
<1>2. Dated(r) \in Int
  BY <1>0 DEF Dated, OrUnstated
<1>3. AgeOf(r, c, at) = at - Dated(r) /\ AgeOf(r, c, later) = later - Dated(r)
  BY <1>1 DEF AgeOf
<1>4. /\ AgeOf(r, c, at) \in Int /\ AgeOf(r, c, later) \in Int
      /\ AgeOf(r, c, at) <= AgeOf(r, c, later)
  BY <1>2, <1>3
<1>5. IsStillListedBySource(r, c, later) => IsStillListedBySource(r, c, at)
  BY <1>0, TypedCriteria DEF IsStillListedBySource, OrUnstated
<1>6. Rescued(r, c, later) => Rescued(r, c, at)
  <2>1. c.stillListedMaxAge \in OrUnstated(Int)
    BY TypedCriteria
  <2>2. c.stillListedMaxAge # Unstated /\ AgeOf(r, c, later) <= c.stillListedMaxAge
          => AgeOf(r, c, at) <= c.stillListedMaxAge
    BY <1>4, <2>1 DEF OrUnstated
  <2> QED
    BY <1>5, <2>2 DEF Rescued
<1>7. c.maxAge # Unstated /\ AgeOf(r, c, at) > c.maxAge => AgeOf(r, c, later) > c.maxAge
  <2>1. c.maxAge \in OrUnstated(Int)
    BY TypedCriteria
  <2> QED
    BY <1>4, <2>1 DEF OrUnstated
<1> QED
  BY <1>6, <1>7 DEF IsTooOld

LEMMA DecisionsFollow ==
  ASSUME criteria \in AllCriteria, NEW r \in Row, NEW s \in Row,
         NEW at \in Nat, NEW later \in Nat, at <= later, Became(r, at, s),
         NEW o, NEW n, Judged(o, r, at), Judged(n, s, later)
  PROVE  Follows([outcome |-> o, at |-> at, by |-> r], [outcome |-> n, at |-> later, by |-> s])
<1> DEFINE before == [outcome |-> o, at |-> at, by |-> r]
           after == [outcome |-> n, at |-> later, by |-> s]
           oo == ApplyPreFilter(r, criteria, at)
           nn == ApplyPreFilter(s, criteria, later)
<1>0. SUFFICES ASSUME r.title = s.title
               PROVE  Follows(before, after)
  BY DEF Follows
<1>1. /\ o = oo \/ (o = "deferred" /\ oo = "passed")
      /\ n = nn \/ (n = "deferred" /\ nn = "passed")
  BY DEF Judged
<1>2. SamePosting(r, s) /\ SamePosting(s, r)
  BY DEF Became, SamePosting
<1>3. oo \in ByTitle => nn = oo
  BY <1>0, <1>2, TitleDecides DEF SamePosting
<1>4. nn \in ByTitle => oo = nn
  BY <1>0, <1>2, TitleDecides DEF SamePosting
<1> HIDE DEF oo, nn
<1>5. CASE o \in ByTitle
  <2>1. o = oo /\ n = o
    BY <1>1, <1>3, <1>5 DEF ByTitle
  <2> QED
    BY <1>5, <2>1 DEF Follows, ByTitle, Passed
<1>6. CASE o = "expired"
  <2>1. oo = "expired"
    BY <1>1, <1>6
  <2>2. nn \notin ByTitle
    BY <1>4, <2>1 DEF ByTitle
  <2>3. IsExpired(r, at)
    BY <2>1, OutcomeMeans DEF oo
  <2>4. nn # "expired" => ~IsExpired(s, later)
    BY <2>2, OutcomeMeans DEF nn
  <2>5. s.deadline # Unstated
    BY <2>3 DEF IsExpired, Became
  <2>6. ClosesAt(r.deadline) \in Int /\ ClosesAt(s.deadline) \in Int
    <3>1. r.deadline \in Int /\ s.deadline \in Int
      BY <2>3, <2>5 DEF Row, OrUnstated, IsExpired
    <3>2. DayLen \in Int
      BY CriteriaAssumption
    <3> QED
      BY <3>1, <3>2 DEF ClosesAt
  <2>7. nn # "expired" => ClosesAt(s.deadline) > ClosesAt(r.deadline)
    BY <2>3, <2>4, <2>5, <2>6 DEF IsExpired
  <2>8. nn = "expired" => n = "expired"
    BY <1>1
  <2>9. n = "expired" \/ (s.deadline # Unstated /\ ClosesAt(s.deadline) > ClosesAt(r.deadline))
    BY <2>5, <2>7, <2>8
  <2> HIDE DEF ClosesAt
  <2> QED
    BY <1>6, <2>9 DEF Follows, ByTitle, Passed
<1>7. CASE o = "too_old"
  <2>1. oo = "too_old"
    BY <1>1, <1>7
  <2>2. nn \notin ByTitle
    BY <1>4, <2>1 DEF ByTitle
  <2>3. IsTooOld(r, criteria, at)
    BY <2>1, OutcomeMeans DEF oo
  <2>4. nn \notin {"expired", "too_old"} => ~IsTooOld(s, criteria, later)
    BY <2>2, OutcomeMeans DEF nn
  <2>5. nn \in {"expired", "too_old"} => n = nn
    BY <1>1
  <2>6. ASSUME nn \notin {"expired", "too_old"}, ~(s.last >= at), ~ImplausiblyFuture(r, criteria, at)
        PROVE  FALSE
    <3>1. r = s
      BY <2>6 DEF Became
    <3>2. r.last < at
      BY <2>6, <3>1 DEF Row
    <3> QED
      BY <2>3, <2>4, <2>6, <3>1, <3>2, StaysTooOld
  <2>7. \/ n \in {"expired", "too_old"}
        \/ s.last >= at
        \/ ImplausiblyFuture(r, criteria, at)
    BY <2>5, <2>6
  <2> QED
    BY <1>7, <2>7 DEF Follows, ByTitle, Passed
<1>8. CASE o \in Passed
  <2>1. oo = "passed"
    <3>1. oo # "deferred"
      BY OutcomeMeans DEF oo, ByTitle
    <3> QED
      BY <1>1, <1>8, <3>1 DEF Passed
  <2>2. nn \notin ByTitle
    BY <1>4, <2>1 DEF ByTitle
  <2>3. IsLocationAllowed(r, criteria) /\ HasMinKeywordAdherence(r, criteria)
    BY <2>1, OutcomeMeans DEF oo
  <2>4. ASSUME n \notin Passed \cup {"expired", "too_old"},
               <<r.source, r.workMode>> = <<s.source, s.workMode>>
        PROVE  FALSE
    <3>1. nn \notin {"passed", "expired", "too_old"} /\ n = nn
      BY <1>1, <2>4 DEF Passed
    <3>2. nn \in {"location_not_allowed", "insufficient_keyword_adherence"}
      BY <2>2, <3>1, OutcomeMeans DEF nn
    <3>3. r.source = s.source /\ r.workMode = s.workMode /\ r.city = s.city /\ r.title = s.title
      BY <1>0, <1>2, <2>4 DEF SamePosting
    <3>4. IsLocationAllowed(s, criteria)
      BY <2>3, <3>3 DEF IsLocationAllowed
    <3>5. HasMinKeywordAdherence(s, criteria)
      BY <2>3, <3>3 DEF HasMinKeywordAdherence
    <3> QED
      BY <3>2, <3>4, <3>5, OutcomeMeans DEF nn
  <2> QED
    BY <1>8, <2>4 DEF Follows, ByTitle, Passed
<1>9. CASE o \notin ByTitle \cup {"expired", "too_old"} \cup Passed
  BY <1>9 DEF Follows
<1> QED
  BY <1>5, <1>6, <1>7, <1>8, <1>9

-----------------------------------------------------------------------------
(* The row of p is what its sources state of p.                            *)
RowOf(p) ==
    row[p] # Unstated => /\ row[p] \in Row
                         /\ row[p].last <= now
                         /\ \A f \in Statements[p] : SamePosting(f, row[p])

(* The last decision about p was made of what the row was then.            *)
DecidedOf(p) ==
    decision[p] # Undecided =>
      /\ row[p] \in Row
      /\ decision[p].at \in Nat /\ decision[p].at <= now
      /\ startedAt # Unstated => decision[p].at <= startedAt
      /\ decision[p].by \in Row
      /\ Judged(decision[p].outcome, decision[p].by, decision[p].at)
      /\ Became(decision[p].by, decision[p].at, row[p])
      /\ decision[p] = [outcome |-> decision[p].outcome, at |-> decision[p].at, by |-> decision[p].by]

ScreenTyped ==
    /\ criteria \in AllCriteria /\ CriteriaSchema(criteria)
    /\ now \in Nat
    /\ startedAt \in OrUnstated(Nat)
    /\ startedAt # Unstated => startedAt <= now
    /\ DOMAIN row = Screened /\ DOMAIN decision = Screened
    /\ \A p \in Screened : RowOf(p) /\ DecidedOf(p)

LEMMA StoredIsRow ==
  ASSUME NEW f \in Statement, NEW says, says.deadline \in OrUnstated(Int),
         says.publishedAt \in OrUnstated(Int), says.country \in OrUnstated(STRING),
         NEW first \in Nat, now \in Nat
  PROVE  Stored(f, says, first) \in Row
BY DEF Stored, Row, Statement

LEMMA SightKeepsTyped ==
  ASSUME ScreenTyped, NEW p \in Screened, NEW f \in Statements[p], Sight(p, f)
  PROVE  ScreenTyped'
<1>1. f \in Statement
  BY StatementsAssumption
<1>2. /\ UNCHANGED <<criteria, now, startedAt, decision>>
      /\ row' = [row EXCEPT ![p] = IF row[p] = Unstated THEN Stored(f, f, now)
                                   ELSE Stored(f, Coalesced(row[p], f), row[p].first)]
  BY DEF Sight
<1>3. DOMAIN row' = Screened /\ \A q \in Screened \ {p} : row'[q] = row[q]
  BY <1>2 DEF ScreenTyped
<1>4. row'[p] = IF row[p] = Unstated THEN Stored(f, f, now)
                ELSE Stored(f, Coalesced(row[p], f), row[p].first)
  BY <1>2 DEF ScreenTyped
<1>5. RowOf(p) /\ DecidedOf(p)
  BY DEF ScreenTyped
<1>6. row'[p] \in Row
  <2>1. CASE row[p] = Unstated
    BY <1>1, <1>4, <2>1, StoredIsRow DEF ScreenTyped, Statement
  <2>2. CASE row[p] # Unstated
    <3>1. row[p] \in Row
      BY <1>5, <2>2 DEF RowOf
    <3>2. /\ Coalesced(row[p], f).deadline \in OrUnstated(Int)
          /\ Coalesced(row[p], f).publishedAt \in OrUnstated(Int)
          /\ Coalesced(row[p], f).country \in OrUnstated(STRING)
      BY <1>1, <3>1 DEF Coalesced, Row, Statement
    <3>3. row[p].first \in Nat
      BY <3>1 DEF Row
    <3> QED
      BY <1>1, <1>4, <2>2, <3>2, <3>3, StoredIsRow DEF ScreenTyped
  <2> QED
    BY <2>1, <2>2
<1>7. row'[p].last = now /\ SamePosting(f, row'[p])
  BY <1>4 DEF Stored, SamePosting
<1>8. \A g \in Statements[p] : SamePosting(g, row'[p])
  BY <1>7, StatementsAssumption DEF SamePosting
<1>9. RowOf(p)'
  BY <1>2, <1>6, <1>7, <1>8 DEF RowOf, ScreenTyped, SamePosting
<1>10. ASSUME decision[p] # Undecided
       PROVE  Became(decision[p].by, decision[p].at, row'[p])
  <2>1. row[p] # Unstated /\ row[p] \in Row
    BY <1>5, <1>10, StatementsAssumption DEF DecidedOf
  <2>2. SamePosting(f, row[p]) /\ SamePosting(decision[p].by, row[p])
    BY <1>5, <1>10, <2>1 DEF RowOf, DecidedOf, Became
  <2>3. SamePosting(decision[p].by, row'[p])
    BY <1>7, <2>2 DEF SamePosting
  <2>4. row'[p].last >= decision[p].at
    BY <1>5, <1>7, <1>10 DEF DecidedOf, ScreenTyped
  <2>5. row[p].deadline # Unstated => row'[p].deadline # Unstated
    BY <1>4, <2>1 DEF Stored, Coalesced
  <2>6. decision[p].by.deadline # Unstated => row[p].deadline # Unstated
    BY <1>5, <1>10 DEF DecidedOf, Became
  <2> QED
    BY <2>3, <2>4, <2>5, <2>6 DEF Became
<1>11. DecidedOf(p)'
  BY <1>2, <1>5, <1>6, <1>10 DEF DecidedOf, Judged, Became, SamePosting
<1>12. \A q \in Screened \ {p} : RowOf(q)' /\ DecidedOf(q)'
  BY <1>2, <1>3 DEF ScreenTyped, RowOf, DecidedOf, Judged, Became, SamePosting
<1> QED
  BY <1>2, <1>3, <1>9, <1>11, <1>12 DEF ScreenTyped, CriteriaSchema, AgeBounds, TrackTables, PositiveOrNull

-----------------------------------------------------------------------------
(* What a run decides.                                                     *)
Claimed == {p \in Screened : row[p] # Unstated}
Passing == {p \in Claimed : ApplyPreFilter(row[p], criteria, startedAt) = "passed"}
Admission(national, abroad) == national \o AdmittedInternational(abroad)

ScreenedAs(ranked, national, abroad) ==
    /\ ranked \in RankForScoring(Passing, startedAt)
    /\ national \in PartitionByOrigin(ranked, TRUE)
    /\ abroad \in PartitionByOrigin(ranked, FALSE)
    /\ batch' = Admission(national, abroad)
    /\ decision' = [p \in Screened |->
         IF p \in Claimed
         THEN [outcome |-> IF p \in Range(ranked) \ Range(batch') THEN "deferred"
                           ELSE ApplyPreFilter(row[p], criteria, startedAt),
               at |-> startedAt, by |-> row[p]]
         ELSE decision[p]]

LEMMA ScreenUnfolds ==
  ASSUME Screen
  PROVE  \E ranked, national, abroad : ScreenedAs(ranked, national, abroad)
<1> DEFINE outcome == [p \in Claimed |-> ApplyPreFilter(row[p], criteria, startedAt)]
<1>1. {p \in Claimed : outcome[p] = "passed"} = Passing
  BY DEF Passing
<1>2. \E ranked \in RankForScoring({p \in Claimed : outcome[p] = "passed"}, startedAt) :
        \E national \in PartitionByOrigin(ranked, TRUE), abroad \in PartitionByOrigin(ranked, FALSE) :
           /\ batch' = Admission(national, abroad)
           /\ decision' = [p \in Screened |->
                IF p \in Claimed
                THEN [outcome |-> IF p \in Range(ranked) \ Range(Admission(national, abroad))
                                  THEN "deferred" ELSE outcome[p],
                      at |-> startedAt, by |-> row[p]]
                ELSE decision[p]]
  BY DEF Screen, Claimed, Admission
<1>3. PICK ranked \in RankForScoring(Passing, startedAt) :
         \E national \in PartitionByOrigin(ranked, TRUE), abroad \in PartitionByOrigin(ranked, FALSE) :
           /\ batch' = Admission(national, abroad)
           /\ decision' = [p \in Screened |->
                IF p \in Claimed
                THEN [outcome |-> IF p \in Range(ranked) \ Range(Admission(national, abroad))
                                  THEN "deferred" ELSE outcome[p],
                      at |-> startedAt, by |-> row[p]]
                ELSE decision[p]]
  BY <1>1, <1>2
<1>4. PICK national \in PartitionByOrigin(ranked, TRUE), abroad \in PartitionByOrigin(ranked, FALSE) :
           /\ batch' = Admission(national, abroad)
           /\ decision' = [p \in Screened |->
                IF p \in Claimed
                THEN [outcome |-> IF p \in Range(ranked) \ Range(Admission(national, abroad))
                                  THEN "deferred" ELSE outcome[p],
                      at |-> startedAt, by |-> row[p]]
                ELSE decision[p]]
  BY <1>3
<1>5. \A p \in Claimed : outcome[p] = ApplyPreFilter(row[p], criteria, startedAt)
  OBVIOUS
<1> HIDE DEF outcome
<1>6. ScreenedAs(ranked, national, abroad)
  BY <1>4, <1>5 DEF ScreenedAs
<1> QED
  BY <1>6

LEMMA RankedArePassing ==
  ASSUME NEW ranked, NEW national, NEW abroad, ScreenedAs(ranked, national, abroad)
  PROVE  /\ ranked \in [1..Cardinality(Passing) -> Passing]
         /\ \A i, j \in DOMAIN ranked : i # j => ranked[i] # ranked[j]
         /\ Range(ranked) \subseteq Passing
<1>1. ranked \in SetToSeqs(Passing)
  BY DEF ScreenedAs, RankForScoring
<1>2. /\ ranked \in [1..Cardinality(Passing) -> Passing]
      /\ \A i, j \in 1..Cardinality(Passing) : i # j => ranked[i] # ranked[j]
  BY <1>1 DEF SetToSeqs
<1> QED
  BY <1>2 DEF Range

LEMMA ScreenDecides ==
  ASSUME ScreenTyped, Screen, NEW p \in Screened
  PROVE  \/ row[p] = Unstated /\ decision'[p] = decision[p]
         \/ /\ row[p] \in Row
            /\ decision'[p] = [outcome |-> decision'[p].outcome, at |-> startedAt, by |-> row[p]]
            /\ Judged(decision'[p].outcome, row[p], startedAt)
<1>1. PICK ranked, national, abroad : ScreenedAs(ranked, national, abroad)
  BY ScreenUnfolds
<1>2. CASE row[p] = Unstated
  BY <1>1, <1>2 DEF ScreenedAs, Claimed
<1>3. CASE row[p] # Unstated
  <2>1. row[p] \in Row
    BY <1>3 DEF ScreenTyped, RowOf
  <2>2. decision'[p] = [outcome |-> IF p \in Range(ranked) \ Range(batch') THEN "deferred"
                                    ELSE ApplyPreFilter(row[p], criteria, startedAt),
                        at |-> startedAt, by |-> row[p]]
    BY <1>1, <1>3 DEF ScreenedAs, Claimed
  <2>3. p \in Range(ranked) => ApplyPreFilter(row[p], criteria, startedAt) = "passed"
    BY <1>1, RankedArePassing DEF Passing
  <2> QED
    BY <2>1, <2>2, <2>3 DEF Judged
<1> QED
  BY <1>2, <1>3

LEMMA ScreenKeepsTyped ==
  ASSUME ScreenTyped, Screen
  PROVE  ScreenTyped'
<1>1. startedAt \in Nat /\ startedAt <= now /\ UNCHANGED <<criteria, now, row>>
        /\ startedAt' = Unstated
  BY DEF Screen, ScreenTyped, OrUnstated
<1>2. DOMAIN decision' = Screened
  BY DEF Screen
<1>3. ASSUME NEW p \in Screened PROVE RowOf(p)' /\ DecidedOf(p)'
  <2>1. RowOf(p) /\ DecidedOf(p)
    BY DEF ScreenTyped
  <2>2. RowOf(p)'
    BY <1>1, <2>1 DEF RowOf, SamePosting
  <2>3. CASE row[p] = Unstated /\ decision'[p] = decision[p]
    BY <1>1, <2>1, <2>2, <2>3 DEF DecidedOf, Judged, Became, SamePosting
  <2>4. CASE /\ row[p] \in Row
             /\ decision'[p] = [outcome |-> decision'[p].outcome, at |-> startedAt, by |-> row[p]]
             /\ Judged(decision'[p].outcome, row[p], startedAt)
    <3>1. /\ decision'[p].at = startedAt /\ decision'[p].by = row[p]
          /\ Judged(decision'[p].outcome, row[p], startedAt)
      BY <2>4
    <3>2. Became(row[p], startedAt, row[p])
      BY DEF Became, SamePosting
    <3> QED
      BY <1>1, <2>2, <2>4, <3>1, <3>2 DEF DecidedOf, Judged, Became, SamePosting
  <2> QED
    BY <2>2, <2>3, <2>4, ScreenDecides
<1> QED
  BY <1>1, <1>2, <1>3 DEF ScreenTyped, OrUnstated, CriteriaSchema, AgeBounds, TrackTables, PositiveOrNull

LEMMA TypedStep == ScreenTyped /\ [ScreenNext]_screenVars => ScreenTyped'
<1> SUFFICES ASSUME ScreenTyped, [ScreenNext]_screenVars PROVE ScreenTyped'
  OBVIOUS
<1> USE DEF CriteriaSchema, AgeBounds, TrackTables, PositiveOrNull
<1>1. CASE Later
  <2>1. now' \in Nat /\ now <= now' /\ UNCHANGED <<criteria, row, startedAt, decision>>
    BY <1>1 DEF Later, ScreenTyped
  <2>2. ASSUME NEW p \in Screened PROVE RowOf(p)' /\ DecidedOf(p)'
    <3>1. RowOf(p) /\ DecidedOf(p)
      BY DEF ScreenTyped
    <3>2. RowOf(p)'
      BY <2>1, <3>1 DEF ScreenTyped, RowOf, SamePosting, Row
    <3>3. DecidedOf(p)'
      BY <2>1, <3>1 DEF ScreenTyped, DecidedOf, Judged, Became, SamePosting
    <3> QED
      BY <3>2, <3>3
  <2>3. startedAt' # Unstated => startedAt' <= now'
    BY <2>1 DEF ScreenTyped, OrUnstated
  <2> QED
    BY <2>1, <2>2, <2>3 DEF ScreenTyped
<1>2. CASE StartScreening
  <2>1. startedAt' = now /\ UNCHANGED <<criteria, now, row, decision>>
    BY <1>2 DEF StartScreening
  <2>2. \A p \in Screened : RowOf(p)' /\ DecidedOf(p)'
    BY <2>1 DEF ScreenTyped, RowOf, DecidedOf, Judged, Became, SamePosting
  <2> QED
    BY <2>1, <2>2 DEF ScreenTyped, OrUnstated
<1>3. CASE Screen
  BY <1>3, ScreenKeepsTyped
<1>4. ASSUME NEW p \in Screened, NEW f \in Statements[p], Sight(p, f) PROVE ScreenTyped'
  BY <1>4, SightKeepsTyped
<1>5. CASE UNCHANGED screenVars
  <2>1. UNCHANGED <<criteria, now, row, startedAt, decision>>
    BY <1>5 DEF screenVars
  <2>2. \A p \in Screened : RowOf(p)' /\ DecidedOf(p)'
    BY <2>1 DEF ScreenTyped, RowOf, DecidedOf, Judged, Became, SamePosting
  <2> QED
    BY <2>1, <2>2 DEF ScreenTyped
<1> QED
  BY <1>1, <1>2, <1>3, <1>4, <1>5 DEF ScreenNext

LEMMA TypedInit == ScreenInit => ScreenTyped
BY StatementsAssumption DEF ScreenInit, ScreenTyped, RowOf, DecidedOf, OrUnstated

LEMMA TypedAlways == ScreenSpec => []ScreenTyped
BY TypedInit, TypedStep, PTL DEF ScreenSpec

-----------------------------------------------------------------------------
LEMMA StepIsStable ==
  ASSUME ScreenTyped, ScreenNext, NEW p \in Screened,
         decision[p] # Undecided, decision'[p] # decision[p]
  PROVE  Follows(decision[p], decision'[p])
<1>1. Screen
  BY DEF ScreenNext, Later, StartScreening, Sight
<1>2. /\ row[p] \in Row
      /\ decision'[p] = [outcome |-> decision'[p].outcome, at |-> startedAt, by |-> row[p]]
      /\ Judged(decision'[p].outcome, row[p], startedAt)
  BY <1>1, ScreenDecides
<1>3. startedAt \in Nat /\ startedAt # Unstated
  BY <1>1 DEF Screen, ScreenTyped, OrUnstated
<1>4. DecidedOf(p) /\ criteria \in AllCriteria
  BY DEF ScreenTyped
<1>5. /\ decision[p].at \in Nat /\ decision[p].at <= startedAt /\ decision[p].by \in Row
      /\ Judged(decision[p].outcome, decision[p].by, decision[p].at)
      /\ Became(decision[p].by, decision[p].at, row[p])
      /\ decision[p] = [outcome |-> decision[p].outcome, at |-> decision[p].at, by |-> decision[p].by]
  BY <1>3, <1>4 DEF DecidedOf
<1>6. Follows([outcome |-> decision[p].outcome, at |-> decision[p].at, by |-> decision[p].by],
              [outcome |-> decision'[p].outcome, at |-> startedAt, by |-> row[p]])
  BY <1>2, <1>3, <1>4, <1>5, DecisionsFollow
<1> QED
  BY <1>2, <1>5, <1>6

(* ScreeningIsStable, for every set of postings, statements and criteria:  *)
(* two screenings of one posting contradict each other only for the        *)
(* reasons Follows names.                                                  *)
THEOREM ScreeningStaysStable == ScreenSpec => ScreeningIsStable
<1>1. ScreenTyped /\ [ScreenNext]_screenVars =>
        [\A p \in Screened :
           decision[p] # Undecided /\ decision'[p] # decision[p]
             => Follows(decision[p], decision'[p])]_screenVars
  BY StepIsStable DEF screenVars
<1> QED
  BY <1>1, TypedAlways, PTL DEF ScreenSpec, ScreeningIsStable

-----------------------------------------------------------------------------
(* A sequence of a finite set that repeats nothing lists all of the set.   *)
LEMMA SeqOfAll ==
  ASSUME NEW S, IsFiniteSet(S), NEW s \in SetToSeqs(S)
  PROVE  /\ s \in [1..Cardinality(S) -> S] /\ s \in Seq(S)
         /\ Cardinality(S) \in Nat /\ Len(s) = Cardinality(S)
         /\ \A i, j \in 1..Cardinality(S) : i # j => s[i] # s[j]
         /\ Range(s) = S
<1> DEFINE n == Cardinality(S)
<1>1. n \in Nat
  BY FS_CardinalityType
<1>2. s \in [1..n -> S] /\ \A i, j \in 1..n : i # j => s[i] # s[j]
  BY DEF SetToSeqs
<1>3. s \in Seq(S) /\ Len(s) = n
  BY <1>1, <1>2
<1>4. s \in Injection(1..n, S)
  BY <1>2 DEF Injection, IsInjective
<1>5. Cardinality(1..n) = n
  BY <1>1, FS_Interval
<1>6. s \in Surjection(1..n, S)
  BY <1>4, <1>5, FS_Injection
<1>7. Range(s) = S
  BY <1>2, <1>6 DEF Surjection, Range
<1> QED
  BY <1>1, <1>2, <1>3, <1>7

LEMMA ConcatRange ==
  ASSUME NEW S, NEW s \in Seq(S), NEW t \in Seq(S)
  PROVE  Range(s \o t) = Range(s) \cup Range(t)
<1>1. /\ Len(s \o t) = Len(s) + Len(t) /\ DOMAIN (s \o t) = 1..(Len(s) + Len(t))
      /\ Len(s) \in Nat /\ Len(t) \in Nat /\ DOMAIN s = 1..Len(s) /\ DOMAIN t = 1..Len(t)
  OBVIOUS
<1>2. \A i \in 1..(Len(s) + Len(t)) :
        (s \o t)[i] = IF i <= Len(s) THEN s[i] ELSE t[i - Len(s)]
  OBVIOUS
<1>3. ASSUME NEW i \in 1..(Len(s) + Len(t)) PROVE (s \o t)[i] \in Range(s) \cup Range(t)
  <2>1. CASE i <= Len(s)
    BY <1>1, <1>2, <2>1 DEF Range
  <2>2. CASE ~(i <= Len(s))
    <3>1. i - Len(s) \in 1..Len(t)
      BY <1>1, <2>2
    <3> QED
      BY <1>1, <1>2, <2>2, <3>1 DEF Range
  <2> QED
    BY <2>1, <2>2
<1>4. ASSUME NEW i \in 1..Len(s) PROVE s[i] \in Range(s \o t)
  <2>1. i \in 1..(Len(s) + Len(t)) /\ i <= Len(s)
    BY <1>1
  <2> QED
    BY <1>1, <1>2, <2>1 DEF Range
<1>5. ASSUME NEW i \in 1..Len(t) PROVE t[i] \in Range(s \o t)
  <2>1. i + Len(s) \in 1..(Len(s) + Len(t)) /\ ~(i + Len(s) <= Len(s)) /\ (i + Len(s)) - Len(s) = i
    BY <1>1
  <2> QED
    BY <1>1, <1>2, <2>1 DEF Range
<1> QED
  BY <1>1, <1>3, <1>4, <1>5 DEF Range

(* The first b of a sequence without repetition are b.                     *)
LEMMA PrefixCount ==
  ASSUME NEW S, NEW s \in Seq(S), NEW b \in Nat, b <= Len(s),
         \A i, j \in 1..Len(s) : i # j => s[i] # s[j]
  PROVE  /\ Cardinality(Range(SubSeq(s, 1, b))) = b
         /\ SubSeq(s, 1, b) \in Seq(S)
         /\ Range(SubSeq(s, 1, b)) = {s[i] : i \in 1..b}
<1> DEFINE t == SubSeq(s, 1, b)
           T == {s[i] : i \in 1..b}
<1>1. Len(s) \in Nat /\ DOMAIN s = 1..Len(s)
  OBVIOUS
<1>2. t \in Seq(S) /\ Len(t) = b /\ \A i \in 1..b : t[i] = s[i]
  BY <1>1
<1>3. Range(t) = T
  <2>1. DOMAIN t = 1..b
    BY <1>2
  <2> HIDE DEF t
  <2> QED
    BY <1>2, <2>1 DEF Range
<1>4. \A i \in 1..b : i \in 1..Len(s)
  BY <1>1
<1> DEFINE f == [i \in 1..b |-> s[i]]
<1>5. f \in Bijection(1..b, T)
  <2>1. f \in [1..b -> T]
    OBVIOUS
  <2>2. \A i, j \in 1..b : f[i] = f[j] => i = j
    BY <1>4
  <2>3. \A x \in T : \E i \in 1..b : f[i] = x
    OBVIOUS
  <2> QED
    BY <2>1, <2>2, <2>3 DEF Bijection, Injection, Surjection, IsInjective
<1>6. IsFiniteSet(1..b) /\ Cardinality(1..b) = b
  BY FS_Interval
<1>7. ExistsBijection(1..b, T)
  BY <1>5 DEF ExistsBijection
<1>8. Cardinality(T) = b
  BY <1>6, <1>7, FS_Bijection
<1> QED
  BY <1>2, <1>3, <1>8

(* How the budget was spent on ranked.                                     *)
FromAbroad(p) == ~IsNationalPosting(row[p], criteria)

LEMMA BudgetIsSpent ==
  ASSUME ScreenTyped, NEW ranked, NEW national, NEW abroad, ScreenedAs(ranked, national, abroad)
  PROVE  /\ Range(ranked) = Passing
         /\ Range(batch') \subseteq Passing
         /\ \A p \in Passing \ Range(batch') :
              LET ahead == {q \in Range(batch') : FromAbroad(q)}
              IN  /\ FromAbroad(p)
                  /\ Cardinality(ahead) = criteria.maxInternationalPerRun
                  /\ \A q \in ahead : ~Outranks(Rank(row[p], criteria, startedAt),
                                                Rank(row[q], criteria, startedAt))
<1> DEFINE Home == {p \in Range(ranked) : IsNationalPosting(row[p], criteria) = TRUE}
           Away == {p \in Range(ranked) : IsNationalPosting(row[p], criteria) = FALSE}
           admitted == AdmittedInternational(abroad)
<1>1. IsFiniteSet(Passing)
  BY StatementsAssumption, FS_Subset DEF Passing, Claimed
<1>2. ranked \in SetToSeqs(Passing)
        /\ \A i, j \in DOMAIN ranked : i < j =>
              ~Outranks(Rank(row[ranked[j]], criteria, startedAt), Rank(row[ranked[i]], criteria, startedAt))
  BY DEF ScreenedAs, RankForScoring
<1>3. Range(ranked) = Passing /\ ranked \in [1..Cardinality(Passing) -> Passing]
  BY <1>1, <1>2, SeqOfAll
<1>4. national \in SetToSeqs(Home) /\ abroad \in SetToSeqs(Away)
        /\ \A i, j \in DOMAIN abroad, k, l \in DOMAIN ranked :
              i < j /\ abroad[i] = ranked[k] /\ abroad[j] = ranked[l] => k < l
  BY DEF ScreenedAs, PartitionByOrigin
<1>5. Home \subseteq Passing /\ Away \subseteq Passing
  BY <1>3
<1>6. IsFiniteSet(Home) /\ IsFiniteSet(Away)
  BY <1>1, <1>5, FS_Subset
<1>7. \A p \in Passing : p \in Home <=> ~FromAbroad(p)
  BY <1>3 DEF FromAbroad, IsNationalPosting
<1>8. \A p \in Passing : p \in Away <=> FromAbroad(p)
  BY <1>3 DEF FromAbroad, IsNationalPosting
<1> HIDE DEF Home, Away
<1>9. national \in Seq(Home) /\ Range(national) = Home
  BY <1>4, <1>6, SeqOfAll
<1>10. /\ abroad \in Seq(Away) /\ Range(abroad) = Away
       /\ Cardinality(Away) \in Nat /\ Len(abroad) = Cardinality(Away)
       /\ DOMAIN abroad = 1..Len(abroad)
       /\ \A i, j \in 1..Len(abroad) : i # j => abroad[i] # abroad[j]
  BY <1>4, <1>6, SeqOfAll
<1> DEFINE b == criteria.maxInternationalPerRun
<1>11. b = Unstated \/ b \in Nat
  BY TypedCriteria DEF ScreenTyped, CriteriaSchema, AgeBounds, OrUnstated
<1>12. CASE b = Unstated \/ b >= Len(abroad)
  <2>1. batch' = national \o abroad
    BY <1>12 DEF ScreenedAs, Admission, AdmittedInternational
  <2>2. national \in Seq(Passing) /\ abroad \in Seq(Passing)
    BY <1>5, <1>9, <1>10
  <2>3. Range(batch') = Home \cup Away
    BY <1>9, <1>10, <2>1, <2>2, ConcatRange
  <2>4. Range(batch') = Passing
    BY <1>5, <1>7, <1>8, <2>3
  <2> QED
    BY <1>3, <2>4
<1>13. CASE ~(b = Unstated \/ b >= Len(abroad))
  <2>1. b \in Nat /\ b < Len(abroad)
    BY <1>10, <1>11, <1>13
  <2>2. batch' = national \o SubSeq(abroad, 1, b)
    BY <1>13 DEF ScreenedAs, Admission, AdmittedInternational
  <2> DEFINE taken == SubSeq(abroad, 1, b)
  <2>3. /\ Cardinality(Range(taken)) = b /\ taken \in Seq(Away)
        /\ Range(taken) = {abroad[i] : i \in 1..b}
    BY <1>10, <2>1, PrefixCount
  <2>4. Range(taken) \subseteq Away
    BY <1>10, <2>1, <2>3
  <2>5. Range(batch') = Home \cup Range(taken)
    <3>1. national \in Seq(Passing) /\ taken \in Seq(Passing)
      BY <1>5, <1>9, <2>3
    <3> QED
      BY <1>9, <2>2, <3>1, ConcatRange
  <2>6. {q \in Range(batch') : FromAbroad(q)} = Range(taken)
    BY <1>5, <1>7, <1>8, <2>4, <2>5
  <2> HIDE DEF taken
  <2>7. ASSUME NEW p \in Passing, p \notin Range(batch')
        PROVE  /\ FromAbroad(p)
               /\ \A q \in Range(taken) : ~Outranks(Rank(row[p], criteria, startedAt),
                                                    Rank(row[q], criteria, startedAt))
    <3>1. p \in Away /\ p \notin Range(taken)
      BY <1>7, <1>8, <2>5, <2>7
    <3>2. PICK j \in 1..Len(abroad) : p = abroad[j]
      BY <1>10, <3>1 DEF Range
    <3>3. ~(j \in 1..b)
      BY <2>3, <3>1, <3>2
    <3>4. PICK l \in DOMAIN ranked : p = ranked[l]
      BY <1>3 DEF Range
    <3>5. ASSUME NEW q \in Range(taken)
          PROVE  ~Outranks(Rank(row[p], criteria, startedAt), Rank(row[q], criteria, startedAt))
      <4>1. PICK i \in 1..b : q = abroad[i]
        BY <2>3
      <4>2. PICK k \in DOMAIN ranked : q = ranked[k]
        BY <1>3, <1>5, <2>4 DEF Range
      <4>3. i \in 1..Len(abroad) /\ i < j
        BY <1>10, <2>1, <3>2, <3>3
      <4>4. k < l
        BY <1>4, <1>10, <3>2, <3>4, <4>1, <4>2, <4>3
      <4> QED
        BY <1>2, <3>4, <4>2, <4>4
    <3> QED
      BY <1>5, <1>8, <3>1, <3>5
  <2>8. Range(batch') \subseteq Passing
    BY <1>5, <2>4, <2>5
  <2> QED
    BY <1>3, <2>3, <2>6, <2>7, <2>8
<1> QED
  BY <1>12, <1>13

(* What not being outranked means of the first two keys.                   *)
LEMMA NotOutranked ==
  ASSUME NEW r \in Row, NEW s \in Row, NEW c, NEW at, ~Outranks(Rank(r, c, at), Rank(s, c, at))
  PROVE  /\ IsStillListedBySource(r, c, at) => IsStillListedBySource(s, c, at)
         /\ (IsStillListedBySource(r, c, at) <=> IsStillListedBySource(s, c, at))
               => Dated(s) >= Dated(r)
<1> DEFINE a == Rank(r, c, at)
           b == Rank(s, c, at)
<1>1. /\ a[1] = (IF IsStillListedBySource(r, c, at) THEN 1 ELSE 0) /\ a[2] = Dated(r)
      /\ b[1] = (IF IsStillListedBySource(s, c, at) THEN 1 ELSE 0) /\ b[2] = Dated(s)
  BY DEF Rank
<1>2. Dated(r) \in Int /\ Dated(s) \in Int
  BY DEF Dated, Row, OrUnstated
<1> HIDE DEF a, b
<1>3. \A k \in 1..3 : ~(a[k] > b[k] /\ \A j \in 1..(k - 1) : a[j] = b[j])
  BY DEF Outranks, a, b
<1>4. ~(a[1] > b[1])
  BY <1>3
<1>5. ~(a[2] > b[2] /\ a[1] = b[1])
  <2>1. 1..(2 - 1) = {1}
    OBVIOUS
  <2> QED
    BY <1>3, <2>1
<1> QED
  BY <1>1, <1>2, <1>4, <1>5

LEMMA BudgetStep == ScreenTyped /\ BudgetWellSpent /\ [ScreenNext]_screenVars => BudgetWellSpent'
<1> SUFFICES ASSUME ScreenTyped, BudgetWellSpent, [ScreenNext]_screenVars PROVE BudgetWellSpent'
  OBVIOUS
<1>1. CASE UNCHANGED <<criteria, decision, batch>>
  BY <1>1 DEF BudgetWellSpent
<1>2. CASE Screen
  <2>1. PICK ranked, national, abroad : ScreenedAs(ranked, national, abroad)
    BY <1>2, ScreenUnfolds
  <2>2. criteria' = criteria
    BY <1>2 DEF Screen
  <2>3. Range(ranked) = Passing /\ Range(batch') \subseteq Passing
    BY <2>1, BudgetIsSpent
  <2>4. ASSUME NEW p \in Claimed
        PROVE  /\ p \in Passing \ Range(batch') => decision'[p].outcome = "deferred"
               /\ p \notin Passing \ Range(batch')
                     => decision'[p].outcome = ApplyPreFilter(row[p], criteria, startedAt)
               /\ decision'[p].at = startedAt /\ decision'[p].by = row[p]
    <3>1. p \in Screened
      BY DEF Claimed
    <3>2. decision'[p] = [outcome |-> IF p \in Range(ranked) \ Range(batch') THEN "deferred"
                                      ELSE ApplyPreFilter(row[p], criteria, startedAt),
                          at |-> startedAt, by |-> row[p]]
      BY <2>1, <3>1 DEF ScreenedAs
    <3> QED
      BY <2>3, <3>2
  <2>5. \A p \in Screened \ Claimed : decision'[p].outcome = "none"
    <3>1. \A p \in Screened \ Claimed : decision'[p] = decision[p] /\ row[p] = Unstated
      BY <2>1 DEF ScreenedAs, Claimed
    <3>2. \A p \in Screened \ Claimed : decision[p] = Undecided
      BY <3>1, StatementsAssumption DEF ScreenTyped, DecidedOf
    <3> QED
      BY <3>1, <3>2 DEF Undecided
  <2>6. \A p \in Claimed : ApplyPreFilter(row[p], criteria, startedAt) # "deferred"
    BY OutcomeMeans DEF ByTitle
  <2>7. Range(batch') = {p \in Screened : decision'[p].outcome = "passed"}
    <3>1. ASSUME NEW p \in Range(batch') PROVE p \in Screened /\ decision'[p].outcome = "passed"
      BY <2>3, <2>4, <3>1 DEF Passing, Claimed
    <3>2. ASSUME NEW p \in Screened, decision'[p].outcome = "passed" PROVE p \in Range(batch')
      <4>1. p \in Claimed
        BY <2>5, <3>2
      <4>2. p \notin Passing \ Range(batch') /\ ApplyPreFilter(row[p], criteria, startedAt) = "passed"
        BY <2>4, <3>2, <4>1
      <4> QED
        BY <4>1, <4>2 DEF Passing
    <3> QED
      BY <3>1, <3>2
  <2>8. ASSUME NEW p \in Screened, decision'[p].outcome = "deferred"
        PROVE  LET at    == decision'[p].at
                   By(q) == decision'[q].by
                   Ahead == {q \in Range(batch') : ~IsNationalPosting(By(q), criteria)}
                   Listed(q) == IsStillListedBySource(By(q), criteria, at)
               IN  /\ ~IsNationalPosting(By(p), criteria)
                   /\ Cardinality(Ahead) = criteria.maxInternationalPerRun
                   /\ \A q \in Ahead :
                        /\ Listed(p) => Listed(q)
                        /\ Listed(p) = Listed(q) => Dated(By(q)) >= Dated(By(p))
    <3>1. p \in Claimed
      BY <2>5, <2>8
    <3>2. p \in Passing \ Range(batch')
      BY <2>4, <2>6, <2>8, <3>1
    <3>3. \A q \in Claimed : decision'[q].by = row[q] /\ decision'[q].at = startedAt
      BY <2>4
    <3>4. Passing \subseteq Claimed
      BY DEF Passing
    <3> DEFINE ahead == {q \in Range(batch') : FromAbroad(q)}
    <3>5. {q \in Range(batch') : ~IsNationalPosting(decision'[q].by, criteria)} = ahead
      BY <2>3, <3>3, <3>4 DEF FromAbroad
    <3>6. /\ FromAbroad(p) /\ Cardinality(ahead) = criteria.maxInternationalPerRun
          /\ \A q \in ahead : ~Outranks(Rank(row[p], criteria, startedAt),
                                        Rank(row[q], criteria, startedAt))
      BY <2>1, <3>2, BudgetIsSpent
    <3>7. ASSUME NEW q \in ahead
          PROVE  /\ IsStillListedBySource(row[p], criteria, startedAt)
                      => IsStillListedBySource(row[q], criteria, startedAt)
                 /\ (IsStillListedBySource(row[p], criteria, startedAt)
                      <=> IsStillListedBySource(row[q], criteria, startedAt))
                      => Dated(row[q]) >= Dated(row[p])
      <4>1. q \in Claimed
        BY <2>3, <3>4
      <4>2. row[p] \in Row /\ row[q] \in Row
        BY <3>1, <4>1 DEF ScreenTyped, RowOf, Claimed
      <4> QED
        BY <3>6, <4>2, NotOutranked
    <3>8. \A q \in ahead : q \in Claimed
      BY <2>3, <3>4
    <3>9. \A r : IsStillListedBySource(r, criteria, startedAt) \in BOOLEAN
      BY DEF IsStillListedBySource
    <3> HIDE DEF ahead
    <3> QED
      BY <3>1, <3>3, <3>5, <3>6, <3>7, <3>8, <3>9 DEF FromAbroad
  <2> QED
    BY <2>2, <2>7, <2>8 DEF BudgetWellSpent
<1> QED
  BY <1>1, <1>2 DEF ScreenNext, Later, StartScreening, Sight, screenVars

(* BudgetWellSpent, for every number of postings and every budget: the     *)
(* batch is the postings that passed, and none from abroad is deferred     *)
(* with the budget not used up, or for one that is worse.                  *)
THEOREM BudgetStaysWellSpent == ScreenSpec => []BudgetWellSpent
<1>1. ScreenInit => BudgetWellSpent
  BY DEF ScreenInit, BudgetWellSpent, Undecided, Range
<1> QED
  BY <1>1, TypedAlways, BudgetStep, PTL DEF ScreenSpec

-----------------------------------------------------------------------------
(* The verdict.                                                            *)

(* Monotonicity of the integer division the coverages are computed with.   *)
LEMMA DivMonotone ==
  ASSUME NEW a \in Nat, NEW b \in Nat, a <= b, NEW d \in Nat \ {0}
  PROVE  a \div d \in Nat /\ a \div d <= b \div d
<1>1. a \div d \in Int /\ b \div d \in Int
  OBVIOUS
<1>2. a \div d >= 0
  BY SMTT(30)
<1>3. a \div d <= b \div d
  BY SMTT(30)
<1> QED
  BY <1>1, <1>2, <1>3

LEMMA TimesMonotone ==
  ASSUME NEW a \in Nat, NEW b \in Nat, a <= b, NEW d \in Nat
  PROVE  d * a \in Nat /\ d * b \in Nat /\ d * a <= d * b
OBVIOUS

LEMMA TimesStrict ==
  ASSUME NEW a \in Nat, NEW b \in Nat, a < b, NEW d \in Nat \ {0}
  PROVE  d * a < d * b
OBVIOUS

-----------------------------------------------------------------------------
(* A match that credits its requirement does so with a line of profile p   *)
(* at the instant at that is about the requirement.                        *)
Supported(match, r, p, at) ==
    match.status # "not_met" =>
      /\ match.evidence # Missing
      /\ match.evidence \in EvidenceCatalog(p, at)
      /\ IsApplicable(match.evidence, r)

(* The last outcome is that of matches m of profile p at the instant at.   *)
OutcomeOf(m, p, at) ==
    /\ judged = [matches |-> m, score |-> Score(m), verdict |-> VerdictOf(m),
                 variant |-> RecommendVariant(m), highlights |-> Highlights(m),
                 by |-> p, at |-> at]
    /\ kept.asked = <<p, AcademicPeriod(at)>>
    /\ \A i \in Asks : Supported(m[i], Req(i), p, at)
    /\ section = SectionOf(VerdictOf(m), Gated(m, at))

(* What the state of an evaluation is known to be.                         *)
Settled ==
    /\ vacancy \in Vacancies
    /\ semester \in Nat
    /\ kept # Missing =>
         /\ kept.key = kept.asked
         /\ \A i \in Asks : kept.matches[i].status # "not_met" => kept.matches[i].evidence # Missing
    /\ judged # Missing =>
         \E m \in {judged.matches}, p \in {judged.by}, at \in {judged.at} :
            at \in Nat /\ OutcomeOf(m, p, at)

(* The answers of an evaluation, kept or new, credit a requirement only    *)
(* with a line of the profile that is about it.                            *)
LEMMA MatchingsAreSupported ==
  ASSUME Settled, NEW ms \in Matchings, NEW i \in Asks
  PROVE  Supported(ms[i], Req(i), known, semester)
<1> SUFFICES ASSUME ms[i].status # "not_met"
             PROVE  /\ ms[i].evidence # Missing
                    /\ ms[i].evidence \in EvidenceCatalog(known, semester)
                    /\ IsApplicable(ms[i].evidence, Req(i))
  BY DEF Supported
<1>1. CASE CacheHit
  <2>1. ms = kept.matches
    BY <1>1 DEF Matchings
  <2> QED
    BY <1>1, <2>1 DEF CacheHit, StillSupported, IsKnownProfileEvidence, Settled
<1>2. CASE ~ CacheHit
  <2>1. PICK s \in Statuses, q \in Quotes(semester) :
          ms[i] = CreateMatch(s, Evidence(q, Req(i), known, semester))
    BY <1>2 DEF Matchings, AnswersTo
  <2>2. ms[i].evidence = Evidence(q, Req(i), known, semester)
    BY <2>1 DEF CreateMatch
  <2>3. Evidence(q, Req(i), known, semester) # Missing
    BY <2>1 DEF CreateMatch
  <2> QED
    BY <2>2, <2>3 DEF Evidence, IsKnownProfileEvidence
<1> QED
  BY <1>1, <1>2

(* What is computed from the matches depends on the posting alone.         *)
LEMMA RulesAreFixed ==
  ASSUME vacancy' = vacancy, NEW m
  PROVE  /\ Asks' = Asks
         /\ \A i : Req(i)' = Req(i)
         /\ Score(m)' = Score(m)
         /\ VerdictOf(m)' = VerdictOf(m)
         /\ RecommendVariant(m)' = RecommendVariant(m)
         /\ Highlights(m)' = Highlights(m)
         /\ \A at : Gated(m, at)' = Gated(m, at)
         /\ \A v, g : SectionOf(v, g)' = SectionOf(v, g)
<1> USE DEF Asks, Req
<1>1. Verifiable' = Verifiable
  BY DEF Verifiable
<1>2. \A w : Weighing(w)' = Weighing(w)
  BY <1>1 DEF Weighing
<1>3. RawScore(m)' = RawScore(m)
  <2>1. \A w : Coverage(m, w)' = Coverage(m, w)
    BY <1>2 DEF Coverage, Points
  <2>2. TrackAlignment' = TrackAlignment
    BY DEF TrackAlignment, ScoringTracks
  <2> QED
    BY <2>1, <2>2 DEF RawScore
<1>4. BlockingFailures(m)' = BlockingFailures(m)
  BY <1>2 DEF BlockingFailures, Unmet
<1>5. Caps(m)' = Caps(m)
  BY <1>4 DEF Caps, ScoringTracks
<1>6. Score(m)' = Score(m)
  BY <1>3, <1>5 DEF Score
<1>7. VerdictOf(m)' = VerdictOf(m)
  BY <1>1, <1>6 DEF VerdictOf, LowConfidence
<1>8. RecommendVariant(m)' = RecommendVariant(m)
  BY DEF RecommendVariant, Overlap, MatchedCompetencies
<1>9. Highlights(m)' = Highlights(m)
  BY DEF Highlights
<1>10. \A at : Gated(m, at)' = Gated(m, at)
  BY <1>3, <1>4 DEF Gated, DetectPeriodGate
<1>11. \A v, g : SectionOf(v, g)' = SectionOf(v, g)
  BY DEF SectionOf
<1> QED
  BY <1>6, <1>7, <1>8, <1>9, <1>10, <1>11

LEMMA SettledInit == VerdictInit => Settled
<1> SUFFICES ASSUME VerdictInit PROVE Settled
  OBVIOUS
<1>1. Semesters \in SUBSET Nat /\ Semesters # {}
  BY TopicsAssumption
<1>2. semester \in Nat
  BY <1>1, LeastOfNaturals DEF VerdictInit
<1> QED
  BY <1>2 DEF Settled, VerdictInit

LEMMA SettledStep == Settled /\ [VerdictNext]_verdictVars => Settled'
<1> SUFFICES ASSUME Settled, [VerdictNext]_verdictVars PROVE Settled'
  OBVIOUS
<1>1. vacancy' = vacancy
  BY DEF VerdictNext, NextSemester, Judge, FailToJudge, Learn, verdictVars
<1>2. Asks' = Asks /\ \A i : Req(i)' = Req(i)
  BY <1>1 DEF Asks, Req
<1>3. ASSUME UNCHANGED <<kept, judged, section>>, semester' \in Nat
      PROVE  Settled'
  <2>1. ASSUME NEW m \in {judged.matches}, NEW p \in {judged.by}, NEW at \in {judged.at},
               at \in Nat, OutcomeOf(m, p, at)
        PROVE  OutcomeOf(m, p, at)'
    <3>1. Score(m)' = Score(m) /\ VerdictOf(m)' = VerdictOf(m)
      BY <1>1, RulesAreFixed
    <3>2. RecommendVariant(m)' = RecommendVariant(m) /\ Highlights(m)' = Highlights(m)
      BY <1>1, RulesAreFixed
    <3>3. Gated(m, at)' = Gated(m, at)
      BY <1>1, RulesAreFixed
    <3>4. SectionOf(VerdictOf(m), Gated(m, at))' = SectionOf(VerdictOf(m), Gated(m, at))
      BY <1>1, <3>1, <3>3 DEF SectionOf
    <3> QED
      BY <1>2, <1>3, <2>1, <3>1, <3>2, <3>4 DEF OutcomeOf, Supported
  <2> QED
    BY <1>1, <1>2, <1>3, <2>1 DEF Settled
<1>4. CASE NextSemester
  <2>1. semester' \in Nat
    BY <1>4, TopicsAssumption DEF NextSemester
  <2> QED
    BY <1>3, <1>4, <2>1 DEF NextSemester
<1>5. ASSUME NEW t \in Topics, Learn(t) PROVE Settled'
  BY <1>3, <1>5 DEF Learn, Settled
<1>6. CASE Judge
  <2>1. PICK ms \in Matchings :
          /\ kept' = IF CacheHit THEN kept
                     ELSE [key |-> HashProfile(known, semester), matches |-> ms,
                           asked |-> <<known, AcademicPeriod(semester)>>]
          /\ judged' = [matches |-> ms, score |-> Score(ms), verdict |-> VerdictOf(ms),
                        variant |-> RecommendVariant(ms), highlights |-> Highlights(ms),
                        by |-> known, at |-> semester]
          /\ section' = SectionOf(VerdictOf(ms), Gated(ms, semester))
    BY <1>6 DEF Judge
  <2>2. \A i \in Asks : Supported(ms[i], Req(i), known, semester)
    BY MatchingsAreSupported
  <2>3. kept'.key = kept'.asked /\ kept'.asked = <<known, AcademicPeriod(semester)>>
    BY <2>1 DEF CacheHit, HashProfile, Settled
  <2>4. kept' # Missing =>
          \A i \in Asks : kept'.matches[i].status # "not_met" => kept'.matches[i].evidence # Missing
    <3>1. CASE CacheHit
      BY <2>1, <3>1 DEF Settled
    <3>2. CASE ~ CacheHit
      BY <2>1, <2>2, <3>2 DEF Supported
    <3> QED
      BY <3>1, <3>2
  <2>5. PICK m \in {ms}, p \in {known}, at \in {semester} : TRUE
    OBVIOUS
  <2>6. Score(m)' = Score(m) /\ VerdictOf(m)' = VerdictOf(m)
    BY <1>1, RulesAreFixed
  <2>7. RecommendVariant(m)' = RecommendVariant(m) /\ Highlights(m)' = Highlights(m)
    BY <1>1, RulesAreFixed
  <2>8. Gated(m, at)' = Gated(m, at)
    BY <1>1, RulesAreFixed
  <2>9. SectionOf(VerdictOf(m), Gated(m, at))' = SectionOf(VerdictOf(m), Gated(m, at))
    BY <1>1, <2>6, <2>8 DEF SectionOf
  <2>10. OutcomeOf(m, p, at)'
    BY <1>2, <2>1, <2>2, <2>3, <2>5, <2>6, <2>7, <2>9 DEF OutcomeOf, Supported
  <2>11. m \in {judged'.matches} /\ p \in {judged'.by} /\ at \in {judged'.at} /\ at \in Nat
    BY <2>1, <2>5 DEF Settled
  <2> QED
    BY <1>1, <1>2, <1>6, <2>3, <2>4, <2>10, <2>11 DEF Settled, Judge
<1>7. CASE FailToJudge
  BY <1>1, <1>2, <1>7 DEF FailToJudge, Settled
<1>8. CASE UNCHANGED verdictVars
  BY <1>3, <1>8 DEF verdictVars, Settled
<1> QED
  BY <1>4, <1>5, <1>6, <1>7, <1>8 DEF VerdictNext

LEMMA SettledAlways == VerdictSpec => []Settled
<1>1. VerdictInit => Settled
  BY SettledInit
<1>2. Settled /\ [VerdictNext]_verdictVars => Settled'
  BY SettledStep
<1> QED
  BY <1>1, <1>2, PTL DEF VerdictSpec

-----------------------------------------------------------------------------
(* The variant that is recommended overlaps the credited competencies.     *)
LEMMA VariantOverlaps ==
  ASSUME NEW m, RecommendVariant(m) # Missing
  PROVE  ResumeVariants[RecommendVariant(m)] \cap MatchedCompetencies(m) # {}
<1> DEFINE best == {n \in DOMAIN ResumeVariants : \A k \in DOMAIN ResumeVariants :
                       Overlap(n, m) >= Overlap(k, m) /\ Overlap(n, m) > 0}
<1>1. best # {} /\ RecommendVariant(m) = Min(best)
  BY DEF RecommendVariant
<1>2. best \in SUBSET Nat
  BY TopicsAssumption
<1>3. RecommendVariant(m) \in best
  BY <1>1, <1>2, LeastOfNaturals
<1>4. Overlap(RecommendVariant(m), m) > 0
  BY <1>3
<1>5. Cardinality({}) = 0
  BY FS_EmptySet
<1> QED
  BY <1>4, <1>5 DEF Overlap

LEMMA EvidenceImpliesCredit == Settled => CreditNeedsEvidence
<1> SUFFICES ASSUME Settled, judged # Missing
             PROVE  LET shown == EvidenceCatalog(judged.by, judged.at)
                    IN  /\ \A i \in Asks : judged.matches[i].status # "not_met" =>
                             /\ judged.matches[i].evidence \in shown
                             /\ IsApplicable(judged.matches[i].evidence, Req(i))
                        /\ kept.asked = <<judged.by, AcademicPeriod(judged.at)>>
                        /\ judged.highlights \subseteq shown
                        /\ judged.variant # Missing => ResumeVariants[judged.variant] \cap judged.by # {}
  BY DEF CreditNeedsEvidence
<1>1. PICK m \in {judged.matches}, p \in {judged.by}, at \in {judged.at} :
             at \in Nat /\ OutcomeOf(m, p, at)
  BY DEF Settled
<1> DEFINE shown == EvidenceCatalog(p, at)
<1>2. \A i \in Asks : Supported(m[i], Req(i), p, at)
  BY <1>1 DEF OutcomeOf
<1>3. \A i \in Asks : m[i].status # "not_met" =>
        m[i].evidence \in shown /\ IsApplicable(m[i].evidence, Req(i))
  BY <1>2 DEF Supported
<1>4. judged.highlights = Highlights(m) /\ judged.variant = RecommendVariant(m)
  BY <1>1 DEF OutcomeOf
<1>5. Highlights(m) \subseteq shown
  BY <1>3 DEF Highlights
<1>6. ASSUME RecommendVariant(m) # Missing
      PROVE  ResumeVariants[RecommendVariant(m)] \cap p # {}
  <2>1. PICK t : t \in ResumeVariants[RecommendVariant(m)] /\ t \in MatchedCompetencies(m)
    BY <1>6, VariantOverlaps
  <2>2. RecommendVariant(m) \in DOMAIN ResumeVariants
    <3> DEFINE best == {n \in DOMAIN ResumeVariants : \A k \in DOMAIN ResumeVariants :
                           Overlap(n, m) >= Overlap(k, m) /\ Overlap(n, m) > 0}
    <3>1. best # {} /\ RecommendVariant(m) = Min(best)
      BY <1>6 DEF RecommendVariant
    <3>2. best \in SUBSET Nat
      BY TopicsAssumption
    <3> QED
      BY <3>1, <3>2, LeastOfNaturals
  <2>3. t \in Topics
    BY <2>1, <2>2, TopicsAssumption
  <2>4. PICK i \in Asks : m[i].status # "not_met" /\ t = m[i].evidence.tag
    BY <2>1 DEF MatchedCompetencies
  <2>5. m[i].evidence \in shown
    BY <1>3, <2>4
  <2>6. t \in p
    BY <2>3, <2>4, <2>5, TopicsAssumption DEF EvidenceCatalog
  <2> QED
    BY <2>1, <2>6
<1> QED
  BY <1>1, <1>3, <1>4, <1>5, <1>6 DEF OutcomeOf

(* CreditNeedsEvidence, for every posting, profile, calendar and sequence  *)
(* of evaluations: no requirement is credited but with a line the profile  *)
(* shows at that instant, whoever asked for it and whenever.               *)
THEOREM CreditIsEvidenced == VerdictSpec => []CreditNeedsEvidence
<1> QED
  BY SettledAlways, EvidenceImpliesCredit, PTL

-----------------------------------------------------------------------------
(* The rules of Stage C give whole numbers of units, and a score that no   *)
(* cap is below.                                                           *)
LEMMA PostingIsTyped ==
  ASSUME vacancy \in Vacancies
  PROVE  /\ IsFiniteSet(Asks)
         /\ \A i \in Asks : /\ Req(i).kinds \subseteq Tracks
                            /\ Req(i).tracks \subseteq Tracks
                            /\ Req(i).minimumPeriod \in Nat
         /\ ScoringTracks \subseteq Tracks
<1>1. Asks = 1..Len(vacancy.requirements) /\ Len(vacancy.requirements) \in Nat
  BY VacanciesAssumption DEF Asks
<1>2. IsFiniteSet(Asks)
  BY <1>1, FS_Interval
<1>3. ASSUME NEW i \in Asks
      PROVE  /\ Req(i).kinds \subseteq Tracks
             /\ Req(i).tracks \subseteq Tracks
             /\ Req(i).minimumPeriod \in Nat
  <2>1. Req(i) \in Requirement
    BY <1>1, VacanciesAssumption DEF Asks, Req
  <2> QED
    BY <2>1 DEF Requirement
<1>4. ScoringTracks \subseteq Tracks
  BY <1>3, VacanciesAssumption DEF ScoringTracks
<1> QED
  BY <1>2, <1>3, <1>4

LEMMA WeighingIsFinite ==
  ASSUME vacancy \in Vacancies, NEW w
  PROVE  IsFiniteSet(Weighing(w)) /\ Weighing(w) \subseteq Asks
<1>1. Weighing(w) \subseteq Asks
  BY DEF Weighing, Verifiable
<1>2. IsFiniteSet(Asks)
  BY PostingIsTyped
<1> QED
  BY <1>1, <1>2, FS_Subset

LEMMA PointsAreNatural ==
  ASSUME NEW these, IsFiniteSet(these), NEW m
  PROVE  Points(m, these) \in Nat
<1> DEFINE Some == {i \in these : StatusWeight(m[i].status) >= 1}
           All == {i \in these : StatusWeight(m[i].status) >= 2}
<1>1. Cardinality(Some) \in Nat
  BY FS_Subset, FS_CardinalityType
<1>2. Cardinality(All) \in Nat
  BY FS_Subset, FS_CardinalityType
<1> QED
  BY <1>1, <1>2 DEF Points

LEMMA PointsGrow ==
  ASSUME NEW these, IsFiniteSet(these), NEW m, NEW n,
         \A i \in these : StatusWeight(n[i].status) >= StatusWeight(m[i].status)
  PROVE  Points(m, these) <= Points(n, these)
<1> DEFINE Some(k) == {i \in these : StatusWeight(k[i].status) >= 1}
           All(k) == {i \in these : StatusWeight(k[i].status) >= 2}
<1>1. \A k, i : StatusWeight(k[i].status) \in {0, 1, 2}
  BY DEF StatusWeight
<1>2. Some(m) \subseteq Some(n) /\ All(m) \subseteq All(n)
  BY <1>1
<1>3. Cardinality(Some(m)) <= Cardinality(Some(n)) /\ Cardinality(Some(m)) \in Nat
        /\ Cardinality(Some(n)) \in Nat
  BY <1>2, FS_Subset, FS_CardinalityType
<1>4. Cardinality(All(m)) <= Cardinality(All(n)) /\ Cardinality(All(m)) \in Nat
        /\ Cardinality(All(n)) \in Nat
  BY <1>2, FS_Subset, FS_CardinalityType
<1> HIDE DEF Some, All
<1>5. Cardinality(Some(m)) + Cardinality(All(m)) <= Cardinality(Some(n)) + Cardinality(All(n))
  BY <1>3, <1>4
<1> QED
  BY <1>5 DEF Points, Some, All

LEMMA CoverageIsNatural ==
  ASSUME vacancy \in Vacancies, NEW m, NEW w
  PROVE  Coverage(m, w) \in Nat
<1> DEFINE these == Weighing(w)
<1>1. CASE these = {}
  BY <1>1, ScaleAssumption DEF Coverage
<1>2. CASE these # {}
  <2>1. Cardinality(these) \in Nat \ {0}
    BY <1>2, WeighingIsFinite, FS_CardinalityType, FS_EmptySet
  <2>2. Points(m, these) \in Nat
    BY WeighingIsFinite, PointsAreNatural
  <2> DEFINE a == Scale * Points(m, these)
             d == 2 * Cardinality(these)
  <2>3. a \in Nat
    BY <2>2, ScaleAssumption
  <2>4. d \in Nat \ {0}
    BY <2>1
  <2>5. a \div d \in Nat
    <3> HIDE DEF a, d
    <3> QED
      BY <2>3, <2>4, DivMonotone
  <2> QED
    BY <1>2, <2>5 DEF Coverage
<1> QED
  BY <1>1, <1>2

(* Better answers cover no less.                                           *)
LEMMA CoverageGrows ==
  ASSUME vacancy \in Vacancies, NEW m, NEW n, NEW w,
         \A i \in Asks : StatusWeight(n[i].status) >= StatusWeight(m[i].status)
  PROVE  Coverage(m, w) <= Coverage(n, w)
<1> DEFINE these == Weighing(w)
<1>1. CASE these = {}
  BY <1>1, ScaleAssumption DEF Coverage
<1>2. CASE these # {}
  <2>1. Cardinality(these) \in Nat \ {0}
    BY <1>2, WeighingIsFinite, FS_CardinalityType, FS_EmptySet
  <2>2. Points(m, these) \in Nat /\ Points(n, these) \in Nat
    BY WeighingIsFinite, PointsAreNatural
  <2>3. Points(m, these) <= Points(n, these)
    BY WeighingIsFinite, PointsGrow
  <2> DEFINE a == Scale * Points(m, these)
             b == Scale * Points(n, these)
             d == 2 * Cardinality(these)
  <2>4. a \in Nat /\ b \in Nat /\ a <= b
    BY <2>2, <2>3, TimesMonotone, ScaleAssumption
  <2>5. d \in Nat \ {0}
    BY <2>1
  <2>6. a \div d <= b \div d
    <3> HIDE DEF a, b, d
    <3> QED
      BY <2>4, <2>5, DivMonotone
  <2> QED
    BY <1>2, <2>6 DEF Coverage
<1> QED
  BY <1>1, <1>2

LEMMA GreatestTenth ==
  ASSUME NEW S \in SUBSET (0..10), S # {}
  PROVE  Max(S) \in S
<1> DEFINE T == {10 - x : x \in S}
<1>1. T \in SUBSET Nat /\ T # {}
  <2>1. \A x \in S : x \in 0..10
    OBVIOUS
  <2>2. \A x \in 0..10 : 10 - x \in Nat
    OBVIOUS
  <2> QED
    BY <2>1, <2>2
<1>2. Min(T) \in T /\ \A y \in T : Min(T) <= y
  BY <1>1, LeastOfNaturals
<1>3. PICK x \in S : \A y \in S : 10 - x <= 10 - y
  BY <1>2
<1>4. \A y \in S : x >= y
  BY <1>3
<1> QED
  BY <1>4 DEF Max

LEMMA AlignmentIsNatural ==
  ASSUME vacancy \in Vacancies
  PROVE  TrackAlignment \in Nat
<1> DEFINE w == IF ScoringTracks = {} THEN Scoring.trackWeights["unknown"]
                ELSE Max({Scoring.trackWeights[t] : t \in ScoringTracks})
<1>1. w \in 0..10
  <2> DEFINE W == {Scoring.trackWeights[t] : t \in ScoringTracks}
  <2>1. Scoring.trackWeights \in [Tracks \cup {"unknown"} -> 0..10]
    BY ScoringAssumption
  <2>2. W \in SUBSET (0..10)
    BY <2>1, PostingIsTyped
  <2>3. W # {} => Max(W) \in 0..10
    <3> HIDE DEF W
    <3> QED
      BY <2>2, GreatestTenth
  <2>4. Scoring.trackWeights["unknown"] \in 0..10
    BY <2>1
  <2> QED
    BY <2>3, <2>4
<1>2. Scale * w \in Nat
  BY <1>1, ScaleAssumption
<1>3. (Scale * w) \div 10 \in Nat
  <2> DEFINE a == Scale * w
  <2> HIDE DEF a
  <2>1. a \div 10 \in Nat
    BY <1>2, DivMonotone DEF a
  <2> QED
    BY <2>1 DEF a
<1> QED
  BY <1>3 DEF TrackAlignment

LEMMA RawScoreIsNatural ==
  ASSUME vacancy \in Vacancies, NEW m
  PROVE  RawScore(m) \in Nat
<1>1. Coverage(m, "mandatory") \in Nat /\ Coverage(m, "desirable") \in Nat
  BY CoverageIsNatural
<1>2. TrackAlignment \in Nat
  BY AlignmentIsNatural
<1>3. /\ Scoring.mandatory \in Nat /\ Scoring.desirable \in Nat
      /\ Scoring.trackAlignment \in Nat
  BY ScoringAssumption
<1>4. /\ Scoring.mandatory * Coverage(m, "mandatory") \in Nat
      /\ Scoring.desirable * Coverage(m, "desirable") \in Nat
      /\ Scoring.trackAlignment * TrackAlignment \in Nat
  BY <1>1, <1>2, <1>3
<1> QED
  BY <1>4 DEF RawScore

(* The score is the least of what it may be.                               *)
LEMMA ScoreIsLeast ==
  ASSUME vacancy \in Vacancies, NEW m
  PROVE  /\ Score(m) \in Nat
         /\ Score(m) \in {RawScore(m)} \cup {Scale * cap : cap \in Caps(m)}
         /\ Score(m) <= RawScore(m)
         /\ \A cap \in Caps(m) : Score(m) <= Scale * cap
<1> DEFINE S == {RawScore(m)} \cup {Scale * cap : cap \in Caps(m)}
<1>1. Caps(m) \subseteq Nat
  BY ScoringAssumption DEF Caps
<1>2. \A cap \in Caps(m) : Scale * cap \in Nat
  BY <1>1, ScaleAssumption
<1>3. S \in SUBSET Nat /\ S # {}
  BY <1>2, RawScoreIsNatural
<1>4. Min(S) \in S /\ \A x \in S : Min(S) <= x
  BY <1>3, LeastOfNaturals
<1>5. Score(m) = Min(S)
  BY DEF Score
<1> HIDE DEF S
<1>6. Score(m) \in S /\ (\A x \in S : Score(m) <= x) /\ Score(m) \in Nat
  BY <1>3, <1>4, <1>5
<1> QED
  BY <1>6 DEF S

(* No score below a threshold reaches it for being counted in units.       *)
LEMMA ThresholdsInUnits ==
  /\ Scale * Scoring.review \in Nat /\ Scale * Scoring.apply \in Nat
  /\ Scale * Scoring.blockingCapScore \in Nat /\ Scale * Scoring.unknownTrackCapScore \in Nat
  /\ Scale * Scoring.review < Scale * Scoring.apply
  /\ Scoring.blockingCapScore < Scoring.review =>
        Scale * Scoring.blockingCapScore < Scale * Scoring.review
  /\ Scoring.blockingCapScore < Scoring.apply =>
        Scale * Scoring.blockingCapScore < Scale * Scoring.apply
  /\ Scoring.unknownTrackCapScore < Scoring.apply =>
        Scale * Scoring.unknownTrackCapScore < Scale * Scoring.apply
<1>1. /\ Scoring.review \in Nat /\ Scoring.apply \in Nat
      /\ Scoring.blockingCapScore \in Nat /\ Scoring.unknownTrackCapScore \in Nat
      /\ Scoring.review < Scoring.apply
  BY ScoringAssumption
<1>2. Scale \in Nat \ {0}
  BY ScaleAssumption
<1>3. Scale * Scoring.review \in Nat /\ Scale * Scoring.apply \in Nat
  BY <1>1, <1>2
<1>4. Scale * Scoring.blockingCapScore \in Nat /\ Scale * Scoring.unknownTrackCapScore \in Nat
  BY <1>1, <1>2
<1>5. Scoring.blockingCapScore < Scoring.review =>
         Scale * Scoring.blockingCapScore < Scale * Scoring.review
  BY <1>1, <1>2, TimesStrict
<1>8. Scoring.blockingCapScore < Scoring.apply =>
         Scale * Scoring.blockingCapScore < Scale * Scoring.apply
  BY <1>1, <1>2, TimesStrict
<1>6. Scale * Scoring.review < Scale * Scoring.apply
  BY <1>1, <1>2, TimesStrict
<1>7. Scoring.unknownTrackCapScore < Scoring.apply =>
         Scale * Scoring.unknownTrackCapScore < Scale * Scoring.apply
  BY <1>1, <1>2, TimesStrict
<1> QED
  BY <1>3, <1>4, <1>5, <1>6, <1>7, <1>8

(* What the section says of the verdict it was chosen by.                  *)
LEMMA SectionMeans ==
  ASSUME NEW v, NEW g \in BOOLEAN
  PROVE  /\ SectionOf(v, g) = "recommended" => ~g /\ vacancy.linked /\ v = "apply"
         /\ SectionOf(v, g) = "periodBlocked" => g
         /\ SectionOf(v, g) = "discarded" => v = "discard"
         /\ SectionOf(v, g) = "unreachable" => v # "discard"
         /\ v = "discard" => SectionOf(v, g) \in {"periodBlocked", "discarded"}
BY DEF SectionOf

(* A period that is not reached begins in a later semester.                *)
LEMMA PeriodBeginsLater ==
  ASSUME NEW at \in Nat, NEW period \in 1..8,
         AcademicPeriod(at) # Completed, AcademicPeriod(at) < period
  PROVE  PeriodCalendar(period) > at
<1> DEFINE raw == at - CourseStart + 1
<1>1. at \in Int /\ CourseStart \in Int /\ raw \in Int
  BY TopicsAssumption
<1>2. CASE raw < 1
  BY <1>1, <1>2 DEF PeriodCalendar
<1>3. CASE raw > 8
  BY <1>1, <1>3 DEF AcademicPeriod
<1>4. CASE raw \in 1..8
  <2>1. AcademicPeriod(at) = raw
    BY <1>1, <1>4 DEF AcademicPeriod
  <2> QED
    BY <1>1, <2>1 DEF PeriodCalendar
<1> QED
  BY <1>1, <1>2, <1>3, <1>4

LEMMA SectionsFollow == Settled => SectionsHonest
<1> SUFFICES ASSUME Settled, judged # Missing
             PROVE  /\ section = "recommended" =>
                         /\ Scoring.blockingCapScore < Scoring.apply
                               => BlockingFailures(judged.matches) = {}
                         /\ Scoring.unknownTrackCapScore < Scoring.apply => ScoringTracks # {}
                         /\ ~LowConfidence /\ vacancy.linked
                    /\ BlockingFailures(judged.matches) # {}
                          /\ Scoring.blockingCapScore < Scoring.review
                         => section \in {"periodBlocked", "discarded"}
                    /\ section = "periodBlocked" =>
                         /\ RawScore(judged.matches) >= Scale * Scoring.review
                         /\ \A i \in BlockingFailures(judged.matches) :
                               PeriodCalendar(Req(i).minimumPeriod) > judged.at
                         /\ BlockingFailures(judged.matches) # {}
                    /\ section = "discarded" => judged.score < Scale * Scoring.review
                    /\ section = "unreachable" => judged.score >= Scale * Scoring.review
  BY DEF SectionsHonest
<1>1. PICK m \in {judged.matches}, p \in {judged.by}, at \in {judged.at} :
             at \in Nat /\ OutcomeOf(m, p, at)
  BY DEF Settled
<1>2. judged.score = Score(m) /\ section = SectionOf(VerdictOf(m), Gated(m, at))
  BY <1>1 DEF OutcomeOf
<1>3. vacancy \in Vacancies
  BY DEF Settled
<1>4. Gated(m, at) \in BOOLEAN
  BY DEF Gated
<1>5. /\ Score(m) \in Nat
      /\ \A cap \in Caps(m) : Score(m) <= Scale * cap
  BY <1>3, ScoreIsLeast
<1>6. VerdictOf(m) = "apply" => ~LowConfidence /\ Score(m) >= Scale * Scoring.apply
  BY DEF VerdictOf, ComputeVerdict
<1>7. VerdictOf(m) = "discard" => Score(m) < Scale * Scoring.review
  BY <1>5, ThresholdsInUnits DEF VerdictOf, ComputeVerdict
<1>8. VerdictOf(m) # "discard" => Score(m) >= Scale * Scoring.review
  BY <1>5, ThresholdsInUnits DEF VerdictOf, ComputeVerdict
<1>9. ASSUME section = "recommended"
      PROVE  /\ Scoring.blockingCapScore < Scoring.apply => BlockingFailures(m) = {}
             /\ Scoring.unknownTrackCapScore < Scoring.apply => ScoringTracks # {}
             /\ ~LowConfidence /\ vacancy.linked
  <2>1. VerdictOf(m) = "apply" /\ vacancy.linked
    BY <1>2, <1>4, <1>9, SectionMeans
  <2>2. Score(m) >= Scale * Scoring.apply
    BY <1>6, <2>1
  <2>3. BlockingFailures(m) # {} => Score(m) <= Scale * Scoring.blockingCapScore
    BY <1>5 DEF Caps
  <2>4. ScoringTracks = {} => Score(m) <= Scale * Scoring.unknownTrackCapScore
    BY <1>5 DEF Caps
  <2> QED
    BY <1>5, <1>6, <2>1, <2>2, <2>3, <2>4, ThresholdsInUnits
<1>10. ASSUME section = "periodBlocked"
       PROVE  /\ RawScore(m) >= Scale * Scoring.review
              /\ \A i \in BlockingFailures(m) : PeriodCalendar(Req(i).minimumPeriod) > at
              /\ BlockingFailures(m) # {}
  <2>1. Gated(m, at)
    BY <1>2, <1>4, <1>10, SectionMeans
  <2>2. PICK i \in BlockingFailures(m) :
          /\ BlockingFailures(m) = {i}
          /\ Req(i).minimumPeriod \in 1..8
          /\ AcademicPeriod(at) # Completed
          /\ AcademicPeriod(at) < Req(i).minimumPeriod
    BY <2>1 DEF Gated, DetectPeriodGate
  <2>3. PeriodCalendar(Req(i).minimumPeriod) > at
    BY <1>1, <2>2, PeriodBeginsLater
  <2> QED
    BY <2>1, <2>2, <2>3 DEF Gated
<1>11. section = "discarded" => judged.score < Scale * Scoring.review
  BY <1>2, <1>4, <1>7, SectionMeans
<1>12. section = "unreachable" => judged.score >= Scale * Scoring.review
  BY <1>2, <1>4, <1>8, SectionMeans
<1>13. ASSUME BlockingFailures(m) # {}, Scoring.blockingCapScore < Scoring.review
       PROVE  section \in {"periodBlocked", "discarded"}
  <2>1. Score(m) <= Scale * Scoring.blockingCapScore
    BY <1>5, <1>13 DEF Caps
  <2>2. Score(m) < Scale * Scoring.review
    BY <1>5, <1>13, <2>1, ThresholdsInUnits
  <2>3. VerdictOf(m) = "discard"
    BY <1>5, <1>8, <2>2, ThresholdsInUnits
  <2> QED
    BY <1>2, <1>4, <2>3, SectionMeans
<1> QED
  BY <1>9, <1>10, <1>11, <1>12, <1>13

(* SectionsHonest, for every criteria the schema accepts: no posting is    *)
(* recommended past too little to judge by, nor past a knockout or an      *)
(* unknown track whose cap is below what a recommendation takes; one whose *)
(* knockout caps it below a look is discarded or said to open later; and   *)
(* none is said to open later that the calendar alone does not hold back.  *)
THEOREM SectionsAreHonest == VerdictSpec => []SectionsHonest
<1> QED
  BY SettledAlways, SectionsFollow, PTL

-----------------------------------------------------------------------------
(* A cap that better answers still meet was met before.                    *)
LEMMA ScoreGrows ==
  ASSUME vacancy \in Vacancies, NEW m, NEW n,
         \A i \in Asks : StatusWeight(n[i].status) >= StatusWeight(m[i].status)
  PROVE  Score(n) >= Score(m)
<1>1. RawScore(m) <= RawScore(n)
  <2>1. /\ Coverage(m, "mandatory") \in Nat /\ Coverage(n, "mandatory") \in Nat
        /\ Coverage(m, "mandatory") <= Coverage(n, "mandatory")
    BY CoverageIsNatural, CoverageGrows
  <2>2. /\ Coverage(m, "desirable") \in Nat /\ Coverage(n, "desirable") \in Nat
        /\ Coverage(m, "desirable") <= Coverage(n, "desirable")
    BY CoverageIsNatural, CoverageGrows
  <2>3. Scoring.mandatory \in Nat /\ Scoring.desirable \in Nat /\ Scoring.trackAlignment \in Nat
    BY ScoringAssumption
  <2>4. /\ Scoring.mandatory * Coverage(m, "mandatory") <= Scoring.mandatory * Coverage(n, "mandatory")
        /\ Scoring.mandatory * Coverage(m, "mandatory") \in Nat
        /\ Scoring.mandatory * Coverage(n, "mandatory") \in Nat
    BY <2>1, <2>3, TimesMonotone
  <2>5. /\ Scoring.desirable * Coverage(m, "desirable") <= Scoring.desirable * Coverage(n, "desirable")
        /\ Scoring.desirable * Coverage(m, "desirable") \in Nat
        /\ Scoring.desirable * Coverage(n, "desirable") \in Nat
    BY <2>2, <2>3, TimesMonotone
  <2>6. Scoring.trackAlignment * TrackAlignment \in Nat
    BY <2>3, AlignmentIsNatural
  <2> QED
    BY <2>4, <2>5, <2>6 DEF RawScore
<1>2. Caps(n) \subseteq Caps(m)
  <2>1. \A i \in Asks : n[i].status # "met" => m[i].status # "met"
    BY DEF StatusWeight
  <2>2. BlockingFailures(n) \subseteq BlockingFailures(m)
    BY <2>1, WeighingIsFinite DEF BlockingFailures, Unmet
  <2> QED
    BY <2>2 DEF Caps
<1>3. /\ Score(m) \in Nat /\ Score(n) \in Nat /\ RawScore(n) \in Nat /\ RawScore(m) \in Nat
      /\ Score(m) <= RawScore(m)
      /\ \A cap \in Caps(m) : Score(m) <= Scale * cap
      /\ Score(n) \in {RawScore(n)} \cup {Scale * cap : cap \in Caps(n)}
  BY ScoreIsLeast, RawScoreIsNatural
<1>4. CASE Score(n) = RawScore(n)
  BY <1>1, <1>3, <1>4
<1>5. CASE Score(n) \in {Scale * cap : cap \in Caps(n)}
  BY <1>2, <1>3, <1>5
<1> QED
  BY <1>3, <1>4, <1>5

LEMMA VerdictGrows ==
  ASSUME vacancy \in Vacancies, NEW m, NEW n, Score(n) >= Score(m)
  PROVE  VerdictRank(VerdictOf(n)) >= VerdictRank(VerdictOf(m))
<1>1. Score(m) \in Nat /\ Score(n) \in Nat
  BY ScoreIsLeast
<1> QED
  BY <1>1, ThresholdsInUnits DEF VerdictRank, VerdictOf, ComputeVerdict

LEMMA StepNeverHurts ==
  ASSUME Settled, VerdictNext, judged # Missing, judged' \notin {judged, Missing},
         \A i \in Asks : StatusWeight(judged'.matches[i].status)
                           >= StatusWeight(judged.matches[i].status)
  PROVE  /\ judged'.score >= judged.score
         /\ VerdictRank(judged'.verdict) >= VerdictRank(judged.verdict)
<1>1. Judge
  BY DEF VerdictNext, NextSemester, FailToJudge, Learn
<1>2. PICK n \in Matchings :
        /\ judged'.matches = n /\ judged'.score = Score(n) /\ judged'.verdict = VerdictOf(n)
  BY <1>1 DEF Judge
<1>3. PICK m \in {judged.matches}, p \in {judged.by}, at \in {judged.at} :
             at \in Nat /\ OutcomeOf(m, p, at)
  BY DEF Settled
<1>4. judged.matches = m /\ judged.score = Score(m) /\ judged.verdict = VerdictOf(m)
  BY <1>3 DEF OutcomeOf
<1>5. \A i \in Asks : StatusWeight(n[i].status) >= StatusWeight(m[i].status)
  BY <1>2, <1>4
<1>6. vacancy \in Vacancies
  BY DEF Settled
<1>7. Score(n) >= Score(m)
  BY <1>5, <1>6, ScoreGrows
<1> QED
  BY <1>2, <1>4, <1>6, <1>7, VerdictGrows

(* BetterAnswersNeverHurt, for every number of requirements and every      *)
(* weighing: the divisions, caps and thresholds of Stage C keep the order  *)
(* of the answers.                                                         *)
THEOREM BetterAnswersDoNotHurt == VerdictSpec => BetterAnswersNeverHurt
<1>1. Settled /\ [VerdictNext]_verdictVars =>
        [judged # Missing /\ judged' \notin {judged, Missing}
           /\ (\A i \in Asks : StatusWeight(judged'.matches[i].status)
                                   >= StatusWeight(judged.matches[i].status))
         => /\ judged'.score >= judged.score
            /\ VerdictRank(judged'.verdict) >= VerdictRank(judged.verdict)]_verdictVars
  BY StepNeverHurts DEF verdictVars
<1> QED
  BY <1>1, SettledAlways, PTL DEF VerdictSpec, BetterAnswersNeverHurt
=============================================================================
