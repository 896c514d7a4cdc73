--------------------------- MODULE ModelTransport ---------------------------
(***************************************************************************)
(* Model calls over one OpenRouterClient: the retry loop of                *)
(* parseModelOutputWithRetries, the client's complete() and the circuit    *)
(* breaker every call of a run shares.                                     *)
(*                                                                         *)
(* A call of the loop runs from await to await: it asks the breaker and    *)
(* starts a request in one step, and learns the answer, tells the breaker  *)
(* and decides what to do next in another.  Stage B keeps several going,   *)
(* so answers reach the breaker in any order, however long ago their       *)
(* requests were admitted.  An answer is                                   *)
(*   good      content that fits the schema                                *)
(*   garbled   content that does not: a repair attempt                     *)
(*   down      timeout, network, 429, 5xx, provider error                  *)
(*   odd       an unexpected response: transient, but no sign of an outage *)
(*   refused   credentials, configuration, a bad request: permanent.       *)
(***************************************************************************)
EXTENDS Naturals

CONSTANTS
    Calls,                  \* parseModelOutputWithRetries calls of one run
    None,                   \* no trial yet
    FailureThreshold,       \* consecutive failures that open the circuit
    MaxTransportAttempts,
    MaxRepairAttempts

ASSUME NoneAssumption == None \notin Calls
ASSUME BudgetAssumption ==
    /\ FailureThreshold \in Nat \ {0}
    /\ MaxTransportAttempts \in Nat \ {0}
    /\ MaxRepairAttempts \in Nat \ {0}

VARIABLES
    circuit,      \* the breaker's state
    streak,       \* consecutiveFailures
    cooled,       \* the cooldown since openedAt has elapsed
    pc,           \* [Calls -> Stage]
    transport,    \* [Calls -> Nat]: transportAttempt
    repair,       \* [Calls -> Nat]: repairAttempt
    attempts,     \* [Calls -> Nat]: totalAttempts
    trial,        \* history: the last call let through half-open
    downs         \* history: signs of an outage since one of the contrary,
                  \* counted up to FailureThreshold

breaker == <<circuit, streak, cooled>>
budgets == <<transport, repair, attempts>>
past    == <<trial, downs>>
vars    == <<breaker, pc, budgets, past>>

Ended == {"ok", "invalid_output", "transport_failed", "permanent_error"}
Stage == {"idle", "asking", "inFlight", "sleeping"} \cup Ended

Goto(c, stage) == pc' = [pc EXCEPT ![c] = stage]

Init ==
    /\ circuit = "closed"
    /\ streak = 0
    /\ cooled = FALSE
    /\ pc = [c \in Calls |-> "idle"]
    /\ transport = [c \in Calls |-> 0]
    /\ repair = [c \in Calls |-> 0]
    /\ attempts = [c \in Calls |-> 0]
    /\ trial = None
    /\ downs = 0

-----------------------------------------------------------------------------
(* CircuitBreaker.                                                         *)

(* beforeCall lets the call through.                                       *)
Admits == circuit = "closed" \/ (circuit = "open" /\ cooled)

Close ==
    /\ circuit' = "closed"
    /\ streak' = 0
    /\ UNCHANGED cooled

Open == circuit' = "open" /\ cooled' = FALSE

(* onFailure(true).                                                        *)
TransportFailed ==
    IF circuit = "half_open"
    THEN Open /\ UNCHANGED streak
    ELSE /\ streak' = streak + 1
         /\ IF streak' >= FailureThreshold THEN Open ELSE UNCHANGED <<circuit, cooled>>

(* Mutation of CallAnswered: it counts like an outage.                     *)
AnswerAsOutage == TransportFailed

(* onFailure(false): the transport answered, which ends a trial.           *)
CallAnswered == IF circuit = "half_open" THEN Close ELSE UNCHANGED breaker

Cooldown ==
    /\ circuit = "open"
    /\ ~cooled
    /\ cooled' = TRUE
    /\ UNCHANGED <<circuit, streak, pc, budgets, past>>

-----------------------------------------------------------------------------
(* The loop.                                                               *)

(* Mutation of LastTransport: one retry too many.                          *)
LastTransportLate(c) == transport[c] >= MaxTransportAttempts

LastTransport(c) == transport[c] + 1 >= MaxTransportAttempts

CountTransport(c) ==
    /\ transport' = [transport EXCEPT ![c] = @ + 1]
    /\ Goto(c, IF LastTransport(c) THEN "transport_failed" ELSE "sleeping")
    /\ UNCHANGED repair

CountRepair(c) ==
    /\ repair' = [repair EXCEPT ![c] = @ + 1]
    /\ Goto(c, IF repair[c] + 1 >= MaxRepairAttempts THEN "invalid_output" ELSE "asking")
    /\ UNCHANGED transport

Attempt(c) == attempts' = [attempts EXCEPT ![c] = @ + 1]

Start(c) ==
    /\ pc[c] = "idle"
    /\ Goto(c, "asking")
    /\ UNCHANGED <<breaker, budgets, past>>

Request(c) ==
    /\ pc[c] = "asking"
    /\ Admits
    /\ circuit' = IF circuit = "open" THEN "half_open" ELSE circuit
    /\ trial' = IF circuit = "open" THEN c ELSE trial
    /\ Attempt(c)
    /\ Goto(c, "inFlight")
    /\ UNCHANGED <<streak, cooled, transport, repair, downs>>

(* Mutation of Refused: waiting for the breaker costs no attempt.          *)
WaitForBreaker(c) ==
    /\ pc[c] = "asking"
    /\ ~Admits
    /\ Goto(c, "sleeping")
    /\ UNCHANGED <<breaker, budgets, past>>

(* CircuitBreakerOpenError, category circuitOpen: a transient failure.     *)
Refused(c) ==
    /\ pc[c] = "asking"
    /\ ~Admits
    /\ Attempt(c)
    /\ CountTransport(c)
    /\ UNCHANGED <<breaker, past>>

AnswerGood(c) ==
    /\ pc[c] = "inFlight"
    /\ Close
    /\ Goto(c, "ok")
    /\ downs' = 0
    /\ UNCHANGED <<budgets, trial>>

AnswerGarbled(c) ==
    /\ pc[c] = "inFlight"
    /\ Close
    /\ CountRepair(c)
    /\ downs' = 0
    /\ UNCHANGED <<attempts, trial>>

AnswerDown(c) ==
    /\ pc[c] = "inFlight"
    /\ TransportFailed
    /\ CountTransport(c)
    /\ downs' = IF downs < FailureThreshold THEN downs + 1 ELSE downs
    /\ UNCHANGED <<attempts, trial>>

AnswerOdd(c) ==
    /\ pc[c] = "inFlight"
    /\ CallAnswered
    /\ CountTransport(c)
    /\ downs' = IF circuit = "half_open" THEN 0 ELSE downs
    /\ UNCHANGED <<attempts, trial>>

AnswerRefused(c) ==
    /\ pc[c] = "inFlight"
    /\ CallAnswered
    /\ Goto(c, "permanent_error")
    /\ downs' = IF circuit = "half_open" THEN 0 ELSE downs
    /\ UNCHANGED <<budgets, trial>>

(* The back-off, or the retry-after of the breaker, is over.               *)
Wake(c) ==
    /\ pc[c] = "sleeping"
    /\ Goto(c, "asking")
    /\ UNCHANGED <<breaker, budgets, past>>

Answer(c) ==
    \/ AnswerGood(c) \/ AnswerGarbled(c) \/ AnswerDown(c) \/ AnswerOdd(c) \/ AnswerRefused(c)

Step(c) == Request(c) \/ Refused(c) \/ Answer(c) \/ Wake(c)

Next == Cooldown \/ \E c \in Calls : Start(c) \/ Step(c)

Spec == Init /\ [][Next]_vars

(* Every request has a timeout and every sleep a timer.                    *)
Fairness == \A c \in Calls : WF_vars(Step(c))

FairSpec == Spec /\ Fairness

-----------------------------------------------------------------------------
(* Properties.                                                             *)

TypeOK ==
    /\ circuit \in {"closed", "open", "half_open"}
    /\ streak \in Nat
    /\ cooled \in BOOLEAN
    /\ pc \in [Calls -> Stage]
    /\ transport \in [Calls -> 0..MaxTransportAttempts]
    /\ repair \in [Calls -> 0..MaxRepairAttempts]
    /\ attempts \in [Calls -> Nat]
    /\ trial \in Calls \cup {None}
    /\ downs \in 0..FailureThreshold

(* circuit-breaker.ts: "otherwise the breaker would remain half-open       *)
(* forever".  Half-open lasts only while its trial is still to be          *)
(* answered, whatever the trial or a straggler from before answers.        *)
TrialIsOut == circuit = "half_open" => trial # None /\ pc[trial] = "inFlight"

(* The attempts of a call are bounded by the two budgets together,         *)
(* "derived rather than configured": refusals of the breaker included.     *)
AttemptsBounded ==
    \A c \in Calls : attempts[c] <= MaxTransportAttempts + MaxRepairAttempts - 1

(* isBreakerTrippingFailure: the circuit is shut only on evidence that the *)
(* provider is down, FailureThreshold timeouts or server errors with no    *)
(* answer to a good request or a trial in between; content failures of     *)
(* unrelated postings are none.                                            *)
ShutOnEvidence == circuit # "closed" => downs = FailureThreshold

(* The breaker neither sticks nor shuts without a reason.                  *)
BreakerSound == TrialIsOut /\ ShutOnEvidence

(* Every model call comes back with a result, also against a circuit that  *)
(* never closes again.                                                     *)
EveryCallReturns == \A c \in Calls : pc[c] = "asking" ~> pc[c] \in Ended
=============================================================================
