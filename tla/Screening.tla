----------------------------- MODULE Screening -----------------------------
(***************************************************************************)
(* What a run does before it spends a model call: the deterministic        *)
(* pre-filter, the order of the scoring budget, and the cap on postings    *)
(* from abroad (executeDeliver's first half, with src/src/prefilter).      *)
(*                                                                         *)
(* Every run decides anew about every posting that was not notified yet,   *)
(* from its row: what the sources stated of it, sweep after sweep, and     *)
(* when it was sighted first and last.  Two sources may know one posting,  *)
(* state different parts of it, and punctuate its title differently.  Two  *)
(* clocks meet: a run judges by the instant it began at, and a sweep may   *)
(* see a posting between that instant and the moment the run reads the     *)
(* row.                                                                    *)
(*                                                                         *)
(* A title is the set of its words after normalizeTitle, a phrase being    *)
(* one word: whole-word matching is membership.  Time is counted so that   *)
(* DayLen units are a day; a date without a time is a multiple of DayLen.  *)
(***************************************************************************)
EXTENDS Integers, FiniteSets, SequencesExt

CONSTANTS
    Screened,        \* the postings
    Statements,      \* [Screened -> set of what the sources state of it]
    AllCriteria,     \* the criteria files the operator may have written
    ProfileKeywords, \* deriveProfileKeywords
    DayLen,          \* units of time in a day
    Unstated,        \* null
    MaxTime, MaxScreenings, MaxSightings   \* bounds of the model

OrUnstated(S) == S \cup {Unstated}

(* What a source states of a posting.                                      *)
Statement ==
    [title : SUBSET STRING, company : STRING, source : STRING, city : OrUnstated(STRING),
     workMode : STRING, deadline : OrUnstated(Int), publishedAt : OrUnstated(Int),
     country : OrUnstated(STRING)]

(* A stored row: with the instants of the first and the last sighting.     *)
Row ==
    [title : SUBSET STRING, company : STRING, source : STRING, city : OrUnstated(STRING),
     workMode : STRING, deadline : OrUnstated(Int), publishedAt : OrUnstated(Int),
     country : OrUnstated(STRING), first : Nat, last : Nat]

(* A posting is its fingerprint: the company and the city, as the rules    *)
(* compare them, and the title but for its punctuation, by which the rules *)
(* tell its words apart.                                                   *)
ASSUME StatementsAssumption ==
    /\ IsFiniteSet(Screened)
    /\ Unstated \notin Int \cup STRING \cup Row
    /\ Statements \in [Screened -> SUBSET Statement]
    /\ \A p \in Screened : \A f, g \in Statements[p] :
          <<f.company, f.city>> = <<g.company, g.city>>

ASSUME CriteriaAssumption ==
    /\ DayLen \in Nat \ {0}
    /\ \A c \in AllCriteria :
          /\ {c.maxAge, c.stillListedWithin, c.stillListedMaxAge, c.undatedCutover,
              c.maxInternationalPerRun} \subseteq OrUnstated(Int)
          /\ c.maxFutureSkew \in Int

VARIABLES
    criteria,   \* the criteria file in force
    now,        \* the clock
    row,        \* [Screened -> the stored row, or Unstated]
    startedAt,  \* when the run under way began, or Unstated
    decision,   \* [Screened -> the last recorded decision, its instant and row]
    batch,      \* what the last run went on to score, in order
    screenings, sightings  \* counters, for the bounds

screenVars == <<criteria, now, row, startedAt, decision, batch, screenings, sightings>>

-----------------------------------------------------------------------------
(* CriteriaSchema: the files that load.                                    *)

PositiveOrNull(x) == x = Unstated \/ x > 0

AgeBounds(c) ==
    /\ \A f \in {"maxAge", "stillListedWithin", "stillListedMaxAge"} : PositiveOrNull(c[f])
    /\ c.maxFutureSkew >= 0
    /\ c.maxInternationalPerRun = Unstated \/ c.maxInternationalPerRun >= 0

TrackTables(c) ==
    /\ DOMAIN c.trackExclusions = DOMAIN c.tracks
    /\ DOMAIN c.trackWeights = DOMAIN c.tracks \cup {"unknown"}
    /\ \A t \in DOMAIN c.trackWeights : c.trackWeights[t] \in 0..10     \* tenths

CriteriaSchema(c) ==
    c.titleRequired # {} /\ c.minKeywordAdherence >= 0 /\ AgeBounds(c) /\ TrackTables(c)

-----------------------------------------------------------------------------
(* The rules, each of the posting in row r.                                *)

TitleMatchesAny(title, terms) == title \cap terms # {}
KeywordMatchesText(title, word) == word \in title

ClassifyTrack(title, c) ==
    {t \in DOMAIN c.tracks :
        /\ ~\E w \in c.trackExclusions[t] : KeywordMatchesText(title, w)
        /\ \E w \in c.tracks[t] : KeywordMatchesText(title, w)}

(* A date without a time is open through the whole day.                    *)
ClosesAt(deadline) == IF deadline % DayLen = 0 THEN deadline + DayLen ELSE deadline

IsExpired(r, at) == r.deadline # Unstated /\ ClosesAt(r.deadline) <= at

IsStillListedBySource(r, c, at) ==
    /\ c.stillListedWithin # Unstated
    /\ at - r.last \in 0..c.stillListedWithin

ImplausiblyFuture(r, c, at) ==
    r.publishedAt # Unstated /\ r.publishedAt - at > c.maxFutureSkew

(* Publication date, or first sighting where there is none to go by.       *)
Dated(r) == IF r.publishedAt = Unstated THEN r.first ELSE r.publishedAt

AgeOf(r, c, at) == at - (IF ImplausiblyFuture(r, c, at) THEN r.first ELSE Dated(r))

(* Being listed outranks every estimate of age, up to a ceiling.           *)
Rescued(r, c, at) ==
    /\ IsStillListedBySource(r, c, at)
    /\ c.stillListedMaxAge = Unstated \/ AgeOf(r, c, at) <= c.stillListedMaxAge

IsTooOld(r, c, at) ==
    /\ c.maxAge # Unstated
    /\ ~Rescued(r, c, at)
    /\ \/ /\ r.publishedAt = Unstated
          /\ c.undatedCutover # Unstated
          /\ r.first <= c.undatedCutover
       \/ AgeOf(r, c, at) > c.maxAge

IsLocationAllowed(r, c) ==
    CASE r.workMode = "remote" -> c.allowRemote
      [] r.workMode # "remote" /\ r.city = Unstated -> r.source \notin c.nationwideSources
      [] OTHER -> r.city \in c.cities

HasMinKeywordAdherence(r, c) ==
    Cardinality({w \in ProfileKeywords : KeywordMatchesText(r.title, w)}) >= c.minKeywordAdherence

Reasons == <<"title_blocked", "title_missing_required_term", "track_unknown", "company_blocked",
             "expired", "too_old", "location_not_allowed", "insufficient_keyword_adherence">>

Rejects(reason, r, c, at) ==
    CASE reason = "title_blocked"               -> TitleMatchesAny(r.title, c.titleBlocklist)
      [] reason = "title_missing_required_term" -> ~TitleMatchesAny(r.title, c.titleRequired)
      [] reason = "track_unknown"   -> c.rejectUnknownTrack /\ ClassifyTrack(r.title, c) = {}
      [] reason = "company_blocked" -> r.company \in c.blockedCompanies
      [] reason = "expired"         -> IsExpired(r, at)
      [] reason = "too_old"         -> IsTooOld(r, c, at)
      [] reason = "location_not_allowed" -> ~IsLocationAllowed(r, c)
      [] OTHER                           -> ~HasMinKeywordAdherence(r, c)

(* The first rule that fails gives the reason.                             *)
ApplyPreFilter(r, c, at) ==
    LET failing == {i \in DOMAIN Reasons : Rejects(Reasons[i], r, c, at)}
    IN  IF failing = {} THEN "passed" ELSE Reasons[Min(failing)]

-----------------------------------------------------------------------------
(* The order and the bounds of the budget.                                 *)

TrackWeight(title, c) ==
    LET tracks == ClassifyTrack(title, c)
    IN  IF tracks = {} THEN c.trackWeights["unknown"]
        ELSE Max({c.trackWeights[t] : t \in tracks})

(* The two dates in one key, the later winning.                            *)
RankByLatest(r, c, at) == <<Max({Dated(r), r.last}), TrackWeight(r.title, c), 0>>

(* What a posting is ranked by; each key decides among equals of the last. *)
Rank(r, c, at) == << IF IsStillListedBySource(r, c, at) THEN 1 ELSE 0,
                     Dated(r),
                     TrackWeight(r.title, c) >>

Outranks(a, b) == \E k \in 1..3 : a[k] > b[k] /\ \A j \in 1..(k - 1) : a[j] = b[j]

(* The rows come in any order, and equals keep it.                         *)
RankForScoring(passing, at) ==
    LET RankOf(p) == Rank(row[p], criteria, at)
    IN  {s \in SetToSeqs(passing) :
            \A i, j \in DOMAIN s : i < j => ~Outranks(RankOf(s[j]), RankOf(s[i]))}

CountryOf(r, c) ==
    IF r.country # Unstated THEN r.country
    ELSE IF r.source \in DOMAIN c.sourceDefaultCountry THEN c.sourceDefaultCountry[r.source]
         ELSE Unstated

IsNationalPosting(r, c) == c.homeCountry = Unstated \/ CountryOf(r, c) = c.homeCountry

(* Those of one origin, in their order.                                    *)
PartitionByOrigin(ranked, national) ==
    LET those == {p \in Range(ranked) : IsNationalPosting(row[p], criteria) = national}
    IN  {s \in SetToSeqs(those) :
            \A i, j \in DOMAIN s, k, l \in DOMAIN ranked :
               i < j /\ s[i] = ranked[k] /\ s[j] = ranked[l] => k < l}

(* As many of those from abroad as the budget of a run admits.             *)
AdmittedInternational(abroad) ==
    LET budget == criteria.maxInternationalPerRun
    IN  IF budget = Unstated \/ budget >= Len(abroad) THEN abroad
        ELSE SubSeq(abroad, 1, budget)

-----------------------------------------------------------------------------
Undecided == [outcome |-> "none", at |-> Unstated, by |-> Unstated]

ScreenInit ==
    /\ criteria \in {c \in AllCriteria : CriteriaSchema(c)}
    /\ now = 0
    /\ row = [p \in Screened |-> Unstated]
    /\ startedAt = Unstated
    /\ decision = [p \in Screened |-> Undecided]
    /\ batch = <<>>
    /\ screenings = 0
    /\ sightings = 0

(* Time passes.                                                            *)
Later ==
    /\ now < MaxTime
    /\ now' = now + 1
    /\ UNCHANGED <<criteria, row, startedAt, decision, batch, screenings, sightings>>

(* The last statement replaces the row's.                                  *)
Overwritten(r, f) == [deadline |-> f.deadline, publishedAt |-> f.publishedAt, country |-> f.country]

(* What a source does not state is not taken back: the row keeps it.       *)
Coalesced(r, f) ==
    [deadline    |-> IF f.deadline = Unstated THEN r.deadline ELSE f.deadline,
     publishedAt |-> IF f.publishedAt = Unstated THEN r.publishedAt ELSE f.publishedAt,
     country     |-> IF f.country = Unstated THEN r.country ELSE f.country]

(* A row's columns: what f states, kept where that is not restated, and    *)
(* the instants.                                                           *)
Stored(f, says, first) ==
    [title |-> f.title, company |-> f.company, source |-> f.source, city |-> f.city,
     workMode |-> f.workMode, deadline |-> says.deadline, publishedAt |-> says.publishedAt,
     country |-> says.country, first |-> first, last |-> now]

(* A sweep returns the posting, stating f: upsert stores it, or brings the *)
(* row up to date and moves lastSeenAt.                                    *)
Sight(p, f) ==
    /\ sightings < MaxSightings
    /\ sightings' = sightings + 1
    /\ row' = [row EXCEPT ![p] =
         IF @ = Unstated THEN Stored(f, f, now) ELSE Stored(f, Coalesced(@, f), @.first)]
    /\ UNCHANGED <<criteria, now, startedAt, decision, batch, screenings>>

(* A run begins: the instant it will judge by.                             *)
StartScreening ==
    /\ startedAt = Unstated /\ screenings < MaxScreenings
    /\ startedAt' = now
    /\ screenings' = screenings + 1
    /\ UNCHANGED <<criteria, now, row, decision, batch, sightings>>

(* It reads the rows and decides about each; national postings go first,   *)
(* those beyond the budget are deferred.                                   *)
Screen ==
    /\ startedAt # Unstated
    /\ LET claimed == {p \in Screened : row[p] # Unstated}
           outcome == [p \in claimed |-> ApplyPreFilter(row[p], criteria, startedAt)]
       IN  \E ranked \in RankForScoring({p \in claimed : outcome[p] = "passed"}, startedAt) :
           \E national \in PartitionByOrigin(ranked, TRUE), abroad \in PartitionByOrigin(ranked, FALSE) :
             LET admitted == national \o AdmittedInternational(abroad)
                 Outcome(p) == IF p \in Range(ranked) \ Range(admitted) THEN "deferred" ELSE outcome[p]
             IN  /\ batch' = admitted
                 /\ decision' = [p \in Screened |->
                      IF p \in claimed
                      THEN [outcome |-> Outcome(p), at |-> startedAt, by |-> row[p]]
                      ELSE decision[p]]
    /\ startedAt' = Unstated
    /\ UNCHANGED <<criteria, now, row, screenings, sightings>>

ScreenNext ==
    \/ Later \/ StartScreening \/ Screen
    \/ \E p \in Screened : \E f \in Statements[p] : Sight(p, f)

ScreenSpec == ScreenInit /\ [][ScreenNext]_screenVars

-----------------------------------------------------------------------------
Passed  == {"passed", "deferred"}
ByTitle == {"title_blocked", "title_missing_required_term", "track_unknown", "company_blocked"}

(* What may become of a decision when the posting is decided again, under  *)
(* the same criteria and with its title spelled as before: a passed        *)
(* posting is lost to time, or to what a source stated since about the     *)
(* place; a closed one is open again only when a source stated a deadline  *)
(* that closes later, which a date may do that is not later than the       *)
(* instant stated before; one that was too old is back only when a source  *)
(* showed it again, or when the publication date was not to be believed    *)
(* yet.                                                                    *)
Follows(before, after) ==
    LET Respelled == before.by.title # after.by.title
        Restated  == <<before.by.source, before.by.workMode>> # <<after.by.source, after.by.workMode>>
    IN  \/ Respelled
        \/ /\ before.outcome \in ByTitle => after.outcome = before.outcome
           /\ before.outcome = "expired" =>
                 \/ after.outcome = "expired"
                 \/ /\ after.by.deadline # Unstated
                    /\ ClosesAt(after.by.deadline) > ClosesAt(before.by.deadline)
           /\ before.outcome = "too_old" =>
                 \/ after.outcome \in {"expired", "too_old"}
                 \/ after.by.last >= before.at
                 \/ ImplausiblyFuture(before.by, criteria, before.at)
           /\ before.outcome \in Passed =>
                 after.outcome \in Passed \cup {"expired", "too_old"} \/ Restated

(* applyPreFilter decides the same posting again in every run: its answers *)
(* contradict each other only for the reasons Follows names.               *)
ScreeningIsStable ==
    [][\A p \in Screened :
         decision[p] # Undecided /\ decision'[p] # decision[p]
           => Follows(decision[p], decision'[p])]_screenVars

(* A run pays for the right postings: the batch is the postings that       *)
(* passed, every national one among them, and one from abroad is deferred  *)
(* only with its budget used up, on postings from abroad that are no       *)
(* worse: none that its source no longer lists before one that it does,    *)
(* and of the same standing none that is older.                            *)
BudgetWellSpent ==
    /\ Range(batch) = {p \in Screened : decision[p].outcome = "passed"}
    /\ \A p \in Screened : decision[p].outcome = "deferred" =>
         LET at    == decision[p].at
             By(q) == decision[q].by
             Ahead == {q \in Range(batch) : ~IsNationalPosting(By(q), criteria)}
             Listed(q) == IsStillListedBySource(By(q), criteria, at)
         IN  /\ ~IsNationalPosting(By(p), criteria)
             /\ Cardinality(Ahead) = criteria.maxInternationalPerRun
             /\ \A q \in Ahead :
                  /\ Listed(p) => Listed(q)
                  /\ Listed(p) = Listed(q) => Dated(By(q)) >= Dated(By(p))
=============================================================================
