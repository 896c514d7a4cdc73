------------------------------ MODULE Verdict ------------------------------
(***************************************************************************)
(* What one posting is worth: from a model's answers to a place in the     *)
(* digest (ApiScorer with Stage C, and composeDigest).                     *)
(*                                                                         *)
(* A model answers, requirement by requirement, with a status and a quote  *)
(* of the profile.  Its answer is not trusted: a quote counts only when    *)
(* the profile shows that line now and the requirement is about it.  The   *)
(* checked answers are kept, for one profile in one academic period, and   *)
(* the score, the verdict and the section of the digest are computed from  *)
(* them by fixed rules.                                                    *)
(*                                                                         *)
(* The same posting is judged again, run after run, while the semesters    *)
(* pass and the candidate learns.  A score is counted in units of one      *)
(* Scale-th of a point, so that every coverage is a whole number.          *)
(***************************************************************************)
EXTENDS Integers, FiniteSets, FiniteSetsExt, Sequences

CONSTANTS
    Vacancies,      \* postings, as Stage A reads them
    Topics,         \* competencies and declared fields of a profile
    TracksOf,       \* [Topics -> set of tracks]: what each is tagged with
    ResumeVariants, \* sequence of sets of competencies
    CourseStart,    \* the semester the course starts in
    Scoring,        \* criteria.scoring: weights, thresholds, caps, trackWeights
    Scale,          \* units of a point
    Missing,        \* null
    Semesters       \* bound of the model: the half-years in which something happens

Tracks == DOMAIN Scoring.trackWeights \ {"unknown"}

Academic == "Academic enrollment"

ASSUME TopicsAssumption ==
    /\ Academic \notin Topics      \* no competency is named as the enrollment line is
    /\ ResumeVariants \in Seq(SUBSET Topics)
    /\ CourseStart \in Nat
    /\ Semesters \in (SUBSET Nat) \ {{}}

Weights == {"blocking", "mandatory", "desirable"}

(* What Stage A reads of one requirement.                                  *)
Requirement ==
    [weight : Weights, verifiable : BOOLEAN, names : SUBSET (Topics \cup {Academic}),
     kinds : SUBSET Tracks, tracks : SUBSET Tracks, vetoes : SUBSET Tracks, minimumPeriod : Nat]

ASSUME VacanciesAssumption ==
    \A v \in Vacancies : /\ v.requirements \in Seq(Requirement)
                         /\ v.titleTracks \subseteq Tracks
                         /\ v.linked \in BOOLEAN

(* The coverages are multiples of 1 / (2 n), the track weights of 1 / 10.  *)
ASSUME ScaleAssumption ==
    /\ Scale \in Nat \ {0}
    /\ \A n \in {5} \cup UNION {1..Len(v.requirements) : v \in Vacancies} : Scale % (2 * n) = 0

(* What CriteriaSchema demands of criteria.yaml, of a file whose weights,  *)
(* thresholds and caps are whole and whose track weights are tenths.  It   *)
(* does not relate the caps to the thresholds.                             *)
ASSUME ScoringAssumption ==
    /\ Scoring \in [mandatory : Nat, desirable : Nat, trackAlignment : Nat,
                    apply : 0..100, review : 0..100,
                    blockingCapScore : 0..100, unknownTrackCapScore : 0..100,
                    minExtractedRequirements : Nat,
                    trackWeights : [Tracks \cup {"unknown"} -> 0..10]]
    /\ Scoring.mandatory + Scoring.desirable + Scoring.trackAlignment = 100
    /\ Scoring.apply > Scoring.review

VARIABLES
    vacancy,    \* the posting
    semester,   \* the current half-year, absoluteSemesterIndex
    known,      \* the competencies the profile gives evidence of
    kept,       \* the Stage B cache: Missing, or answers, their key and when they were asked
    judged,     \* the last outcome, or Missing
    section     \* where the digest of that run shows the posting

verdictVars == <<vacancy, semester, known, kept, judged, section>>

-----------------------------------------------------------------------------
(* The profile at an instant.                                              *)

NotStarted == 0
Completed  == 9

(* The period of the course, 1 to 8, or what it is before and after.       *)
AcademicPeriod(at) ==
    LET raw == at - CourseStart + 1
    IN  IF raw < 1 THEN NotStarted ELSE IF raw > 8 THEN Completed ELSE raw

PeriodCalendar(period) == CourseStart + period - 1

(* Every line that may be quoted: the enrollment, with the period it is    *)
(* in, and one line per competency.                                        *)
EvidenceCatalog(profile, at) ==
    {[tag |-> Academic, text |-> AcademicPeriod(at)]}
      \cup {[tag |-> t, text |-> 0] : t \in profile}

(* The profile alone.                                                      *)
HashUndated(profile, at) == <<profile, NotStarted>>

(* What the answers are kept under.                                        *)
HashProfile(profile, at) == <<profile, AcademicPeriod(at)>>

-----------------------------------------------------------------------------
(* Stage B: the answer of a model to requirement r.                        *)

Statuses == {"met", "partial", "not_met"}

IsKnownProfileEvidence(quote, profile, at) == quote \in EvidenceCatalog(profile, at)

(* The requirement names the line's subject, or the kind of skill it is.   *)
IsApplicable(quote, r) ==
    \/ quote.tag \in r.names
    \/ quote.tag \in Topics /\ TracksOf[quote.tag] \cap r.kinds # {}

Evidence(quote, r, profile, at) ==
    IF /\ quote # Missing
       /\ IsKnownProfileEvidence(quote, profile, at)
       /\ IsApplicable(quote, r)
    THEN quote ELSE Missing

(* No evidence forces not_met.                                             *)
CreateMatch(status, evidence) ==
    [status |-> IF evidence = Missing THEN "not_met" ELSE status, evidence |-> evidence]

(* A model may say anything, and quote a line that is not there, or no     *)
(* longer is.                                                              *)
Quotes(at) == {Missing} \cup {[tag |-> Academic, text |-> AcademicPeriod(n)] : n \in {at - 1, at}}
                        \cup {[tag |-> t, text |-> 0] : t \in Topics}

AnswersTo(r, profile, at) ==
    {CreateMatch(s, Evidence(q, r, profile, at)) : s \in Statuses, q \in Quotes(at)}

Asks == DOMAIN vacancy.requirements
Req(i) == vacancy.requirements[i]

(* The answers of a cache row still stand.                                 *)
StillSupported(matches, profile, at) ==
    \A i \in Asks : matches[i].evidence # Missing =>
        /\ IsKnownProfileEvidence(matches[i].evidence, profile, at)
        /\ IsApplicable(matches[i].evidence, Req(i))

CacheHit == /\ kept # Missing
            /\ kept.key = HashProfile(known, semester)
            /\ StillSupported(kept.matches, known, semester)

-----------------------------------------------------------------------------
(* Stage C: the score and the verdict of a posting's matches.              *)

StatusWeight(status) == CASE status = "met" -> 2 [] status = "partial" -> 1 [] OTHER -> 0

(* A trait nobody can evidence counts nowhere.                             *)
Verifiable == {i \in Asks : Req(i).verifiable}
Weighing(weight) == {i \in Verifiable : Req(i).weight = weight}

Unmet(matches, indices) == {i \in indices : matches[i].status # "met"}

(* Half a requirement for a partial one: in halves, one for each met at    *)
(* least in part and one more for each that is met.                        *)
Points(matches, these) ==
    Cardinality({i \in these : StatusWeight(matches[i].status) >= 1})
      + Cardinality({i \in these : StatusWeight(matches[i].status) >= 2})

(* Over the requirements that were met at least in part.                   *)
CoverageOfAnswered(matches, weight) ==
    LET these == {i \in Weighing(weight) : matches[i].status # "not_met"}
    IN  IF these = {} THEN 0
        ELSE (Scale * Points(matches, these)) \div (2 * Cardinality(these))

(* Of the whole category; an empty one is covered.                         *)
Coverage(matches, weight) ==
    LET these == Weighing(weight)
    IN  IF these = {} THEN Scale
        ELSE (Scale * Points(matches, these)) \div (2 * Cardinality(these))

(* The title's tracks; the requirements' where the title names none.       *)
ScoringTracks == IF vacancy.titleTracks # {} THEN vacancy.titleTracks
                 ELSE UNION {Req(i).tracks : i \in Asks} \ UNION {Req(i).vetoes : i \in Asks}

TrackAlignment ==
    (Scale * (IF ScoringTracks = {} THEN Scoring.trackWeights["unknown"]
              ELSE Max({Scoring.trackWeights[t] : t \in ScoringTracks}))) \div 10

RawScore(matches) ==
    Scoring.mandatory * Coverage(matches, "mandatory")
    + Scoring.desirable * Coverage(matches, "desirable")
    + Scoring.trackAlignment * TrackAlignment

(* A knockout question is binary: a partial answer fails it.               *)
BlockingFailures(matches) == Unmet(matches, Weighing("blocking"))

Caps(matches) ==
    {100} \cup (IF BlockingFailures(matches) # {} THEN {Scoring.blockingCapScore} ELSE {})
          \cup (IF ScoringTracks = {} THEN {Scoring.unknownTrackCapScore} ELSE {})

Score(matches) == Min({RawScore(matches)} \cup {Scale * cap : cap \in Caps(matches)})

LowConfidence == Cardinality(Verifiable) < Scoring.minExtractedRequirements

ComputeVerdict(score) ==
    IF score >= Scale * Scoring.apply THEN "apply"
    ELSE IF score >= Scale * Scoring.review THEN "review" ELSE "discard"

(* Too little to judge by: at best worth a look.                           *)
VerdictOf(matches) ==
    LET verdict == ComputeVerdict(Score(matches))
    IN  IF LowConfidence /\ verdict = "apply" THEN "review" ELSE verdict

(* Any unmet blocking requirement may be the one.                          *)
DetectAmong(failures, at) ==
    \E i \in failures :
        /\ Req(i).minimumPeriod \in 1..8
        /\ AcademicPeriod(at) # Completed
        /\ AcademicPeriod(at) < Req(i).minimumPeriod

(* The only thing between the candidate and the posting is the calendar:   *)
(* the one unmet blocking requirement names a period not reached yet.      *)
DetectPeriodGate(failures, at) ==
    \E i \in failures :
        /\ failures = {i}
        /\ Req(i).minimumPeriod \in 1..8
        /\ AcademicPeriod(at) # Completed
        /\ AcademicPeriod(at) < Req(i).minimumPeriod

Gated(matches, at) ==
    /\ RawScore(matches) >= Scale * Scoring.review
    /\ DetectPeriodGate(BlockingFailures(matches), at)

-----------------------------------------------------------------------------
(* Which resume to send, and what to say in it.                            *)

MatchedCompetencies(matches) == {matches[i].evidence.tag : i \in {j \in Asks : matches[j].status # "not_met"}}
Overlap(n, matches) == Cardinality(ResumeVariants[n] \cap MatchedCompetencies(matches))

(* The first of those that overlap most, if any does.                      *)
RecommendVariant(matches) ==
    LET best == {n \in DOMAIN ResumeVariants : \A k \in DOMAIN ResumeVariants :
                    Overlap(n, matches) >= Overlap(k, matches) /\ Overlap(n, matches) > 0}
    IN  IF best = {} THEN Missing ELSE Min(best)

Highlights(matches) ==
    {matches[i].evidence : i \in {j \in Asks : matches[j].status = "met" /\ Req(j).weight # "desirable"}}

-----------------------------------------------------------------------------
VerdictInit ==
    /\ vacancy \in Vacancies
    /\ semester = Min(Semesters)
    /\ known = {}
    /\ kept = Missing
    /\ judged = Missing
    /\ section = "none"

(* Half a year goes by, or more.                                           *)
NextSemester ==
    /\ semester' \in {n \in Semesters : n > semester}
    /\ UNCHANGED <<vacancy, known, kept, judged, section>>

(* The candidate adds evidence of a competency to the profile.             *)
Learn(t) ==
    /\ t \notin known
    /\ known' = known \cup {t}
    /\ UNCHANGED <<vacancy, semester, kept, judged, section>>

(* The answers of this evaluation: those kept, or new ones.                *)
Matchings ==
    IF CacheHit THEN {kept.matches}
    ELSE {ms \in [Asks -> UNION {AnswersTo(Req(i), known, semester) : i \in Asks}] :
            \A i \in Asks : ms[i] \in AnswersTo(Req(i), known, semester)}

(* composeDigest, after executeDeliver has set the gated postings apart.   *)
SectionOf(verdict, gated) ==
    CASE gated                                       -> "periodBlocked"
      [] ~gated /\ verdict = "discard"               -> "discarded"
      [] ~gated /\ verdict # "discard" /\ ~vacancy.linked -> "unreachable"
      [] OTHER -> IF verdict = "apply" THEN "recommended" ELSE "review"

(* ApiScorer.score: the posting is judged, and placed in the run's digest. *)
Judge ==
    /\ \E ms \in Matchings :
         /\ kept' = IF CacheHit THEN kept
                    ELSE [key |-> HashProfile(known, semester), matches |-> ms,
                          asked |-> <<known, AcademicPeriod(semester)>>]
         /\ judged' = [matches |-> ms, score |-> Score(ms), verdict |-> VerdictOf(ms),
                       variant |-> RecommendVariant(ms), highlights |-> Highlights(ms),
                       by |-> known, at |-> semester]
         /\ section' = SectionOf(VerdictOf(ms), Gated(ms, semester))
    /\ UNCHANGED <<vacancy, semester, known>>

(* It could not be judged: it is shown for the candidate to look at.       *)
FailToJudge ==
    /\ judged' = Missing
    /\ section' = SectionOf("review", FALSE)
    /\ UNCHANGED <<vacancy, semester, known, kept>>

VerdictNext == NextSemester \/ Judge \/ FailToJudge \/ \E t \in Topics : Learn(t)

VerdictSpec == VerdictInit /\ [][VerdictNext]_verdictVars

-----------------------------------------------------------------------------
(* Whatever a model answered, and however long ago: every requirement that *)
(* the posting's last outcome credits is credited with a line the profile  *)
(* shows in the very semester of the outcome, to a requirement about it;   *)
(* the answers were given for that profile and that period, so that what   *)
(* the candidate has reached since is not judged by what was so before;    *)
(* and the advice rests on the same lines.                                 *)
CreditNeedsEvidence ==
    judged # Missing =>
      LET shown == EvidenceCatalog(judged.by, judged.at)
      IN  /\ \A i \in Asks : judged.matches[i].status # "not_met" =>
               /\ judged.matches[i].evidence \in shown
               /\ IsApplicable(judged.matches[i].evidence, Req(i))
          /\ kept.asked = <<judged.by, AcademicPeriod(judged.at)>>
          /\ judged.highlights \subseteq shown
          /\ judged.variant # Missing => ResumeVariants[judged.variant] \cap judged.by # {}

(* The section says what it promises: a recommended posting says enough to *)
(* judge, and fails no knockout and is of a kind that is searched for,     *)
(* where the caps are below what a recommendation takes; one that opens    *)
(* later is held back by its period alone, has not reached it, and is      *)
(* worth a look otherwise; one that fails a knockout that caps it below a  *)
(* look is in no other section than this and that of those discarded; and  *)
(* one that is not shown fell short of a look on its score.                *)
SectionsHonest ==
    LET failing == BlockingFailures(judged.matches)
    IN  judged # Missing =>
          /\ section = "recommended" =>
               /\ Scoring.blockingCapScore < Scoring.apply => failing = {}
               /\ Scoring.unknownTrackCapScore < Scoring.apply => ScoringTracks # {}
               /\ ~LowConfidence /\ vacancy.linked
          /\ failing # {} /\ Scoring.blockingCapScore < Scoring.review
               => section \in {"periodBlocked", "discarded"}
          /\ section = "periodBlocked" =>
               /\ RawScore(judged.matches) >= Scale * Scoring.review
               /\ \A i \in failing : PeriodCalendar(Req(i).minimumPeriod) > judged.at
               /\ failing # {}
          /\ section = "discarded" => judged.score < Scale * Scoring.review
          /\ section = "unreachable" => judged.score >= Scale * Scoring.review

VerdictRank(verdict) == CASE verdict = "apply" -> 3 [] verdict = "review" -> 2 [] OTHER -> 1

(* Better answers never hurt: where no answer got worse from one outcome   *)
(* to the next, neither the score nor the verdict falls.                   *)
BetterAnswersNeverHurt ==
    [][judged # Missing /\ judged' \notin {judged, Missing}
         /\ (\A i \in Asks : StatusWeight(judged'.matches[i].status)
                                 >= StatusWeight(judged.matches[i].status))
       => /\ judged'.score >= judged.score
          /\ VerdictRank(judged'.verdict) >= VerdictRank(judged.verdict)]_verdictVars
=============================================================================
