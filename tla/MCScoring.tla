------------------------------ MODULE MCScoring ------------------------------
(* The instances TLC checks of what a run does with its postings: which it *)
(* takes, the scoring batch, the model calls that makes, and the verdict.  *)
(* What ScoreBatch takes for granted of a call, that it ends, well, badly  *)
(* or fatally, ModelTransport promises (EveryCallReturns); each machine is *)
(* explored on its own, in one run.                                        *)
EXTENDS ScoreBatch, ModelTransport, Screening, Verdict
CONSTANTS p1, p2,       \* postings
          m1, m2, m3    \* calls

VARIABLE machine
MCInit == machine \in {"screening", "batch", "calls", "verdict"}
          /\ ScreenInit /\ BatchInit /\ Init /\ VerdictInit
          /\ (machine # "screening" => criteria = CHOOSE x \in AllCriteria : CriteriaSchema(x))
          /\ (machine # "verdict" => vacancy = CHOOSE x \in Vacancies : TRUE)
MCNext == /\ UNCHANGED machine
          /\ \/ machine = "batch"     /\ BatchNext  /\ UNCHANGED <<vars, screenVars, verdictVars>>
             \/ machine = "calls"     /\ Next       /\ UNCHANGED <<batchVars, screenVars, verdictVars>>
             \/ machine = "screening" /\ ScreenNext /\ UNCHANGED <<batchVars, vars, verdictVars>>
             \/ machine = "verdict"   /\ VerdictNext /\ UNCHANGED <<batchVars, vars, screenVars>>
\* The fairness of ModelTransport, while it is the one explored.
MCSpec == /\ MCInit /\ [][MCNext]_<<batchVars, vars, screenVars, verdictVars, machine>>
          /\ \A c \in Calls : WF_vars(machine = "calls" /\ Step(c))

\* Only the batch, for the questions about it alone.
MCBatchSpec == /\ machine = "batch" /\ BatchInit /\ Init /\ ScreenInit /\ VerdictInit
               /\ [][BatchNext /\ UNCHANGED <<vars, screenVars, verdictVars, machine>>]_<<batchVars, vars, screenVars, verdictVars, machine>>

-----------------------------------------------------------------------------
\* Three postings: one of a Brazilian board, that a second source also knows,
\* and two from abroad.  Half a day is one unit of time.
Job(source, country, deadline, publishedAt) ==
  [title |-> {"estagio", "dev"}, company |-> "acme", source |-> source, city |-> "rio",
   workMode |-> "onsite", deadline |-> deadline, publishedAt |-> publishedAt, country |-> country]
MCStatements ==
  [home  |-> {Job("gupy", Unstated, 2, Unstated)} \cup
             {[Job("linkedin", "br", d, 7) EXCEPT !.workMode = "remote"] : d \in {3, Unstated}},
   far   |-> {Job("linkedin", "us", Unstated, 1), [Job("linkedin", "us", Unstated, 1) EXCEPT !.title = {"estagio", "d", "ev"}]},
   other |-> {[Job("catho", "us", Unstated, Unstated) EXCEPT !.city = Unstated, !.title = @ \cup {"junior"}]}]

Criteria(exclude, within, cutover, budget) ==
  [titleBlocklist |-> {"senior"}, titleRequired |-> {"estagio"}, rejectUnknownTrack |-> TRUE,
   blockedCompanies |-> {}, maxAge |-> 2, undatedCutover |-> cutover, maxFutureSkew |-> 2,
   stillListedWithin |-> within, stillListedMaxAge |-> 4,
   cities |-> {"rio"}, allowRemote |-> TRUE, nationwideSources |-> {"catho"},
   minKeywordAdherence |-> 1,
   tracks |-> [dev |-> {"dev"}], trackExclusions |-> [dev |-> exclude],
   trackWeights |-> [dev |-> 10, unknown |-> 4],
   homeCountry |-> "br", sourceDefaultCountry |-> [gupy |-> "br"], maxInternationalPerRun |-> budget]
MCCriteria == {[Criteria({}, 1, Unstated, 1) EXCEPT !.nationwideSources = {}],
               Criteria({"junior"}, Unstated, 1, Unstated),
               [Criteria({}, 1, 1, 1) EXCEPT !.maxAge = 1, !.rejectUnknownTrack = FALSE]}

\* Postings: one that a period alone may hold back; one that a second knockout
\* holds back too, without a link; one of traits; one whose title says nothing.
Ask(weight, names) ==
  [weight |-> weight, verifiable |-> TRUE, names |-> names, kinds |-> {},
   tracks |-> {}, vetoes |-> {}, minimumPeriod |-> 0]
Period(n) == [Ask("blocking", {Academic}) EXCEPT !.minimumPeriod = n]
Skill == [Ask("mandatory", {}) EXCEPT !.kinds = {"dev"}, !.tracks = {"dev"}]
Trait == [Ask("mandatory", {}) EXCEPT !.verifiable = FALSE]
Vacancy(reqs, tracks, linked) == [requirements |-> reqs, titleTracks |-> tracks, linked |-> linked]
MCVacancies ==
  {Vacancy(<<Period(3), Skill>>, {"dev"}, TRUE),
   Vacancy(<<Period(2), Ask("blocking", {"english"})>>, {"dev"}, FALSE),
   Vacancy(<<Trait, Ask("desirable", {"english"})>>, {}, TRUE),
   Vacancy(<<Trait>>, {"dev"}, TRUE),
   Vacancy(<<Skill, Ask("mandatory", {"english"})>>, {}, TRUE)}
MCTracksOf == [node |-> {"dev"}, english |-> {}]
MCVariants == <<{"english"}, {"node"}>>
MCWeights == [mandatory |-> 35, desirable |-> 20, trackAlignment |-> 45, apply |-> 70, review |-> 45,
              blockingCapScore |-> 35, unknownTrackCapScore |-> 50, minExtractedRequirements |-> 1,
              trackWeights |-> [dev |-> 10, unknown |-> 4]]
=============================================================================
