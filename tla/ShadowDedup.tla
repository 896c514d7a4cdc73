---------------------------- MODULE ShadowDedup ----------------------------
(***************************************************************************)
(* The second layer of dedup (persistence/application/dedup-similar-       *)
(* postings.ts, posting/domain/title-similarity.ts): pairs of postings of  *)
(* one company that look like the same opening are reported for a human to *)
(* judge.  No posting is left out for it; the flags an older, destructive  *)
(* version set are still there, and the operator may take them back.       *)
(*                                                                         *)
(* A company and a title are sequences of words.  The bigrams of a word are*)
(* its pieces; those across two words of a title are left out.             *)
(***************************************************************************)
EXTENDS Naturals, Sequences, FiniteSets, FiniteSetsExt, SequencesExt

CONSTANTS LegalForms,      \* COMPANY_SUFFIXES
          Pieces,          \* for each word outside STOPWORDS, the bag of its bigrams
          Postings,        \* what may be collected: company, title and city of each
          Threshold100,    \* similarityThreshold, in percent
          WindowDays, MaxComparisons,
          LastDay,         \* bound: the day the clock stops at
          MaxStored        \* bound: postings in the corpus

AllPieces == UNION {DOMAIN Pieces[w] : w \in DOMAIN Pieces}

ASSUME DedupAssumption ==
  /\ Threshold100 \in 1..100 /\ WindowDays \in Nat /\ MaxComparisons \in Nat \ {0}
  /\ {LastDay, MaxStored} \subseteq Nat
  /\ Postings \subseteq [company : Seq(STRING) \ {<<>>}, title : Seq(STRING), city : STRING]
  /\ IsFiniteSet(AllPieces) /\ \A w \in DOMAIN Pieces : \A b \in DOMAIN Pieces[w] : Pieces[w][b] \in Nat \ {0}

VARIABLES today,
          corpus,     \* stored postings, in the order of their rows
          flagged,    \* rows whose duplicateOfFingerprint is set
          scanned,    \* rows the pass under way, or the last one, has read
          groups,     \* companies the pass has still to look at
          queue,      \* postings of the present company to compare, oldest first
          past, from, \* those compared, and the first still in the window
          report,     \* pairs of a candidate and its canonical posting
          cut         \* postings that were compared with a part of the window only
dedupVars == <<today, corpus, flagged, scanned, groups, queue, past, from, report, cut>>

DedupInit ==
  /\ today = 0 /\ flagged \in SUBSET {1}
  /\ \E p \in Postings : corpus = <<[p |-> p, first |-> 0]>>
  /\ scanned = {} /\ groups = {} /\ queue = <<>> /\ past = <<>> /\ from = 1 /\ report = {} /\ cut = {}

-----------------------------------------------------------------------------
(* When two postings look alike *)

\* A company without the legal suffixes at its end, of which one word remains.
CompanyOf(i) ==
  LET words == corpus[i].p.company
      n == Min({k \in 1..Len(words) : \A j \in (k + 1)..Len(words) : words[j] \in LegalForms}) IN
  SubSeq(words, 1, n)

\* How often a title has the bigram b: once for each time that one of its words does.
Count(title, b) ==
  LET Has(k) == title[k] \in DOMAIN Pieces /\ b \in DOMAIN Pieces[title[k]] IN
  Cardinality(UNION {{k} \X (1..Pieces[title[k]][b]) : k \in {j \in DOMAIN title : Has(j)}})

\* The bag of its bigrams, the copies of one numbered: what two titles share is what
\* is in both.
Bigrams(title) == UNION {{b} \X (1..Count(title, b)) : b \in AllPieces}
Size(title)    == Cardinality(Bigrams(title))
Shared(t, u)   == Cardinality(Bigrams(t) \cap Bigrams(u))

Similar(i, j) ==
  LET t == corpus[i].p.title  u == corpus[j].p.title IN
  /\ Size(t) + Size(u) > 0
  /\ 200 * Shared(t, u) >= Threshold100 * (Size(t) + Size(u))

\* An unknown location is a city of its own: two agree, one and a known city do not.
LocationsAgree(i, j) == corpus[i].p.city = corpus[j].p.city

Apart(i, j) == IF corpus[i].first <= corpus[j].first THEN corpus[j].first - corpus[i].first
                                                     ELSE corpus[i].first - corpus[j].first
WithinWindow(i, j) == Apart(i, j) <= WindowDays

-----------------------------------------------------------------------------
(* The corpus *)

Tomorrow ==
  /\ today < LastDay /\ today' = today + 1
  /\ UNCHANGED <<corpus, flagged, scanned, groups, queue, past, from, report, cut>>

\* A collection stores a posting it does not hold yet; the instant it was collected
\* at may be older than rows another process has stored meanwhile.
Store(p) ==
  /\ Len(corpus) < MaxStored /\ \A i \in DOMAIN corpus : corpus[i].p # p
  /\ \E first \in {today, IF today = 0 THEN 0 ELSE today - 1} :
       corpus' = Append(corpus, [p |-> p, first |-> first])
  /\ UNCHANGED <<today, flagged, scanned, groups, queue, past, from, report, cut>>

\* argos restore-duplicate, or dedup --reset.
TakeBack ==
  /\ flagged # {} /\ flagged' = {}
  /\ UNCHANGED <<today, corpus, scanned, groups, queue, past, from, report, cut>>

-----------------------------------------------------------------------------
(* A pass *)

Running == groups # {} \/ queue # <<>>

\* It reads what is active, once.
Read ==
  /\ ~ Running
  /\ scanned' = DOMAIN corpus \ flagged
  /\ groups' = {CompanyOf(i) : i \in scanned'}
  /\ queue' = <<>> /\ past' = <<>> /\ from' = 1 /\ report' = {} /\ cut' = {}
  /\ UNCHANGED <<today, corpus, flagged>>

Before(i, j) == corpus[i].first < corpus[j].first \/ (corpus[i].first = corpus[j].first /\ i < j)

\* Mutation of OldestFirst: the rows as they come.
AsStored(S) == CHOOSE s \in SetToSeqs(S) : \A k, l \in DOMAIN s : k < l => s[k] < s[l]

OldestFirst(S) == CHOOSE s \in SetToSeqs(S) : \A k, l \in DOMAIN s : k < l => Before(s[k], s[l])

TakeGroup(company) ==
  /\ queue = <<>> /\ company \in groups /\ groups' = groups \ {company}
  /\ queue' = OldestFirst({i \in scanned : CompanyOf(i) = company})
  /\ past' = <<>> /\ from' = 1
  /\ UNCHANGED <<today, corpus, flagged, scanned, report, cut>>

\* The window only moves forward: what fell out of it is not looked at again.
FirstInWindow(candidate) ==
  Min({k \in from..(Len(past) + 1) : k = Len(past) + 1 \/ WithinWindow(past[k], candidate)})

\* The newest of those in the window.
Compared(start) == LET n == Len(past) IN
  SubSeq(past, Max({start, IF n < MaxComparisons THEN 1 ELSE n - MaxComparisons + 1}), n)

Compare ==
  /\ queue # <<>>
  /\ LET candidate == Head(queue)
         start     == FirstInWindow(candidate)
         earlier   == Compared(start)
         alike     == {k \in DOMAIN earlier : LocationsAgree(earlier[k], candidate)
                                              /\ Similar(earlier[k], candidate)} IN
     /\ from' = start
     /\ report' = IF alike = {} THEN report ELSE report \cup {<<candidate, earlier[Min(alike)]>>}
     /\ cut' = IF Len(past) + 1 - start > MaxComparisons THEN cut \cup {candidate} ELSE cut
     /\ past' = Append(past, candidate) /\ queue' = Tail(queue)
  /\ UNCHANGED <<today, corpus, flagged, scanned, groups>>

DedupNext == \/ Tomorrow \/ TakeBack \/ Read \/ Compare
             \/ \E p \in Postings : Store(p)
             \/ \E company \in groups : TakeGroup(company)
DedupSpec == DedupInit /\ [][DedupNext]_dedupVars

-----------------------------------------------------------------------------
\* Two postings a human would have to judge: of one company, whatever its legal form,
\* in places that do not contradict each other, at most a window apart, alike in what
\* their titles say beyond boilerplate.
Alike(j, i) == /\ Before(i, j) /\ CompanyOf(i) = CompanyOf(j)
               /\ WithinWindow(i, j) /\ LocationsAgree(i, j) /\ Similar(i, j)
Pairs == {x \in scanned \X scanned : Alike(x[1], x[2])}
InBetween(i, j) == {k \in scanned : Before(i, k) /\ Before(k, j) /\ CompanyOf(k) = CompanyOf(j)}

\* A pass reports those pairs and no other, one for each candidate, with the oldest posting
\* it repeats, and never by titles that say nothing; it misses one only if more postings
\* than it may compare lie between the two, and then says that it compared a part only:
\* whatever the order of the rows, and although postings are stored, and flags taken
\* back, while it runs.
ShadowIsComplete ==
  ~ Running =>
    /\ report \subseteq Pairs
    /\ \A x, y \in report : x[1] = y[1] => x = y
    /\ \A x \in report : Size(corpus[x[1]].p.title) > 0 /\ Size(corpus[x[2]].p.title) > 0
    /\ \A x \in Pairs : (\A y \in report : y[1] # x[1] \/ Before(x[2], y[2]))
                          => x[1] \in cut /\ Cardinality(InBetween(x[2], x[1])) >= MaxComparisons
=============================================================================
