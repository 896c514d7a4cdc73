--------------------------- MODULE CollectProofs ---------------------------
(***************************************************************************)
(* Facts of collection, for any postings, sources, queries and windows,    *)
(* any number of overlapping runs, killed and failing anywhere: what is    *)
(* told of a posting adds up, nothing heard of it is forgotten, and the    *)
(* recency window loses nothing to an outage.                              *)
(***************************************************************************)
EXTENDS Collect, FiniteSetTheorems, WellFoundedInduction, TLAPS

-----------------------------------------------------------------------------
(* The inductive invariant.                                                *)

PostRecord == [known : BOOLEAN, first : Days, last : Days, described : BOOLEAN, seniority : BOOLEAN]

RunRecord == [pc : {"none", "running", "over"}, row : {"none", "open", "success", "failed", "threw"},
              queries : Seq(Sources), window : [recency : Nat, backfill : Nat],
              cutoff : UNION {[D -> Int] : D \in SUBSET Sources},
              attempted : SUBSET Sources, failed : SUBSET Sources, failures : Nat, asked : Nat,
              counts : [collected : Int, normalized : Int], ended : Days, answered : SUBSET Sources]

Clock == /\ day \in 0..MaxDay /\ published \in [Postings -> Days]
         /\ heard \in [Postings -> Days] /\ \A p \in Postings : heard[p] <= day

Stock == /\ post \in [Postings -> PostRecord] /\ reports \in [Postings -> Nat]
         /\ NewOnce /\ HeardIsKept

(* What an answer that was not worked off may leave unexplained.           *)
Fits(c, S) ==
    /\ c.collected >= 0 /\ c.normalized >= 0
    /\ \E s \in S : c.collected + c.normalized <= Cardinality(Lists[s])

(* A row as a run leaves it, and before that: what was attempted and did   *)
(* not fail was answered, unless a statement threw.                        *)
Sound(b) ==
    /\ b.pc = "running" => b.row = "open" /\ b.window \in Windows
    /\ b.pc # "over" => b.ended = Never
    /\ b.ended # Never <=> b.row \in {"success", "failed", "threw"}
    /\ b.failed \subseteq b.attempted /\ b.failures <= b.asked
    /\ b.counts = NoCounts \/ (b.row = "threw" /\ Fits(b.counts, b.attempted))
    /\ b.row # "threw" => b.attempted \ b.failed \subseteq b.answered

(* Nothing published before c can be lost by not being asked for: it is    *)
(* past a backfill limit, or a run that is over has heard source s since.  *)
Justified(s, c) ==
    \/ \E w \in Windows : c <= day - w.backfill
    \/ \E r \in Runs : /\ run[r].pc = "over" /\ c <= run[r].ended /\ run[r].ended <= day
                       /\ run[r].row = "threw" \/ s \in run[r].answered

Ledger ==
    /\ run \in [Runs -> RunRecord]
    /\ \A r \in Runs : Sound(run[r]) /\ run[r].ended <= day
    /\ \A r \in Runs : run[r].pc = "running" =>
          \A s \in DOMAIN run[r].cutoff : Justified(s, run[r].cutoff[s])

Covered(d) ==
    \/ \E w \in Windows : d.day - published[d.posting] > w.backfill
    \/ \E r \in Runs : /\ run[r].pc = "over"
                       /\ published[d.posting] <= run[r].ended /\ run[r].ended <= d.day
                       /\ run[r].row = "threw" \/ d.source \in run[r].answered

Losses ==
    /\ dropped \subseteq [posting : Postings, source : Sources, day : Days]
    /\ \A d \in dropped : published[d.posting] # Never /\ Covered(d)

Inv == Clock /\ Stock /\ Ledger /\ Losses

-----------------------------------------------------------------------------
(* Greatest                                                                *)

LEMMA GreatestOfTwo ==
    ASSUME NEW a \in Int, NEW b \in Int
    PROVE  Greatest({a, b}) \in {a, b} /\ a <= Greatest({a, b}) /\ b <= Greatest({a, b})
  <1>1. \E x \in {a, b} : \A y \in {a, b} : y <= x
    <2>1. CASE a <= b
      BY <2>1
    <2>2. CASE ~(a <= b)
      BY <2>2
    <2> QED BY <2>1, <2>2
  <1> QED
    BY <1>1 DEF Greatest

LEMMA GreatestExists ==
    ASSUME NEW m \in Nat, NEW S \in SUBSET (0..m), S # {}
    PROVE  Greatest(S) \in S /\ \A y \in S : y <= Greatest(S)
  <1> DEFINE T == {m - x : x \in S}
  <1>1. T \subseteq Nat /\ T # {}
    <2>1. \A x \in S : m - x \in Nat
      OBVIOUS
    <2> QED
      BY <2>1
  <1>2. \E t \in T : \A u \in T : t <= u
    <2> DEFINE R == OpToRel(<, Nat)
    <2>1. IsWellFoundedOn(R, Nat)
      BY NatLessThanWellFounded
    <2>2. PICK t \in T : \A u \in T : ~(<<u, t>> \in R)
      BY <1>1, <2>1, WFMin
    <2>3. \A u \in T : ~(u < t)
      BY <1>1, <2>2 DEF OpToRel
    <2>4. \A u \in T : u \in Nat
      BY <1>1
    <2> HIDE DEF T
    <2> QED
      BY <2>3, <2>4
  <1>3. PICK x \in S : \A y \in S : m - x <= m - y
    BY <1>2
  <1>4. \A y \in S : y <= x
    BY <1>3
  <1> QED
    BY <1>4 DEF Greatest

-----------------------------------------------------------------------------
(* The window                                                              *)

LEMMA Windowed ==
    ASSUME Inv, NEW s \in Sources, NEW w \in Windows
    PROVE  WindowDays(s, w) \in Int /\ Justified(s, day - WindowDays(s, w))
  <1>0. w.recency \in Nat /\ w.backfill \in Nat /\ day \in Nat
    BY CollectAssumption DEF Inv, Clock
  <1>1. CASE Succeeded(s) = {}
    <2>1. WindowDays(s, w) = w.backfill
      BY <1>1 DEF WindowDays
    <2> QED
      BY <1>0, <2>1 DEF Justified
  <1>2. CASE Succeeded(s) # {}
    <2> DEFINE S == {run[r].ended : r \in Succeeded(s)}
               g == Greatest(S)
               v == Greatest({w.recency, day - g})
    <2>1. S # {} /\ S \in SUBSET (0..day)
      <3>1. \A r \in Succeeded(s) : run[r].ended \in 0..day
        BY <1>0 DEF Succeeded, Inv, Ledger, RunRecord, Days, Never
      <3> QED
        BY <1>2, <3>1
    <2> HIDE DEF S
    <2>2. g \in S /\ g \in Int
      <3>1. g \in S
        BY <1>0, <2>1, GreatestExists
      <3> HIDE DEF g
      <3> QED
        BY <1>0, <2>1, <3>1
    <2>3. WindowDays(s, w) = Least(v, w.backfill)
      BY <1>2 DEF WindowDays, S
    <2>4. PICK r \in Succeeded(s) : run[r].ended = g
      BY <2>2 DEF S
    <2> HIDE DEF g
    <2>5. v \in Int /\ day - g <= v
      <3>1. day - g \in Int /\ w.recency \in Int
        BY <1>0, <2>2
      <3>2. v \in {w.recency, day - g} /\ day - g <= v
        BY <3>1, GreatestOfTwo
      <3> QED
        BY <3>1, <3>2
    <2> HIDE DEF v
    <2>6. /\ r \in Runs /\ run[r].pc = "over" /\ run[r].ended <= day
          /\ run[r].row = "threw" \/ s \in run[r].answered
      BY <2>4 DEF Succeeded, Inv, Ledger, RunRecord, Sound
    <2>7. CASE v <= w.backfill
      <3>1. WindowDays(s, w) = v
        BY <2>3, <2>7 DEF Least
      <3>2. day - v <= run[r].ended
        BY <1>0, <2>2, <2>4, <2>5
      <3> QED
        BY <2>5, <2>6, <3>1, <3>2 DEF Justified
    <2>8. CASE ~(v <= w.backfill)
      <3>1. WindowDays(s, w) = w.backfill
        BY <2>3, <2>8 DEF Least
      <3> QED
        BY <1>0, <3>1 DEF Justified
    <2> QED BY <2>7, <2>8
  <1> QED
    BY <1>1, <1>2

LEMMA Cutoffs ==
    ASSUME Inv, NEW r \in Runs, run[r].pc = "running", NEW s \in Sources
    PROVE  CutoffOf(r, s) \in Int /\ Justified(s, CutoffOf(r, s))
  <1>1. CASE s \in DOMAIN run[r].cutoff
    BY <1>1 DEF CutoffOf, Inv, Ledger, RunRecord
  <1>2. CASE s \notin DOMAIN run[r].cutoff
    <2>1. CutoffOf(r, s) = day - WindowDays(s, run[r].window) /\ run[r].window \in Windows
      BY <1>2 DEF CutoffOf, Inv, Ledger, Sound
    <2> QED
      BY <2>1, Windowed DEF Inv, Clock
  <1> QED
    BY <1>1, <1>2
-----------------------------------------------------------------------------
(* Rows                                                                    *)

LEMMA NoRunTyped ==
    /\ NoRun \in RunRecord /\ Sound(NoRun)
    /\ NoRun.pc = "none" /\ NoRun.attempted = {} /\ NoRun.failed = {} /\ NoRun.answered = {}
    /\ NoRun.ended = Never
  <1>1. [s \in {} |-> 0] \in [{} -> Int] /\ {} \in SUBSET Sources
    OBVIOUS
  <1>2. [s \in {} |-> 0] \in UNION {[D -> Int] : D \in SUBSET Sources}
    BY <1>1
  <1>3. Never \in Days /\ <<>> \in Seq(Sources) /\ NoCounts \in [collected : Int, normalized : Int]
    BY CollectAssumption DEF Never, Days, NoCounts
  <1> DEFINE none == [s \in {} |-> 0]
  <1> HIDE DEF none
  <1>4. NoRun = [pc |-> "none", row |-> "none", queries |-> <<>>,
                 window |-> [recency |-> 0, backfill |-> 0],
                 cutoff |-> none, attempted |-> {}, failed |-> {}, failures |-> 0,
                 asked |-> 0, counts |-> NoCounts, ended |-> Never, answered |-> {}]
    BY DEF NoRun, none
  <1>5. NoRun \in RunRecord
    BY <1>2, <1>3, <1>4 DEF RunRecord, none
  <1>6. Sound(NoRun)
    BY <1>4 DEF Sound
  <1> QED
    BY <1>4, <1>5, <1>6

LEMMA OverTyped ==
    ASSUME NEW b, b.attempted \in SUBSET Sources, b.failed \subseteq b.attempted,
           b.answered \in SUBSET Sources, NEW row \in {"open", "success", "failed", "threw"},
           NEW ended \in Days, ended # Never <=> row # "open",
           row # "threw" => b.attempted \ b.failed \subseteq b.answered,
           b.counts \in [collected : Int, normalized : Int],
           b.counts = NoCounts \/ (row = "threw" /\ Fits(b.counts, b.attempted))
    PROVE  /\ Over(b, row, ended) \in RunRecord /\ Sound(Over(b, row, ended))
           /\ Over(b, row, ended).pc = "over" /\ Over(b, row, ended).ended = ended
  <1> DEFINE o == Over(b, row, ended)
  <1>1. NoRun \in RunRecord /\ NoRun.failures = 0 /\ NoRun.asked = 0
    BY NoRunTyped DEF NoRun
  <1>2. o = [NoRun EXCEPT !.pc = "over", !.row = row, !.ended = ended, !.attempted = b.attempted,
                          !.failed = b.failed, !.counts = b.counts, !.answered = b.answered]
    BY DEF Over
  <1>3. /\ o.pc = "over" /\ o.row = row /\ o.ended = ended /\ o.attempted = b.attempted
        /\ o.failed = b.failed /\ o.answered = b.answered
        /\ o.counts = b.counts /\ o.failures = 0 /\ o.asked = 0
    BY <1>1, <1>2 DEF RunRecord
  <1>4. o \in RunRecord
    BY <1>1, <1>2, ZenonT(60) DEF RunRecord
  <1> HIDE DEF o
  <1>5. Sound(o)
    BY <1>3 DEF Sound
  <1> QED
    BY <1>3, <1>4, <1>5 DEF o

LEMMA NotedTyped ==
    ASSUME Inv, NEW r \in Runs, NEW s \in Sources, Asks(r, s), NEW error \in BOOLEAN
    PROVE  /\ Noted(r, s, error) \in RunRecord
           /\ Noted(r, s, error).pc = "running" /\ Noted(r, s, error).row = "open"
           /\ Noted(r, s, error).window = run[r].window /\ Noted(r, s, error).cutoff = run[r].cutoff
           /\ Noted(r, s, error).ended = Never /\ Noted(r, s, error).counts = NoCounts
           /\ Noted(r, s, error).answered = run[r].answered
           /\ Noted(r, s, error).attempted = run[r].attempted \cup {s}
           /\ Noted(r, s, error).failed = IF error THEN run[r].failed \cup {s} ELSE run[r].failed
           /\ Noted(r, s, error).failures <= Noted(r, s, error).asked
  <1>1. /\ run[r] \in RunRecord /\ run[r].pc = "running" /\ Sound(run[r])
        /\ run[r].queries \in Seq(Sources) /\ run[r].queries # <<>>
    BY DEF Inv, Ledger, Asks, RunRecord
  <1>2. Tail(run[r].queries) \in Seq(Sources)
    BY <1>1
  <1> DEFINE more == IF error THEN 1 ELSE 0
             failed == IF error THEN run[r].failed \cup {s} ELSE run[r].failed
  <1>3. more \in 0..1 /\ failed \in SUBSET Sources
    BY <1>1 DEF RunRecord
  <1> DEFINE n == Noted(r, s, error)
             rest == Tail(run[r].queries)
             attempted == run[r].attempted \cup {s}
             failures == run[r].failures + more
             asked == run[r].asked + 1
  <1>4. n = [run[r] EXCEPT !.queries = rest, !.attempted = attempted, !.asked = asked,
                           !.failures = failures, !.failed = failed]
    BY DEF Noted
  <1> HIDE DEF more, failed
  <1>5. /\ rest \in Seq(Sources) /\ attempted \in SUBSET Sources
        /\ failures \in Nat /\ asked \in Nat
    <2>1. /\ run[r].attempted \in SUBSET Sources /\ run[r].failures \in Nat /\ run[r].asked \in Nat
      BY <1>1 DEF RunRecord
    <2> QED
      BY <1>2, <1>3, <2>1
  <1> HIDE DEF rest, attempted, failures, asked
  <1>6. n \in RunRecord
    BY <1>1, <1>3, <1>4, <1>5, ZenonT(60) DEF RunRecord
  <1>7. /\ n.pc = "running" /\ n.row = run[r].row /\ n.window = run[r].window
        /\ n.cutoff = run[r].cutoff /\ n.ended = run[r].ended /\ n.counts = run[r].counts
        /\ n.answered = run[r].answered /\ n.attempted = attempted
        /\ n.failed = failed /\ n.failures = failures /\ n.asked = asked
    BY <1>1, <1>4 DEF RunRecord
  <1>8. /\ n.pc = "running" /\ n.row = run[r].row /\ n.window = run[r].window
        /\ n.cutoff = run[r].cutoff /\ n.ended = run[r].ended /\ n.counts = run[r].counts
        /\ n.answered = run[r].answered /\ n.attempted = run[r].attempted \cup {s}
        /\ n.failed = failed /\ n.failures = run[r].failures + more /\ n.asked = run[r].asked + 1
    BY <1>7 DEF attempted, failures, asked
  <1>9. n.failures <= n.asked
    <2>1. run[r].failures \in Nat /\ run[r].asked \in Nat /\ run[r].failures <= run[r].asked
      BY <1>1 DEF Sound, RunRecord
    <2> QED
      BY <1>3, <1>8, <2>1
  <1> QED
    BY <1>1, <1>6, <1>8, <1>9 DEF Sound, n, failed

LEMMA UnclosedTyped ==
    ASSUME Inv
    PROVE  Unclosed \in RunRecord /\ Sound(Unclosed) /\ Unclosed.pc = "over" /\ Unclosed.ended <= day
  <1>1. Never \in Days /\ Never <= day
    BY CollectAssumption DEF Inv, Clock, Days, Never
  <1>2. NoRun.counts = NoCounts /\ NoRun.counts \in [collected : Int, normalized : Int]
    BY DEF NoRun, NoCounts
  <1> QED
    BY <1>1, <1>2, NoRunTyped, OverTyped DEF Unclosed

(* A row that is left to a catch, or to nobody.                            *)
LEMMA BrokenTyped ==
    ASSUME Inv, NEW b, b.attempted \in SUBSET Sources, b.failed \subseteq b.attempted, b \in RunRecord,
           b.counts \in [collected : Int, normalized : Int], Fits(b.counts, b.attempted),
           NEW left \in Broken(b)
    PROVE  left \in RunRecord /\ Sound(left) /\ left.pc = "over" /\ left.ended <= day
  <1>1. day \in Days /\ day # Never /\ day <= day
    BY CollectAssumption DEF Inv, Clock, Days, Never
  <1>2. CASE left = Over([b EXCEPT !.answered = {}], "threw", day)
    <2> DEFINE c == [b EXCEPT !.answered = {}]
    <2>1. c.attempted = b.attempted /\ c.failed = b.failed /\ c.answered = {} /\ c.counts = b.counts
      BY DEF RunRecord
    <2> HIDE DEF c
    <2>2. left = Over(c, "threw", day)
      BY <1>2 DEF c
    <2> QED
      BY <1>1, <2>1, <2>2, OverTyped
  <1>3. CASE left = Unclosed
    BY <1>3, UnclosedTyped
  <1> QED
    BY <1>2, <1>3 DEF Broken

-----------------------------------------------------------------------------
(* What a step leaves of rows and losses.                                  *)

LEMMA JustifiedStays ==
    ASSUME Inv, day' \in Int, day <= day',
           \A q \in Runs : run[q].pc = "over" => run'[q] = run[q],
           NEW s, NEW c \in Int, Justified(s, c)
    PROVE  Justified(s, c)'
  <1>0. day \in Int /\ \A q \in Runs : run[q].ended \in Int
    BY DEF Inv, Clock, Ledger, RunRecord, Days, Never
  <1>1. CASE \E w \in Windows : c <= day - w.backfill
    <2>1. PICK w \in Windows : c <= day - w.backfill
      BY <1>1
    <2>2. w.backfill \in Nat
      BY CollectAssumption
    <2>3. c <= day' - w.backfill
      BY <1>0, <2>1, <2>2
    <2> QED
      BY <2>3 DEF Justified
  <1>2. CASE \E q \in Runs : /\ run[q].pc = "over" /\ c <= run[q].ended /\ run[q].ended <= day
                             /\ run[q].row = "threw" \/ s \in run[q].answered
    <2>1. PICK q \in Runs : /\ run[q].pc = "over" /\ c <= run[q].ended /\ run[q].ended <= day
                            /\ run[q].row = "threw" \/ s \in run[q].answered
      BY <1>2
    <2>2. run'[q] = run[q] /\ run[q].ended <= day'
      BY <1>0, <2>1
    <2> QED
      BY <2>1, <2>2 DEF Justified
  <1> QED
    BY <1>1, <1>2 DEF Justified

LEMMA Rowed ==
    ASSUME Inv, NEW r \in Runs, run[r].pc # "over", NEW rec \in RunRecord, Sound(rec),
           rec.ended <= day,
           rec.pc = "running" => \A s \in DOMAIN rec.cutoff : Justified(s, rec.cutoff[s]),
           run' = [run EXCEPT ![r] = rec], day' = day
    PROVE  Ledger' /\ \A q \in Runs : run[q].pc = "over" => run'[q] = run[q]
  <1>1. run' \in [Runs -> RunRecord] /\ run'[r] = rec /\ \A q \in Runs \ {r} : run'[q] = run[q]
    BY DEF Inv, Ledger
  <1>2. \A q \in Runs : run[q].pc = "over" => run'[q] = run[q]
    BY <1>1
  <1>3. \A q \in Runs : Sound(run'[q]) /\ run'[q].ended <= day'
    BY <1>1 DEF Inv, Ledger
  <1>4. ASSUME NEW q \in Runs, run'[q].pc = "running", NEW s \in DOMAIN run'[q].cutoff
        PROVE  Justified(s, run[q].cutoff[s])'
    <2>1. Justified(s, run'[q].cutoff[s])
      <3>1. CASE q = r
        BY <1>1, <1>4, <3>1
      <3>2. CASE q # r
        <4>1. run'[q] = run[q]
          BY <1>1, <3>2
        <4> QED
          BY <1>4, <4>1 DEF Inv, Ledger
      <3> QED
        BY <3>1, <3>2
    <2>2. run'[q].cutoff[s] \in Int
      BY <1>1, <1>4 DEF RunRecord
    <2>3. day' \in Int /\ day <= day'
      BY DEF Inv, Clock
    <2> QED
      BY <1>2, <2>1, <2>2, <2>3, JustifiedStays
  <1> QED
    BY <1>1, <1>2, <1>3, <1>4 DEF Ledger, Sound

LEMMA LossesStay ==
    ASSUME Inv, \A q \in Runs : run[q].pc = "over" => run'[q] = run[q], dropped' = dropped,
           \A p \in Postings : published[p] # Never => published'[p] = published[p]
    PROVE  Losses'
  <1>1. ASSUME NEW d \in dropped PROVE published'[d.posting] # Never /\ Covered(d)'
    <2>1. d.posting \in Postings /\ published[d.posting] # Never /\ Covered(d)
      BY DEF Inv, Losses
    <2>2. published'[d.posting] = published[d.posting]
      BY <2>1
    <2> QED
      BY <2>1, <2>2 DEF Covered
  <1> QED
    BY <1>1 DEF Inv, Losses
-----------------------------------------------------------------------------
(* Postings                                                                *)

LEMMA UpsertedTyped ==
    ASSUME Inv, NEW p \in Postings, NEW s
    PROVE  /\ Upserted(p, s) \in PostRecord /\ Upserted(p, s).known /\ Upserted(p, s).last = day
           /\ post[p].known => Upserted(p, s).first = post[p].first
           /\ post[p].described => Upserted(p, s).described
           /\ Upserted(p, s).seniority = post[p].seniority
  <1> DEFINE described == post[p].described \/ s \in Describing
             first == IF post[p].known THEN post[p].first ELSE day
  <1>1. described \in BOOLEAN
    BY Zenon
  <1>2. /\ first \in Days /\ day \in Days
    BY CollectAssumption DEF Inv, Clock, Stock, PostRecord, Days, Never
  <1>3. post[p].seniority \in BOOLEAN
    BY DEF Inv, Stock, PostRecord
  <1>4. Upserted(p, s) = [known |-> TRUE, last |-> day, first |-> first,
                          described |-> described, seniority |-> post[p].seniority]
    BY DEF Upserted
  <1>5. (post[p].known => first = post[p].first) /\ (post[p].described => described = TRUE)
    <2>1. post[p].described => described = TRUE
      BY Zenon
    <2> QED
      BY <2>1
  <1> HIDE DEF described, first
  <1>6. Upserted(p, s) \in PostRecord
    BY <1>1, <1>2, <1>3, <1>4 DEF PostRecord
  <1> QED
    BY <1>4, <1>5, <1>6

LEMMA MarkSeenTyped ==
    ASSUME Inv, NEW p \in Postings
    PROVE  /\ MarkSeen(p) \in PostRecord /\ MarkSeen(p).known = post[p].known
           /\ MarkSeen(p).last >= post[p].last
           /\ post[p].known => MarkSeen(p).last >= day
           /\ MarkSeen(p).first = post[p].first /\ MarkSeen(p).described = post[p].described
           /\ MarkSeen(p).seniority = post[p].seniority
  <1>1. post[p] \in PostRecord /\ post[p].last \in Int /\ day \in Days /\ day \in Int
    BY CollectAssumption DEF Inv, Clock, Stock, PostRecord, Days, Never
  <1>2. CASE post[p].known /\ post[p].last < day
    <2>1. MarkSeen(p) = [post[p] EXCEPT !.last = day]
      BY <1>2 DEF MarkSeen
    <2>2. MarkSeen(p) \in PostRecord
      BY <1>1, <2>1 DEF PostRecord
    <2>3. /\ MarkSeen(p).last = day /\ MarkSeen(p).known = post[p].known
          /\ MarkSeen(p).first = post[p].first /\ MarkSeen(p).described = post[p].described
          /\ MarkSeen(p).seniority = post[p].seniority
      BY <1>1, <2>1 DEF PostRecord
    <2>4. day >= post[p].last /\ day >= day
      BY <1>1, <1>2
    <2> QED
      BY <2>2, <2>3, <2>4
  <1>3. CASE ~(post[p].known /\ post[p].last < day)
    <2>1. MarkSeen(p) = post[p]
      BY <1>3 DEF MarkSeen
    <2> QED
      BY <1>1, <1>3, <2>1
  <1> QED
    BY <1>2, <1>3

(* What becomes of the rows of postings, of those kept and of those only   *)
(* seen.                                                                    *)
Grown(kept, seen) ==
    /\ post' \in [Postings -> PostRecord]
    /\ \A p \in Postings : post[p].known =>
          /\ post'[p].known /\ post'[p].first = post[p].first
          /\ post[p].described => post'[p].described
          /\ post'[p].seniority = post[p].seniority
    /\ \A p \in kept : post'[p].known /\ post'[p].last = day
    /\ \A p \in seen : post[p].known => post'[p].last >= day
    /\ \A p \in Postings \ kept : post'[p].known = post[p].known /\ post'[p].last >= post[p].last

LEMMA Growing ==
    ASSUME Inv, NEW kept \in SUBSET Postings, NEW seen \in SUBSET Postings, NEW s,
           Stored(kept, seen, s)
    PROVE  Grown(kept, seen)
  <1>1. \A p \in Postings : post'[p] = IF p \in kept THEN Upserted(p, s)
                                       ELSE IF p \in seen THEN MarkSeen(p) ELSE post[p]
    BY DEF Stored
  <1>2. post \in [Postings -> PostRecord] /\ day \in Int
           /\ \A p \in Postings : post[p].last \in Int
    BY DEF Inv, Clock, Stock, PostRecord, Days, Never
  <1>0. \A p \in Postings :
           /\ Upserted(p, s) \in PostRecord /\ Upserted(p, s).known /\ Upserted(p, s).last = day
           /\ post[p].known => Upserted(p, s).first = post[p].first
           /\ post[p].described => Upserted(p, s).described
           /\ Upserted(p, s).seniority = post[p].seniority
    BY UpsertedTyped
  <1>3. \A p \in Postings : post'[p] \in PostRecord
    BY <1>0, <1>1, <1>2, MarkSeenTyped
  <1>4. post' \in [Postings -> PostRecord]
    BY <1>3 DEF Stored
  <1>5. ASSUME NEW p \in Postings, post[p].known
        PROVE  /\ post'[p].known /\ post'[p].first = post[p].first
               /\ post[p].described => post'[p].described
               /\ post'[p].seniority = post[p].seniority
    <2>1. CASE p \in kept
      BY <1>0, <1>1, <1>5, <2>1
    <2>2. CASE p \notin kept /\ p \in seen
      BY <1>1, <1>5, <2>2, MarkSeenTyped
    <2>3. CASE p \notin kept /\ p \notin seen
      BY <1>1, <1>5, <2>3
    <2> QED BY <2>1, <2>2, <2>3
  <1>6. \A p \in kept : post'[p].known /\ post'[p].last = day
    BY <1>0, <1>1
  <1>7. ASSUME NEW p \in seen, post[p].known PROVE post'[p].last >= day
    <2>1. CASE p \in kept
      BY <1>2, <1>6, <2>1
    <2>2. CASE p \notin kept
      BY <1>1, <1>7, <2>2, MarkSeenTyped
    <2> QED BY <2>1, <2>2
  <1>8. \A p \in Postings \ kept : post'[p].known = post[p].known /\ post'[p].last >= post[p].last
    BY <1>1, <1>2, MarkSeenTyped
  <1> QED
    BY <1>4, <1>5, <1>6, <1>7, <1>8 DEF Grown

LEMMA ReportedOnce ==
    ASSUME Inv, NEW kept \in SUBSET Postings, NEW seen, Grown(kept, seen),
           NEW ps \in SUBSET kept, Recorded(ps)
    PROVE  reports' \in [Postings -> Nat] /\ NewOnce'
  <1>1. \A p \in Postings : reports'[p] = reports[p] + IF p \in ps /\ ~post[p].known THEN 1 ELSE 0
    BY DEF Recorded, WasNew
  <1>2. \A p \in Postings : reports[p] \in Nat /\ reports[p] <= 1 /\ (reports[p] = 1 => post[p].known)
    BY DEF Inv, Stock, NewOnce
  <1>3. \A p \in Postings : reports'[p] \in Nat
    BY <1>1, <1>2
  <1>4. reports' \in [Postings -> Nat]
    BY <1>3 DEF Recorded
  <1>5. ASSUME NEW p \in Postings PROVE reports'[p] <= 1 /\ (reports'[p] = 1 => post'[p].known)
    <2>1. CASE p \in ps /\ ~post[p].known
      <3>1. reports[p] = 0
        BY <1>2, <2>1
      <3> QED
        BY <1>1, <2>1, <3>1 DEF Grown
    <2>2. CASE ~(p \in ps /\ ~post[p].known)
      <3>1. reports'[p] = reports[p]
        BY <1>1, <1>2, <2>2
      <3>2. post[p].known => post'[p].known
        BY DEF Grown
      <3> QED
        BY <1>2, <3>1, <3>2
    <2> QED BY <2>1, <2>2
  <1> QED
    BY <1>4, <1>5 DEF NewOnce

LEMMA HeardStays ==
    ASSUME Inv, NEW kept \in SUBSET Postings, NEW seen \in SUBSET Postings, Grown(kept, seen),
           dropped \subseteq dropped', heard' \in [Postings -> Days],
           \A p \in Postings : \/ heard'[p] = heard[p]
                               \/ /\ heard'[p] = day /\ p \in kept \cup seen
                                  /\ p \notin kept /\ ~post[p].known =>
                                        \E d \in dropped' : d.posting = p /\ d.day = day
    PROVE  HeardIsKept'
  <1>0. day \in Int /\ \A p \in Postings : /\ heard[p] \in Int /\ heard[p] <= day
                                           /\ post[p].last \in Int /\ post'[p].last \in Int
    BY DEF Inv, Clock, Stock, PostRecord, Days, Never, Grown
  <1>1. DeliveredIsKept'
    <2> SUFFICES ASSUME NEW p \in Postings, heard'[p] # Never, ~post'[p].known
                 PROVE  \E d \in dropped' : d.posting = p /\ d.day = heard'[p]
      BY DEF DeliveredIsKept
    <2>1. ~post[p].known /\ p \notin kept
      BY DEF Grown
    <2>2. CASE heard'[p] = heard[p]
      <3>1. \E d \in dropped : d.posting = p /\ d.day = heard[p]
        BY <2>1, <2>2 DEF Inv, Stock, HeardIsKept, DeliveredIsKept
      <3> QED
        BY <2>2, <3>1
    <2>3. CASE heard'[p] = day
      BY <2>1, <2>2, <2>3
    <2> QED BY <2>2, <2>3
  <1>2. SeenWhenListed'
    <2> SUFFICES ASSUME NEW p \in Postings, post'[p].known
                 PROVE  post'[p].last >= heard'[p]
      BY DEF SeenWhenListed
    <2>1. CASE p \in kept
      <3>1. post'[p].last = day
        BY <2>1 DEF Grown
      <3> QED
        BY <1>0, <3>1
    <2>2. CASE p \notin kept
      <3>1. post[p].known /\ post'[p].last >= post[p].last /\ post[p].last >= heard[p]
        BY <2>2 DEF Grown, Inv, Stock, HeardIsKept, SeenWhenListed
      <3>2. CASE heard'[p] = heard[p]
        BY <1>0, <3>1, <3>2
      <3>3. CASE heard'[p] = day /\ p \in seen
        BY <3>1, <3>3 DEF Grown
      <3> QED
        BY <2>2, <3>2, <3>3
    <2> QED BY <2>1, <2>2
  <1> QED
    BY <1>1, <1>2 DEF HeardIsKept
-----------------------------------------------------------------------------
(* Counters                                                                *)

LEMMA Split ==
    ASSUME NEW S \in SUBSET Postings, NEW T \in SUBSET S
    PROVE  /\ Cardinality(S) \in Nat /\ Cardinality(T) \in Nat
           /\ Cardinality(S) = Cardinality(T) + Cardinality(S \ T)
  <1>1. IsFiniteSet(S) /\ IsFiniteSet(T)
    BY CollectAssumption, FS_Subset
  <1>2. Cardinality(S) \in Nat /\ Cardinality(T) \in Nat /\ Cardinality(S \ T) \in Nat
    BY <1>1, FS_CardinalityType, FS_Difference
  <1>3. S \cap T = T
    OBVIOUS
  <1>4. Cardinality(S \ T) = Cardinality(S) - Cardinality(T)
    BY <1>1, <1>3, FS_Difference
  <1> QED
    BY <1>2, <1>4

(* What the counters leave unexplained: what was not screened, and what was *)
(* kept and not told.                                                       *)
LEMMA Balanced ==
    ASSUME NEW a, a.items \in SUBSET Postings, NEW screened \in SUBSET a.items,
           NEW old \in SUBSET (screened \ a.bad), NEW told \in SUBSET ((screened \ a.bad) \ old)
    PROVE  Counted(NoCounts, a, screened, old, told) =
             [collected  |-> Cardinality(a.items) - Cardinality(screened),
              normalized |-> Cardinality((screened \ a.bad) \ old) - Cardinality(told)]
  <1> DEFINE usable == screened \ a.bad
             kept == usable \ old
             bad == screened \cap a.bad
             new == {p \in told : WasNew(p)}
             seen == {p \in told : ~WasNew(p)}
             i == Cardinality(a.items)
             q == Cardinality(screened)
             u == Cardinality(usable)
             b == Cardinality(bad)
             o == Cardinality(old)
             k == Cardinality(kept)
             t == Cardinality(told)
             n == Cardinality(new)
             m == Cardinality(seen)
  <1>1. /\ screened \in SUBSET Postings /\ usable \in SUBSET Postings /\ told \in SUBSET Postings
        /\ bad \in SUBSET screened /\ usable = screened \ bad
        /\ new \in SUBSET told /\ seen = told \ new
    OBVIOUS
  <1>2. i \in Nat /\ q \in Nat
    BY <1>1, Split
  <1>3. b \in Nat /\ u \in Nat /\ q = b + u
    <2> HIDE DEF bad, usable
    <2>1. q = b + Cardinality(screened \ bad) /\ b \in Nat
      BY <1>1, Split
    <2>2. u \in Nat
      BY <1>1, Split
    <2> QED
      BY <1>1, <2>1, <2>2
  <1>4. o \in Nat /\ k \in Nat /\ u = o + k
    <2>1. kept \in SUBSET usable
      OBVIOUS
    <2> HIDE DEF usable
    <2>2. k \in Nat
      BY <1>1, <2>1, Split
    <2>3. o \in Nat /\ u = o + Cardinality(usable \ old)
      BY <1>1, Split DEF usable
    <2> QED
      BY <2>2, <2>3
  <1>5. t \in Nat /\ n \in Nat /\ m \in Nat /\ t = n + m
    <2>0. seen \in SUBSET told
      BY <1>1
    <2> HIDE DEF new, seen
    <2>1. n \in Nat /\ t \in Nat /\ t = n + Cardinality(told \ new)
      BY <1>1, Split
    <2>2. Cardinality(seen) \in Nat
      BY <1>1, <2>0, Split
    <2> QED
      BY <1>1, <2>1, <2>2
  <1>6. Counted(NoCounts, a, screened, old, told) =
           [collected  |-> NoCounts.collected + i - (k + o + b),
            normalized |-> NoCounts.normalized + k - (n + m)]
    BY DEF Counted
  <1> HIDE DEF usable, kept, bad, new, seen, i, q, u, b, o, k, t, n, m
  <1>7. 0 + i - (k + o + b) = i - q /\ 0 + k - (n + m) = k - t
    BY <1>2, <1>3, <1>4, <1>5
  <1>8. NoCounts.collected = 0 /\ NoCounts.normalized = 0
    BY DEF NoCounts
  <1> QED
    BY <1>6, <1>7, <1>8 DEF i, q, k, t, kept, usable

(* Every item is counted once: rejected, too old, new or seen before.      *)
LEMMA AllCounted ==
    ASSUME NEW a, a.items \in SUBSET Postings, a.bad \subseteq a.items,
           NEW old \in SUBSET Usable(a)
    PROVE  Counted(NoCounts, a, a.items, old, Usable(a) \ old) = NoCounts
  <1>1. Usable(a) = a.items \ a.bad /\ Usable(a) \ old \in SUBSET Postings
    BY DEF Usable
  <1>2. Cardinality(a.items) \in Nat /\ Cardinality(Usable(a) \ old) \in Nat
    BY <1>1, Split
  <1>3. /\ Cardinality(a.items) - Cardinality(a.items) = 0
        /\ Cardinality(Usable(a) \ old) - Cardinality(Usable(a) \ old) = 0
    BY <1>2
  <1> QED
    BY <1>1, <1>3, Balanced DEF NoCounts

(* What was not worked off is part of one answer.                          *)
LEMMA CutShort ==
    ASSUME NEW s \in Sources, NEW a \in Answers(s), NEW screened \in SUBSET a.items,
           NEW old \in SUBSET (screened \ a.bad), NEW told \in SUBSET ((screened \ a.bad) \ old),
           NEW S, s \in S
    PROVE  LET c == Counted(NoCounts, a, screened, old, told)
           IN c \in [collected : Int, normalized : Int] /\ Fits(c, S)
  <1> DEFINE kept == (screened \ a.bad) \ old
             i == Cardinality(a.items)
             q == Cardinality(screened)
             k == Cardinality(kept)
             t == Cardinality(told)
             l == Cardinality(Lists[s])
             c == Counted(NoCounts, a, screened, old, told)
  <1>1. Lists[s] \in SUBSET Postings /\ a.items \in SUBSET Lists[s] /\ a.items \in SUBSET Postings
    BY CollectAssumption DEF Answers, Listed
  <1>2. i \in Nat /\ l \in Nat /\ i <= l
    <2>1. l = i + Cardinality(Lists[s] \ a.items) /\ l \in Nat /\ i \in Nat
      BY <1>1, Split
    <2>2. Cardinality(Lists[s] \ a.items) \in Nat
      BY <1>1, Split
    <2> HIDE DEF l, i
    <2> QED
      BY <2>1, <2>2
  <1>3. q \in Nat /\ q <= i
    <2>1. i = q + Cardinality(a.items \ screened) /\ q \in Nat
      BY <1>1, Split
    <2>2. Cardinality(a.items \ screened) \in Nat
      BY <1>1, Split
    <2> HIDE DEF i, q
    <2> QED
      BY <1>2, <2>1, <2>2
  <1>4. k \in Nat /\ k <= q
    <2>1. q = k + Cardinality(screened \ kept) /\ Cardinality(screened \ kept) \in Nat /\ k \in Nat
      BY <1>1, Split
    <2> QED
      BY <1>3, <2>1
  <1>5. t \in Nat /\ t <= k
    <2>1. k = t + Cardinality(kept \ told) /\ Cardinality(kept \ told) \in Nat /\ t \in Nat
      BY <1>1, Split
    <2> QED
      BY <1>4, <2>1
  <1>6. c = [collected |-> i - q, normalized |-> k - t]
    BY <1>1, Balanced
  <1> HIDE DEF c, i, q, k, t, l
  <1>7. /\ i - q \in Int /\ k - t \in Int /\ i - q >= 0 /\ k - t >= 0
        /\ (i - q) + (k - t) <= l
    BY <1>2, <1>3, <1>4, <1>5
  <1>8. c.collected = i - q /\ c.normalized = k - t
    BY <1>6
  <1>9. c \in [collected : Int, normalized : Int]
    BY <1>6, <1>7
  <1>10. Fits(c, S)
    BY <1>7, <1>8 DEF Fits, l
  <1> QED
    BY <1>9, <1>10 DEF c

-----------------------------------------------------------------------------
(* The actions.                                                            *)

LEMMA Ticking ==
    ASSUME Inv, Tick
    PROVE  Inv'
  <1>1. /\ day < MaxDay /\ day' = day + 1 /\ published' = published /\ post' = post /\ run' = run
        /\ reports' = reports /\ heard' = heard /\ dropped' = dropped
    BY DEF Tick
  <1>2. day \in Nat /\ day' \in 0..MaxDay /\ day <= day'
    BY <1>1, CollectAssumption DEF Inv, Clock
  <1>3. Clock'
    <2>1. \A p \in Postings : heard[p] <= day'
      BY <1>1, <1>2 DEF Inv, Clock, Days, Never
    <2> QED
      BY <1>1, <1>2, <2>1 DEF Inv, Clock
  <1>4. Stock'
    BY <1>1 DEF Inv, Stock, NewOnce, HeardIsKept, DeliveredIsKept, SeenWhenListed
  <1>5. Ledger'
    <2>1. \A r \in Runs : Sound(run'[r]) /\ run'[r].ended <= day'
      BY <1>1, <1>2 DEF Inv, Ledger, RunRecord, Days, Never
    <2>2. ASSUME NEW r \in Runs, run[r].pc = "running", NEW s \in DOMAIN run[r].cutoff
          PROVE  Justified(s, run[r].cutoff[s])'
      <3>1. Justified(s, run[r].cutoff[s]) /\ run[r].cutoff[s] \in Int
        BY <2>2 DEF Inv, Ledger, RunRecord
      <3>2. day' \in Int /\ \A q \in Runs : run[q].pc = "over" => run'[q] = run[q]
        BY <1>1, <1>2
      <3>3. Justified(s, run[r].cutoff[s])' <=> (\/ \E w \in Windows : run[r].cutoff[s] <= day' - w.backfill
    \/ \E q \in Runs : /\ run[q].pc = "over" /\ run[r].cutoff[s] <= run[q].ended /\ run[q].ended <= day'
                       /\ run[q].row = "threw" \/ s \in run[q].answered)
        BY <1>1 DEF Justified
      <3> DEFINE c == run[r].cutoff[s]
      <3>4. c \in Int /\ Justified(s, c)
        BY <3>1
      <3>5. CASE \E w \in Windows : c <= day - w.backfill
        <4>1. PICK w \in Windows : c <= day - w.backfill
          BY <3>5
        <4>2. w.backfill \in Nat
          BY CollectAssumption
        <4> HIDE DEF c
        <4>3. c <= day' - w.backfill
          BY <1>2, <3>4, <4>1, <4>2
        <4> QED
          BY <3>3, <4>3 DEF c
      <3>6. CASE \E q \in Runs : /\ run[q].pc = "over" /\ c <= run[q].ended /\ run[q].ended <= day
                                 /\ run[q].row = "threw" \/ s \in run[q].answered
        <4>1. \A q \in Runs : run[q].ended <= day'
          BY <1>1, <2>1
        <4> QED
          BY <3>3, <3>6, <4>1
      <3> QED
        BY <3>4, <3>5, <3>6 DEF Justified
    <2> QED
      BY <1>1, <2>1, <2>2 DEF Inv, Ledger, Sound
  <1>6. Losses'
    BY <1>1, LossesStay
  <1> QED
    BY <1>3, <1>4, <1>5, <1>6 DEF Inv

LEMMA Publishing ==
    ASSUME Inv, Publish
    PROVE  Inv'
  <1>1. PICK p \in Postings : published[p] = Never /\ published' = [published EXCEPT ![p] = day]
    BY DEF Publish
  <1>2. /\ day' = day /\ post' = post /\ run' = run
        /\ reports' = reports /\ heard' = heard /\ dropped' = dropped
    BY DEF Publish
  <1>3. Clock'
    <2>1. day \in Days
      BY CollectAssumption DEF Inv, Clock, Days, Never
    <2> QED
      BY <1>1, <1>2, <2>1 DEF Inv, Clock
  <1>4. Stock' /\ Ledger'
    BY <1>2 DEF Inv, Stock, NewOnce, HeardIsKept, DeliveredIsKept, SeenWhenListed, Ledger, Sound, Justified
  <1>5. Losses'
    <2>1. \A q \in Postings : published[q] # Never => published'[q] = published[q]
      BY <1>1 DEF Inv, Clock
    <2> QED
      BY <1>2, <2>1, LossesStay
  <1> QED
    BY <1>3, <1>4, <1>5 DEF Inv

LEMMA Extracting ==
    ASSUME Inv, Extract
    PROVE  Inv'
  <1>1. PICK p \in Extracted, v \in BOOLEAN : post[p].known /\ post' = [post EXCEPT ![p].seniority = v]
    BY DEF Extract
  <1>2. /\ day' = day /\ published' = published /\ run' = run
        /\ reports' = reports /\ heard' = heard /\ dropped' = dropped
    BY DEF Extract
  <1>3. Clock' /\ Ledger' /\ Losses'
    BY <1>2 DEF Inv, Clock, Ledger, Sound, Justified, Losses, Covered
  <1>4. /\ post' \in [Postings -> PostRecord]
        /\ \A q \in Postings : post'[q].known = post[q].known /\ post'[q].last = post[q].last
    BY <1>1 DEF Inv, Stock, PostRecord
  <1>5. Stock'
    BY <1>2, <1>4 DEF Inv, Stock, NewOnce, HeardIsKept, DeliveredIsKept, SeenWhenListed
  <1> QED
    BY <1>3, <1>5 DEF Inv

(* A step that writes nothing but the row of run r.                        *)
LEMMA OnlyTheRow ==
    ASSUME Inv, NEW r \in Runs, run[r].pc # "over", NEW rec \in RunRecord, Sound(rec),
           rec.ended <= day,
           rec.pc = "running" => \A s \in DOMAIN rec.cutoff : Justified(s, rec.cutoff[s]),
           run' = [run EXCEPT ![r] = rec], UNCHANGED <<day, published, post, reports, heard, dropped>>
    PROVE  Inv'
  <1>1. Ledger' /\ \A q \in Runs : run[q].pc = "over" => run'[q] = run[q]
    BY Rowed
  <1>2. Clock' /\ Stock'
    BY DEF Inv, Clock, Stock, NewOnce, HeardIsKept, DeliveredIsKept, SeenWhenListed
  <1>3. Losses'
    BY <1>1, LossesStay
  <1> QED
    BY <1>1, <1>2, <1>3 DEF Inv

LEMMA Starting ==
    ASSUME Inv, NEW r \in Runs, Start(r)
    PROVE  Inv'
  <1>1. PICK q \in QueryLists, w \in Windows :
           run' = [run EXCEPT ![r] = [NoRun EXCEPT !.pc = "running", !.row = "open", !.queries = q, !.window = w]]
    BY DEF Start
  <1> DEFINE rec == [NoRun EXCEPT !.pc = "running", !.row = "open", !.queries = q, !.window = w]
  <1>2. run[r].pc = "none" /\ UNCHANGED <<day, published, post, reports, heard, dropped>>
    BY DEF Start
  <1>3. q \in Seq(Sources) /\ w \in [recency : Nat, backfill : Nat]
    BY CollectAssumption
  <1>4. rec \in RunRecord /\ rec.pc = "running" /\ rec.row = "open" /\ rec.window = w
           /\ rec.ended = NoRun.ended /\ rec.attempted = NoRun.attempted /\ rec.failed = NoRun.failed
           /\ rec.answered = NoRun.answered /\ rec.cutoff = NoRun.cutoff /\ rec.counts = NoRun.counts
           /\ rec.failures = NoRun.failures /\ rec.asked = NoRun.asked
    BY <1>3, NoRunTyped DEF RunRecord
  <1>5. run' = [run EXCEPT ![r] = rec]
    BY <1>1
  <1>6. DOMAIN NoRun.cutoff = {} /\ Never <= day
    BY DEF NoRun, Inv, Clock, Never
  <1> HIDE DEF rec
  <1>7. Sound(rec) /\ rec.ended <= day
    BY <1>4, <1>6, NoRunTyped DEF Sound
  <1>8. \A s \in DOMAIN rec.cutoff : Justified(s, rec.cutoff[s])
    BY <1>4, <1>6
  <1> QED
    BY <1>2, <1>4, <1>5, <1>7, <1>8, OnlyTheRow

LEMMA Closing ==
    ASSUME Inv, NEW r \in Runs, End(r) \/ Die(r)
    PROVE  Inv'
  <1>1. /\ run[r].pc = "running" /\ run[r] \in RunRecord /\ Sound(run[r])
        /\ UNCHANGED <<day, published, post, reports, heard, dropped>>
    BY DEF End, Die, Inv, Ledger
  <1>2. day \in Days /\ day # Never /\ Never \in Days /\ Never <= day /\ day <= day
    BY CollectAssumption DEF Inv, Clock, Days, Never
  <1>3. CASE End(r)
    <2> DEFINE row == IF run[r].failures = run[r].asked THEN "failed" ELSE "success"
               rec == Over(run[r], row, day)
    <2>1. run' = [run EXCEPT ![r] = rec]
      BY <1>3 DEF End
    <2>2. row \in {"open", "success", "failed", "threw"} /\ row # "open"
      OBVIOUS
    <2> HIDE DEF row
    <2>3. rec \in RunRecord /\ Sound(rec) /\ rec.pc = "over" /\ rec.ended = day
      <3>1. run[r].attempted \ run[r].failed \subseteq run[r].answered /\ run[r].failed \subseteq run[r].attempted
        BY <1>1 DEF Sound
      <3>2. run[r].attempted \in SUBSET Sources /\ run[r].answered \in SUBSET Sources
        BY <1>1 DEF RunRecord
      <3>3. day # Never <=> row # "open"
        BY <1>2, <2>2
      <3>4. run[r].counts = NoCounts /\ run[r].counts \in [collected : Int, normalized : Int]
        BY <1>1 DEF Sound, RunRecord
      <3> QED
        BY <1>2, <2>2, <3>1, <3>2, <3>3, <3>4, OverTyped
    <2> HIDE DEF rec
    <2> QED
      BY <1>1, <1>2, <2>1, <2>3, OnlyTheRow
  <1>4. CASE Die(r)
    BY <1>1, <1>4, UnclosedTyped, OnlyTheRow DEF Die
  <1> QED
    BY <1>3, <1>4

LEMMA Missed ==
    ASSUME Inv, NEW r \in Runs, NEW s \in Sources, Missing(r, s)
    PROVE  Inv'
  <1> DEFINE rec == Noted(r, s, TRUE)
  <1>1. /\ Asks(r, s) /\ run' = [run EXCEPT ![r] = rec]
        /\ UNCHANGED <<day, published, post, reports, heard, dropped>>
    BY DEF Missing
  <1>2. /\ rec \in RunRecord /\ rec.pc = "running" /\ rec.row = "open"
        /\ rec.window = run[r].window /\ rec.cutoff = run[r].cutoff
        /\ rec.ended = Never /\ rec.counts = NoCounts /\ rec.answered = run[r].answered
        /\ rec.attempted = run[r].attempted \cup {s} /\ rec.failed = run[r].failed \cup {s}
        /\ rec.failures <= rec.asked
    BY <1>1, NotedTyped
  <1> HIDE DEF rec
  <1>3. run[r].pc = "running" /\ Sound(run[r]) /\ Never <= day
           /\ \A t \in DOMAIN run[r].cutoff : Justified(t, run[r].cutoff[t])
    BY <1>1 DEF Asks, Inv, Ledger, Clock, Never
  <1>4. Sound(rec)
    BY <1>2, <1>3 DEF Sound
  <1> QED
    BY <1>1, <1>2, <1>3, <1>4, OnlyTheRow

(* A step that stores what it kept, marks what it saw and reports ps.      *)
LEMMA Storing ==
    ASSUME Inv, NEW kept \in SUBSET Postings, NEW seen \in SUBSET Postings, NEW s,
           Stored(kept, seen, s), NEW ps \in SUBSET kept, Recorded(ps),
           dropped \subseteq dropped', heard' \in [Postings -> Days],
           UNCHANGED <<day, published>>,
           \A p \in Postings : \/ heard'[p] = heard[p]
                               \/ /\ heard'[p] = day /\ p \in kept \cup seen
                                  /\ p \notin kept /\ ~post[p].known =>
                                        \E d \in dropped' : d.posting = p /\ d.day = day
    PROVE  Clock' /\ Stock'
  <1>1. Grown(kept, seen)
    BY Growing
  <1>2. reports' \in [Postings -> Nat] /\ NewOnce'
    BY <1>1, ReportedOnce
  <1>3. HeardIsKept'
    BY <1>1, HeardStays
  <1>4. Clock'
    <2>1. \A p \in Postings : heard'[p] <= day'
      BY DEF Inv, Clock
    <2> QED
      BY <2>1 DEF Inv, Clock
  <1> QED
    BY <1>1, <1>2, <1>3, <1>4 DEF Stock, Grown

(* The row of a run that broke off at an answer.                           *)
LEMMA BrokenOff ==
    ASSUME Inv, NEW s \in Sources, NEW b \in RunRecord, s \in b.attempted, b.failed \subseteq b.attempted,
           b.counts = NoCounts, NEW a \in Answers(s), NEW screened \in SUBSET a.items,
           NEW old \in SUBSET (screened \ a.bad), NEW told \in SUBSET ((screened \ a.bad) \ old),
           NEW left \in Broken([b EXCEPT !.counts = Counted(b.counts, a, screened, old, told)])
    PROVE  left \in RunRecord /\ Sound(left) /\ left.pc = "over" /\ left.ended <= day
  <1> DEFINE counts == Counted(NoCounts, a, screened, old, told)
             c == [b EXCEPT !.counts = counts]
  <1>1. counts \in [collected : Int, normalized : Int] /\ Fits(counts, b.attempted)
    BY CutShort
  <1>2. left \in Broken(c)
    BY DEF RunRecord
  <1> HIDE DEF counts
  <1>3. c \in RunRecord /\ c.attempted = b.attempted /\ c.failed = b.failed /\ c.counts = counts
    BY <1>1 DEF RunRecord
  <1>4. c.attempted \in SUBSET Sources
    BY <1>3 DEF RunRecord
  <1> HIDE DEF c
  <1> QED
    BY <1>1, <1>2, <1>3, <1>4, BrokenTyped

LEMMA ScreenedTyped ==
    ASSUME NEW s \in Sources, NEW a \in Answers(s), NEW cutoff
    PROVE  /\ a.items \in SUBSET Postings /\ Usable(a) \in SUBSET Postings
           /\ Usable(a) = a.items \ a.bad
           /\ \A ps \in SUBSET Usable(a) : TooOld(ps, cutoff) \in SUBSET ps
  BY CollectAssumption DEF TooOld, Usable, Answers, Listed

LEMMA Breaking ==
    ASSUME Inv, NEW r \in Runs, NEW s \in Sources, BreakStoring(r, s) \/ BreakRecording(r, s)
    PROVE  Inv'
  <1> DEFINE limit == CutoffOf(r, s)
             Left(a, error, screened, old, told) ==
               \E left \in Broken([Noted(r, s, error) EXCEPT
                   !.counts = Counted(Noted(r, s, error).counts, a, screened, old, told)]) :
                 run' = [run EXCEPT ![r] = left]
  <1>1. /\ Asks(r, s)
        /\ day' = day /\ published' = published /\ heard' = heard /\ dropped' = dropped
    BY DEF BreakStoring, BreakRecording
  <1>2. \E a \in Answers(s), error \in BOOLEAN : \E screened \in SUBSET a.items :
           \E old \in SUBSET (screened \ a.bad) : \E kept \in SUBSET ((screened \ a.bad) \ old) :
           \E told \in SUBSET kept, ps \in SUBSET kept :
              Left(a, error, screened, old, told) /\ Stored(kept, old, s) /\ Recorded(ps)
    <2>1. CASE BreakStoring(r, s)
      <3> HIDE DEF Left, limit
      <3>1. PICK a \in Answers(s) : \E screened \in SUBSET a.items, error \in {a.error, FALSE} :
               /\ Stored({}, TooOld(screened \ a.bad, limit), s)
               /\ Left(a, error, screened, TooOld(screened \ a.bad, limit), {})
        BY <2>1 DEF BreakStoring, Left, limit
      <3>2. PICK screened \in SUBSET a.items, error \in {a.error, FALSE} :
               /\ Stored({}, TooOld(screened \ a.bad, limit), s)
               /\ Left(a, error, screened, TooOld(screened \ a.bad, limit), {})
        BY <3>1
      <3>3. error \in BOOLEAN
        BY DEF Answers
      <3>4. TooOld(screened \ a.bad, limit) \in SUBSET (screened \ a.bad)
        BY DEF TooOld
      <3>5. Recorded({})
        <4>1. reports' = reports /\ reports \in [Postings -> Nat]
          BY <2>1 DEF BreakStoring, Inv, Stock
        <4>2. \A p \in Postings : reports[p] + (IF p \in {} /\ WasNew(p) THEN 1 ELSE 0) = reports[p]
          BY <4>1
        <4> QED
          BY <4>1, <4>2 DEF Recorded
      <3> QED
        BY <3>2, <3>3, <3>4, <3>5
    <2>2. CASE BreakRecording(r, s)
      <3> HIDE DEF Left, limit
      <3>1. PICK a \in Answers(s) :
               LET old  == TooOld(Usable(a), limit)
                   kept == Usable(a) \ old
               IN \E p \in kept : \E ps \in SUBSET (kept \ {p}) :
                    /\ Stored(kept, old, s) /\ Recorded(ps)
                    /\ Left(a, a.error, a.items, old, ps \cup {p})
        BY <2>2 DEF BreakRecording, Left, limit
      <3> DEFINE old == TooOld(Usable(a), limit)
                 kept == Usable(a) \ old
      <3>2. PICK p \in kept : \E ps \in SUBSET (kept \ {p}) :
                    /\ Stored(kept, old, s) /\ Recorded(ps)
                    /\ Left(a, a.error, a.items, old, ps \cup {p})
        BY <3>1
      <3>3. PICK ps \in SUBSET (kept \ {p}) :
                    /\ Stored(kept, old, s) /\ Recorded(ps)
                    /\ Left(a, a.error, a.items, old, ps \cup {p})
        BY <3>2
      <3>4. a.error \in BOOLEAN /\ Usable(a) = a.items \ a.bad /\ old \in SUBSET (a.items \ a.bad)
        BY DEF Answers, Usable, TooOld
      <3>5. kept \in SUBSET ((a.items \ a.bad) \ old) /\ ps \in SUBSET kept /\ ps \cup {p} \in SUBSET kept
               /\ a.items \in SUBSET a.items
        BY <3>4
      <3> HIDE DEF old, kept
      <3> QED
        BY <3>3, <3>4, <3>5
    <2> QED
      BY <2>1, <2>2
  <1> HIDE DEF Left
  <1>3. PICK a \in Answers(s), error \in BOOLEAN : \E screened \in SUBSET a.items :
           \E old \in SUBSET (screened \ a.bad) : \E kept \in SUBSET ((screened \ a.bad) \ old) :
           \E told \in SUBSET kept, ps \in SUBSET kept :
              Left(a, error, screened, old, told) /\ Stored(kept, old, s) /\ Recorded(ps)
    BY <1>2
  <1>4. PICK screened \in SUBSET a.items :
           \E old \in SUBSET (screened \ a.bad) : \E kept \in SUBSET ((screened \ a.bad) \ old) :
           \E told \in SUBSET kept, ps \in SUBSET kept :
              Left(a, error, screened, old, told) /\ Stored(kept, old, s) /\ Recorded(ps)
    BY <1>3
  <1>4a. PICK old \in SUBSET (screened \ a.bad) : \E kept \in SUBSET ((screened \ a.bad) \ old) :
           \E told \in SUBSET kept, ps \in SUBSET kept :
              Left(a, error, screened, old, told) /\ Stored(kept, old, s) /\ Recorded(ps)
    BY <1>4
  <1>4b. PICK kept \in SUBSET ((screened \ a.bad) \ old) : \E told \in SUBSET kept, ps \in SUBSET kept :
              Left(a, error, screened, old, told) /\ Stored(kept, old, s) /\ Recorded(ps)
    BY <1>4a
  <1>5. PICK told \in SUBSET kept, ps \in SUBSET kept :
              Left(a, error, screened, old, told) /\ Stored(kept, old, s) /\ Recorded(ps)
    BY <1>4b
  <1>6. kept \in SUBSET Postings /\ old \in SUBSET Postings /\ told \in SUBSET ((screened \ a.bad) \ old)
    BY ScreenedTyped
  <1> DEFINE n == Noted(r, s, error)
  <1>7. n \in RunRecord /\ s \in n.attempted /\ n.failed \subseteq n.attempted /\ n.counts = NoCounts
    <2>1. n \in RunRecord /\ n.attempted = run[r].attempted \cup {s} /\ n.counts = NoCounts
             /\ n.failed = IF error THEN run[r].failed \cup {s} ELSE run[r].failed
      BY <1>1, NotedTyped
    <2>2. run[r].failed \subseteq run[r].attempted
      BY DEF Inv, Ledger, Sound
    <2> HIDE DEF n
    <2> QED
      BY <2>1, <2>2
  <1>8. PICK left \in Broken([n EXCEPT !.counts = Counted(n.counts, a, screened, old, told)]) :
           run' = [run EXCEPT ![r] = left]
    BY <1>5 DEF Left
  <1> HIDE DEF n
  <1>9. left \in RunRecord /\ Sound(left) /\ left.pc = "over" /\ left.ended <= day
    BY <1>6, <1>7, BrokenOff
  <1>10. run[r].pc # "over"
    BY <1>1 DEF Asks
  <1>11. Ledger' /\ \A q \in Runs : run[q].pc = "over" => run'[q] = run[q]
    BY <1>1, <1>8, <1>9, <1>10, Rowed
  <1>12. heard' \in [Postings -> Days] /\ \A p \in Postings : heard'[p] = heard[p]
    BY <1>1 DEF Inv, Clock
  <1>13. Stored(kept, old, s) /\ Recorded(ps)
    BY <1>5
  <1>14. Clock' /\ Stock'
    BY <1>1, <1>6, <1>12, <1>13, Storing
  <1>15. Losses'
    BY <1>1, <1>11, LossesStay
  <1> QED
    BY <1>11, <1>14, <1>15 DEF Inv

(* A batch, before its counters.                                           *)
Bare(s) == [NoRun EXCEPT !.attempted = {s}, !.answered = {s}]

LEMMA BatchTyped ==
    ASSUME NEW s \in Sources
    PROVE  /\ Bare(s) \in RunRecord /\ Bare(s).attempted = {s} /\ Bare(s).failed = {}
           /\ Bare(s).answered = {s} /\ Bare(s).counts = NoCounts
  <1>1. NoRun \in RunRecord /\ NoRun.counts = NoCounts /\ NoRun.failed = {}
    BY NoRunTyped DEF NoRun
  <1> QED
    BY <1>1 DEF RunRecord, Bare

LEMMA BatchCounted ==
    ASSUME NEW s \in Sources, NEW a, NEW screened, NEW told
    PROVE  Batch(s, a, screened, told) = [Bare(s) EXCEPT !.counts = Counted(Bare(s).counts, a, screened, {}, told)]
  <1> DEFINE c == Counted(NoCounts, a, screened, {}, told)
  <1>1. Batch(s, a, screened, told) = [NoRun EXCEPT !.attempted = {s}, !.answered = {s}, !.counts = c]
    BY DEF Batch
  <1> HIDE DEF c
  <1>2. [Bare(s) EXCEPT !.counts = c] = [NoRun EXCEPT !.attempted = {s}, !.answered = {s}, !.counts = c]
    BY DEF Bare, NoRun
  <1> QED
    BY <1>1, <1>2, BatchTyped DEF c

LEMMA Ingesting ==
    ASSUME Inv, NEW r \in Runs, NEW s \in Pushed, Ingest(r, s)
    PROVE  Inv'
  <1>1. PICK a \in Answers(s) :
          /\ Stored(Usable(a), {}, s) /\ Recorded(Usable(a))
          /\ heard' = [p \in Postings |-> IF p \in Usable(a) THEN day ELSE heard[p]]
          /\ \E left \in {Over(Batch(s, a, a.items, Usable(a)), "success", day), Unclosed} :
                run' = [run EXCEPT ![r] = left]
    BY DEF Ingest
  <1>2. run[r].pc = "none" /\ day' = day /\ published' = published /\ dropped' = dropped
    BY DEF Ingest
  <1>3. s \in Sources /\ day \in Days /\ day # Never /\ day <= day
    BY CollectAssumption DEF Inv, Clock, Days, Never
  <1> DEFINE c == Batch(s, a, a.items, Usable(a))
  <1>4. c.attempted = {s} /\ c.failed = {} /\ c.answered = {s} /\ c.counts = NoCounts
    <2>0. s \in Sources
      BY <1>3
    <2>1. /\ Bare(s) \in RunRecord /\ Bare(s).attempted = {s} /\ Bare(s).failed = {}
          /\ Bare(s).answered = {s} /\ Bare(s).counts = NoCounts
          /\ c = [Bare(s) EXCEPT !.counts = Counted(Bare(s).counts, a, a.items, {}, Usable(a))]
      BY <2>0, BatchTyped, BatchCounted
    <2>2. Counted(NoCounts, a, a.items, {}, Usable(a)) = NoCounts
      <3>1. a.items \in SUBSET Postings /\ a.bad \subseteq a.items /\ Usable(a) \ {} = Usable(a)
        BY <1>3, CollectAssumption DEF Answers, Listed
      <3> QED
        BY <3>1, AllCounted
    <2> HIDE DEF c
    <2> QED
      BY <2>1, <2>2 DEF RunRecord
  <1>5. PICK rec \in {Over(c, "success", day), Unclosed} : run' = [run EXCEPT ![r] = rec]
    BY <1>1
  <1> HIDE DEF c
  <1>6. rec \in RunRecord /\ Sound(rec) /\ rec.pc = "over" /\ rec.ended <= day
    <2>1. NoCounts \in [collected : Int, normalized : Int]
      BY DEF NoCounts
    <2>2. CASE rec = Over(c, "success", day)
      BY <1>3, <1>4, <2>1, <2>2, OverTyped
    <2>3. CASE rec = Unclosed
      BY <2>3, UnclosedTyped
    <2> QED
      BY <1>5, <2>2, <2>3
  <1>7. Ledger' /\ \A q \in Runs : run[q].pc = "over" => run'[q] = run[q]
    BY <1>2, <1>3, <1>5, <1>6, Rowed
  <1> DEFINE kept == Usable(a)
  <1>8. kept \in SUBSET Postings
    BY CollectAssumption, <1>3 DEF Usable, Answers, Listed
  <1>9. Stored(kept, {}, s) /\ Recorded(kept)
           /\ heard' = [p \in Postings |-> IF p \in kept THEN day ELSE heard[p]]
    BY <1>1
  <1> HIDE DEF kept
  <1>10. heard' \in [Postings -> Days]
    BY <1>3, <1>9 DEF Inv, Clock
  <1>11. \A p \in Postings : heard'[p] = heard[p] \/ (heard'[p] = day /\ p \in kept)
    BY <1>9
  <1>12. Clock' /\ Stock'
    BY <1>2, <1>8, <1>9, <1>10, <1>11, Storing
  <1>13. Losses'
    BY <1>2, <1>7, LossesStay
  <1> QED
    BY <1>7, <1>12, <1>13 DEF Inv

LEMMA IngestBreaking ==
    ASSUME Inv, NEW r \in Runs, NEW s \in Pushed, BreakIngest(r, s)
    PROVE  Inv'
  <1> DEFINE b == Bare(s)
             Left(a, screened, told) ==
               \E left \in Broken(Batch(s, a, screened, told)) : run' = [run EXCEPT ![r] = left]
  <1>1. run[r].pc = "none" /\ UNCHANGED <<day, published, heard, dropped>>
    BY DEF BreakIngest
  <1>2. s \in Sources
    BY CollectAssumption
  <1>3. ASSUME NEW a \in Answers(s), NEW screened \in SUBSET a.items,
               NEW told \in SUBSET (screened \ a.bad), Left(a, screened, told)
        PROVE  \E left \in RunRecord : /\ Sound(left) /\ left.pc = "over" /\ left.ended <= day
                                       /\ run' = [run EXCEPT ![r] = left]
    <2> DEFINE none == {}
               c == [b EXCEPT !.counts = Counted(b.counts, a, screened, none, told)]
    <2>1. Batch(s, a, screened, told) = c
      BY <1>2, BatchCounted
    <2>2. b \in RunRecord /\ s \in b.attempted /\ b.failed \subseteq b.attempted /\ b.counts = NoCounts
      BY <1>2, BatchTyped
    <2>3. none \in SUBSET (screened \ a.bad) /\ told \in SUBSET ((screened \ a.bad) \ none)
      OBVIOUS
    <2> HIDE DEF none, b, c
    <2>4. PICK left \in Broken(c) : run' = [run EXCEPT ![r] = left]
      BY <1>3, <2>1
    <2>5. left \in Broken([b EXCEPT !.counts = Counted(b.counts, a, screened, none, told)])
      BY <2>4 DEF c
    <2>6. left \in RunRecord /\ Sound(left) /\ left.pc = "over" /\ left.ended <= day
      BY <1>2, <2>2, <2>3, <2>5, BrokenOff
    <2> QED
      BY <2>4, <2>6
  <1> HIDE DEF Left
  <1>4. CASE \E a \in Answers(s) : \E screened \in SUBSET a.items :
               Left(a, screened, {}) /\ UNCHANGED <<post, reports>>
    <2>0. PICK a \in Answers(s) : \E screened \in SUBSET a.items : Left(a, screened, {})
      BY <1>4
    <2>0a. PICK screened \in SUBSET a.items : Left(a, screened, {})
      BY <2>0
    <2>1. PICK left \in RunRecord : /\ Sound(left) /\ left.pc = "over" /\ left.ended <= day
                                    /\ run' = [run EXCEPT ![r] = left]
      BY <1>3, <2>0a
    <2> QED
      BY <1>1, <1>4, <2>1, OnlyTheRow
  <1>5. CASE \E a \in Answers(s) : \E told \in SUBSET Usable(a), ps \in SUBSET Usable(a) :
               Left(a, a.items, told) /\ Stored(Usable(a), {}, s) /\ Recorded(ps)
    <2>0. PICK a \in Answers(s) : \E told \in SUBSET Usable(a), ps \in SUBSET Usable(a) :
               Left(a, a.items, told) /\ Stored(Usable(a), {}, s) /\ Recorded(ps)
      BY <1>5
    <2>1. PICK told \in SUBSET Usable(a), ps \in SUBSET Usable(a) :
               Left(a, a.items, told) /\ Stored(Usable(a), {}, s) /\ Recorded(ps)
      BY <2>0
    <2>2. PICK left \in RunRecord : /\ Sound(left) /\ left.pc = "over" /\ left.ended <= day
                                    /\ run' = [run EXCEPT ![r] = left]
      <3>1. told \in SUBSET (a.items \ a.bad) /\ a.items \in SUBSET a.items
        BY DEF Usable
      <3> QED
        BY <1>3, <2>1, <3>1
    <2>3. Ledger' /\ \A q \in Runs : run[q].pc = "over" => run'[q] = run[q]
      BY <1>1, <2>2, Rowed
    <2> DEFINE kept == Usable(a)
    <2>4. kept \in SUBSET Postings /\ {} \in SUBSET Postings
      BY <1>2, ScreenedTyped
    <2>5. Stored(kept, {}, s) /\ ps \in SUBSET kept /\ Recorded(ps)
      BY <2>1
    <2> HIDE DEF kept
    <2>6. heard' \in [Postings -> Days] /\ \A p \in Postings : heard'[p] = heard[p]
      BY <1>1 DEF Inv, Clock
    <2>7. Clock' /\ Stock'
      BY <1>1, <2>4, <2>5, <2>6, Storing
    <2>8. Losses'
      BY <1>1, <2>3, LossesStay
    <2> QED
      BY <2>3, <2>7, <2>8 DEF Inv
  <1>6. \/ \E a \in Answers(s) : \E screened \in SUBSET a.items :
               Left(a, screened, {}) /\ UNCHANGED <<post, reports>>
        \/ \E a \in Answers(s) : \E told \in SUBSET Usable(a), ps \in SUBSET Usable(a) :
               Left(a, a.items, told) /\ Stored(Usable(a), {}, s) /\ Recorded(ps)
    <2>1. PICK a \in Answers(s) :
             \/ /\ \E screened \in SUBSET a.items : Left(a, screened, {})
                /\ UNCHANGED <<post, reports>>
             \/ /\ \E p \in Usable(a) : \E ps \in SUBSET (Usable(a) \ {p}) :
                     Recorded(ps) /\ Left(a, a.items, ps \cup {p})
                /\ Stored(Usable(a), {}, s)
      BY DEF BreakIngest, Left
    <2>2. CASE \E p \in Usable(a) : \E ps \in SUBSET (Usable(a) \ {p}) :
                  Recorded(ps) /\ Left(a, a.items, ps \cup {p}) /\ Stored(Usable(a), {}, s)
      <3>0. PICK p \in Usable(a) : \E ps \in SUBSET (Usable(a) \ {p}) :
                  Recorded(ps) /\ Left(a, a.items, ps \cup {p}) /\ Stored(Usable(a), {}, s)
        BY <2>2
      <3>1. PICK ps \in SUBSET (Usable(a) \ {p}) :
                  Recorded(ps) /\ Left(a, a.items, ps \cup {p}) /\ Stored(Usable(a), {}, s)
        BY <3>0
      <3>2. ps \cup {p} \in SUBSET Usable(a) /\ ps \in SUBSET Usable(a)
        OBVIOUS
      <3> QED
        BY <3>1, <3>2
    <2> QED
      BY <2>1, <2>2
  <1> QED
    BY <1>4, <1>5, <1>6

LEMMA Querying ==
    ASSUME Inv, NEW r \in Runs, NEW s \in Sources, Query(r, s)
    PROVE  Inv'
  <1>1. PICK a \in Answers(s) :
     LET old  == TooOld(Usable(a), CutoffOf(r, s))
         kept == Usable(a) \ old
     IN /\ Stored(kept, old, s) /\ Recorded(kept)
        /\ heard' = [p \in Postings |-> IF p \in a.items \ a.bad THEN day ELSE heard[p]]
        /\ dropped' = dropped \cup [posting : {p \in old : ~post[p].known}, source : {s}, day : {day}]
        /\ run' = [run EXCEPT ![r] = [Noted(r, s, a.error) EXCEPT
                     !.counts = Counted(@, a, a.items, old, kept),
                     !.cutoff = [t \in DOMAIN @ \cup {s} |-> CutoffOf(r, t)],
                     !.answered = IF a.error THEN @ ELSE @ \cup {s}]]
    BY DEF Query
  <1>2. Asks(r, s) /\ day' = day /\ published' = published
    BY DEF Query
  <1>3. /\ run[r].pc = "running" /\ run[r] \in RunRecord /\ Sound(run[r]) /\ run[r].ended <= day
        /\ \A t \in DOMAIN run[r].cutoff : Justified(t, run[r].cutoff[t])
    BY <1>2 DEF Asks, Inv, Ledger
  <1>4. /\ a.items \in SUBSET Postings /\ a.bad \subseteq a.items /\ a.error \in BOOLEAN
        /\ \A p \in a.items : published[p] # Never
    BY CollectAssumption DEF Answers, Listed
  <1> DEFINE limit == CutoffOf(r, s)
             old   == TooOld(Usable(a), limit)
             kept  == Usable(a) \ old
             n     == Noted(r, s, a.error)
             counts == Counted(n.counts, a, a.items, old, kept)
             cutoff == [t \in DOMAIN n.cutoff \cup {s} |-> CutoffOf(r, t)]
             answered == IF a.error THEN n.answered ELSE n.answered \cup {s}
             rec == [n EXCEPT !.counts = counts, !.cutoff = cutoff, !.answered = answered]
  <1>5. /\ Stored(kept, old, s) /\ Recorded(kept)
        /\ heard' = [p \in Postings |-> IF p \in Usable(a) THEN day ELSE heard[p]]
        /\ dropped' = dropped \cup [posting : {p \in old : ~post[p].known}, source : {s}, day : {day}]
    BY <1>1 DEF Usable
  <1>6. run' = [run EXCEPT ![r] = rec]
    BY <1>1
  <1>7. limit \in Int /\ Justified(s, limit)
    BY <1>3, Cutoffs
  <1>8. /\ old \in SUBSET Usable(a) /\ kept \in SUBSET Postings /\ old \in SUBSET Postings
        /\ Usable(a) = kept \cup old /\ kept \cap old = {}
        /\ \A p \in old : published[p] < limit /\ published[p] # Never
    BY <1>4 DEF TooOld, Usable
  <1>9. /\ n \in RunRecord /\ n.pc = "running" /\ n.row = "open" /\ n.window = run[r].window
        /\ n.cutoff = run[r].cutoff /\ n.ended = Never /\ n.counts = NoCounts
        /\ n.answered = run[r].answered /\ n.attempted = run[r].attempted \cup {s}
        /\ n.failed = IF a.error THEN run[r].failed \cup {s} ELSE run[r].failed
        /\ n.failures <= n.asked
    BY <1>2, <1>4, NotedTyped
  <1>10. counts = NoCounts
    BY <1>4, <1>8, <1>9, AllCounted
  <1>11. /\ cutoff \in UNION {[D -> Int] : D \in SUBSET Sources}
         /\ \A t \in DOMAIN cutoff : Justified(t, cutoff[t])
    <2>1. DOMAIN run[r].cutoff \cup {s} \in SUBSET Sources
      BY <1>3 DEF RunRecord
    <2>2. \A t \in Sources : CutoffOf(r, t) \in Int /\ Justified(t, CutoffOf(r, t))
      BY <1>3, Cutoffs
    <2>3. cutoff = [t \in DOMAIN run[r].cutoff \cup {s} |-> CutoffOf(r, t)]
      BY <1>9
    <2> DEFINE D == DOMAIN run[r].cutoff \cup {s}
    <2> HIDE DEF cutoff
    <2>4. cutoff \in [D -> Int] /\ \A t \in D : cutoff[t] = CutoffOf(r, t)
      BY <2>1, <2>2, <2>3
    <2> QED
      BY <2>1, <2>2, <2>4
  <1>12. answered \in SUBSET Sources
    BY <1>3, <1>9 DEF RunRecord
  <1>13. n.attempted \ n.failed \subseteq answered
    <2>1. run[r].attempted \ run[r].failed \subseteq run[r].answered
      BY <1>3 DEF Sound
    <2> HIDE DEF n
    <2> QED
      BY <1>9, <2>1
  <1>14. n.failed \subseteq n.attempted /\ n.window \in Windows
    <2>1. run[r].failed \subseteq run[r].attempted /\ run[r].window \in Windows
      BY <1>3 DEF Sound
    <2> HIDE DEF n
    <2> QED
      BY <1>9, <2>1
  <1> HIDE DEF counts, cutoff, answered, n
  <1>15. /\ rec.pc = n.pc /\ rec.row = n.row /\ rec.window = n.window /\ rec.ended = n.ended
         /\ rec.attempted = n.attempted /\ rec.failed = n.failed
         /\ rec.failures = n.failures /\ rec.asked = n.asked
         /\ rec.counts = counts /\ rec.cutoff = cutoff /\ rec.answered = answered
    BY <1>9 DEF RunRecord
  <1>16. rec \in RunRecord
    <2>1. NoCounts \in [collected : Int, normalized : Int]
      BY DEF NoCounts
    <2>2. counts \in [collected : Int, normalized : Int]
      BY <1>10, <2>1
    <2> QED
      BY <1>9, <1>11, <1>12, <2>2 DEF RunRecord
  <1> HIDE DEF rec
  <1>17. Sound(rec) /\ rec.ended <= day
    BY <1>3, <1>9, <1>10, <1>13, <1>14, <1>15 DEF Sound, Inv, Clock, Never
  <1>18. \A t \in DOMAIN rec.cutoff : Justified(t, rec.cutoff[t])
    BY <1>11, <1>15
  <1>19. Ledger' /\ \A q \in Runs : run[q].pc = "over" => run'[q] = run[q]
    <2>1. run[r].pc # "over"
      BY <1>3
    <2> QED
      BY <1>2, <1>6, <1>16, <1>17, <1>18, <2>1, Rowed
  <1> HIDE DEF old, kept, limit
  <1>20. day \in Int /\ day \in Days
    BY CollectAssumption DEF Inv, Clock, Days, Never
  <1>21. Clock' /\ Stock'
    <2>1. heard' \in [Postings -> Days]
      BY <1>5, <1>20 DEF Inv, Clock
    <2>2. \A p \in Postings : heard'[p] = heard[p] \/ (heard'[p] = day /\ p \in kept \cup old)
      BY <1>5, <1>8
    <2>3. ASSUME NEW p \in old, ~post[p].known
          PROVE  \E d \in dropped' : d.posting = p /\ d.day = day
      <3>1. [posting |-> p, source |-> s, day |-> day] \in dropped'
        BY <1>5, <2>3
      <3> QED
        BY <3>1
    <2>4. dropped \subseteq dropped'
      BY <1>5
    <2> QED
      BY <1>2, <1>5, <1>8, <2>1, <2>2, <2>3, <2>4, Storing
  <1>22. Losses'
    <2>1. dropped' \subseteq [posting : Postings, source : Sources, day : Days]
      BY <1>5, <1>8, <1>20 DEF Inv, Losses
    <2>2. ASSUME NEW d \in dropped PROVE published[d.posting] # Never /\ Covered(d)'
      BY <1>2, <1>19 DEF Inv, Losses, Covered
    <2>3. ASSUME NEW d \in [posting : {p \in old : ~post[p].known}, source : {s}, day : {day}]
          PROVE  published[d.posting] # Never /\ Covered(d)'
      <3>1. d.posting \in old /\ d.source = s /\ d.day = day
        OBVIOUS
      <3>2. published[d.posting] # Never /\ published[d.posting] < limit /\ published[d.posting] \in Int
        BY <1>8, <3>1 DEF Inv, Clock, Days, Never
      <3>3. \A q \in Runs : run[q].ended \in Int
        BY DEF Inv, Ledger, RunRecord, Days, Never
      <3> DEFINE since == published[d.posting]
      <3>4. CASE \E w \in Windows : limit <= day - w.backfill
        <4>1. PICK w \in Windows : limit <= day - w.backfill
          BY <3>4
        <4>2. w.backfill \in Nat
          BY CollectAssumption
        <4> HIDE DEF since
        <4>3. since \in Int /\ since < limit
          BY <3>2 DEF since
        <4>4. day - since > w.backfill
          BY <1>7, <1>20, <4>1, <4>2, <4>3
        <4>5. d.day - published'[d.posting] > w.backfill
          BY <1>2, <3>1, <4>4 DEF since
        <4> QED
          BY <3>2, <4>5 DEF Covered
      <3>5. CASE \E q \in Runs : /\ run[q].pc = "over" /\ limit <= run[q].ended /\ run[q].ended <= day
                                 /\ run[q].row = "threw" \/ s \in run[q].answered
        <4>1. PICK q \in Runs : /\ run[q].pc = "over" /\ limit <= run[q].ended /\ run[q].ended <= day
                                /\ run[q].row = "threw" \/ s \in run[q].answered
          BY <3>5
        <4>2. run'[q] = run[q]
          BY <1>19, <4>1
        <4>3. published[d.posting] <= run[q].ended
          BY <1>7, <3>2, <3>3, <4>1
        <4>4. published'[d.posting] = published[d.posting]
          BY <1>2
        <4> QED
          BY <3>1, <3>2, <4>1, <4>2, <4>3, <4>4 DEF Covered
      <3> QED
        BY <1>7, <3>4, <3>5 DEF Justified
    <2> QED
      BY <1>2, <1>5, <2>1, <2>2, <2>3 DEF Losses
  <1> QED
    BY <1>19, <1>21, <1>22 DEF Inv

-----------------------------------------------------------------------------
(* The invariant is inductive.                                             *)

LEMMA Initially == Init => Inv
  <1> SUFFICES ASSUME Init PROVE Inv
    OBVIOUS
  <1>1. /\ day = 0 /\ published = [p \in Postings |-> IF p \in Dated THEN Never ELSE 0]
        /\ post = [p \in Postings |-> NoPost] /\ run = [r \in Runs |-> NoRun]
        /\ reports = [p \in Postings |-> 0] /\ heard = [p \in Postings |-> Never]
        /\ dropped = {}
    BY DEF Init
  <1>2. 0 \in 0..MaxDay /\ 0 \in Days /\ Never \in Days /\ Never <= 0
    BY CollectAssumption DEF Days, Never
  <1>3. Clock
    BY <1>1, <1>2 DEF Clock
  <1>4. Stock
    <2>1. NoPost \in PostRecord /\ NoPost.known = FALSE
      BY <1>2 DEF NoPost, PostRecord
    <2> QED
      BY <1>1, <2>1 DEF Stock, NewOnce, HeardIsKept, DeliveredIsKept, SeenWhenListed
  <1>5. Ledger
    BY <1>1, <1>2, NoRunTyped DEF Ledger
  <1>6. Losses
    BY <1>1 DEF Losses
  <1> QED
    BY <1>3, <1>4, <1>5, <1>6 DEF Inv

LEMMA Inductive == Inv /\ [Next]_vars => Inv'
  <1> SUFFICES ASSUME Inv, [Next]_vars PROVE Inv'
    OBVIOUS
  <1>1. CASE UNCHANGED vars
    BY <1>1 DEF vars, Inv, Clock, Stock, NewOnce, HeardIsKept, DeliveredIsKept, SeenWhenListed,
                Ledger, Sound, Justified, Losses, Covered
  <1>2. CASE Tick \/ Publish \/ Extract
    BY <1>2, Ticking, Publishing, Extracting
  <1>3. CASE \E r \in Runs : Start(r) \/ End(r) \/ Die(r)
    BY <1>3, Starting, Closing
  <1>4. CASE \E r \in Runs, s \in Sources : Missing(r, s) \/ Query(r, s)
    BY <1>4, Missed, Querying
  <1>5. CASE \E r \in Runs, s \in Sources : BreakStoring(r, s) \/ BreakRecording(r, s)
    BY <1>5, Breaking
  <1>6. CASE \E r \in Runs, s \in Pushed : Ingest(r, s) \/ BreakIngest(r, s)
    BY <1>6, Ingesting, IngestBreaking
  <1> QED
    BY <1>1, <1>2, <1>3, <1>4, <1>5, <1>6 DEF Next

LEMMA Always == Spec => []Inv
  BY Initially, Inductive, PTL DEF Spec

-----------------------------------------------------------------------------
(* The theorems.                                                           *)

(* The variables of collection keep their types.                           *)
THEOREM TypeInvariant == Spec => []TypeOK
  <1>1. Inv => TypeOK
    BY DEF Inv, Clock, Stock, PostRecord, Ledger, RunRecord, Sound, Losses, TypeOK
  <1> QED
    BY <1>1, Always, PTL

(* Whatever the windows, and however many runs overlap, fail and die: what *)
(* is dropped as too old without being stored is past a backfill limit, or *)
(* a run that is over had heard its source since, or threw                 *)
(* (collectionCutoffDays, findLastSuccessfulSourceCollectAt).              *)
THEOREM NothingFallsInTheGap == Spec => []WindowCoversGap
  <1>1. Inv => WindowCoversGap
    BY DEF Inv, Losses, Covered, WindowCoversGap
  <1> QED
    BY <1>1, Always, PTL

(* A posting is reported new at most once, and the counters of a row       *)
(* account for every item of every answer, but for part of the one answer  *)
(* at which a run that threw broke off (executeCollect,                    *)
(* executeIngestExternal, upsertMany).                                     *)
THEOREM TheAccountsAddUp == Spec => []AccountsAddUp
  <1>1. Inv => AccountsAddUp
    BY DEF Inv, Stock, Ledger, Sound, Fits, AccountsAddUp, CountsReconcile
  <1> QED
    BY <1>1, Always, PTL

(* What one step keeps of every stored posting.                            *)
Survive ==
    \A p \in Postings : post[p].known =>
       /\ post'[p].known /\ post'[p].first = post[p].first
       /\ post[p].described => post'[p].described
       /\ (post[p].seniority /\ ~post'[p].seniority) => UNCHANGED run

LEMMA StoringSurvives ==
    ASSUME Inv, NEW kept \in SUBSET Postings, NEW seen \in SUBSET Postings, NEW s,
           Stored(kept, seen, s)
    PROVE  Survive
  BY Growing DEF Grown, Survive

LEMMA StepsSurvive == ASSUME Inv, [Next]_vars PROVE Survive
  <1>1. CASE UNCHANGED post
    BY <1>1 DEF Survive
  <1>2. CASE Extract
    BY <1>2 DEF Extract, Survive, Inv, Stock, PostRecord
  <1>3. ASSUME NEW r \in Runs, NEW s \in Sources, Query(r, s) \/ BreakRecording(r, s) PROVE Survive
    <2>1. PICK a \in Answers(s) : LET old == TooOld(Usable(a), CutoffOf(r, s))
                                  IN Stored(Usable(a) \ old, old, s)
      BY <1>3 DEF Query, BreakRecording
    <2> DEFINE old == TooOld(Usable(a), CutoffOf(r, s))
               kept == Usable(a) \ old
    <2>2. old \in SUBSET Postings /\ kept \in SUBSET Postings
      BY CollectAssumption DEF TooOld, Usable, Answers, Listed
    <2>3. Stored(kept, old, s)
      BY <2>1
    <2> HIDE DEF old, kept
    <2> QED
      BY <2>2, <2>3, StoringSurvives
  <1>4. ASSUME NEW r \in Runs, NEW s \in Sources, BreakStoring(r, s) PROVE Survive
    <2>1. PICK ps : Stored({}, TooOld(ps, CutoffOf(r, s)), s)
      BY <1>4 DEF BreakStoring
    <2>2. \A qs : TooOld(qs, CutoffOf(r, s)) \in SUBSET Postings
      BY CollectAssumption DEF TooOld
    <2> QED
      BY <2>1, <2>2, StoringSurvives
  <1>5. ASSUME NEW r \in Runs, NEW s \in Pushed, Ingest(r, s) PROVE Survive
    <2>1. PICK a \in Answers(s) : Stored(Usable(a), {}, s)
      BY <1>5 DEF Ingest
    <2>2. Usable(a) \in SUBSET Postings
      BY CollectAssumption DEF Usable, Answers, Listed
    <2> QED
      BY <2>1, <2>2, StoringSurvives
  <1>6. CASE \E r \in Runs : Start(r) \/ End(r) \/ Die(r)
    BY <1>1, <1>6 DEF Start, End, Die
  <1>7. CASE Tick \/ Publish
    BY <1>1, <1>7 DEF Tick, Publish
  <1>8. CASE \E r \in Runs, s \in Sources : Missing(r, s)
    BY <1>1, <1>8 DEF Missing
  <1>9. ASSUME NEW r \in Runs, NEW s \in Pushed, BreakIngest(r, s) PROVE Survive
    <2>1. CASE UNCHANGED post
      BY <1>1, <2>1
    <2>2. CASE \E a \in Answers(s) : Stored(Usable(a), {}, s)
      <3>1. \A a \in Answers(s) : Usable(a) \in SUBSET Postings
        BY CollectAssumption DEF Usable, Answers, Listed
      <3> QED
        BY <2>2, <3>1, StoringSurvives
    <2> QED
      BY <1>9, <2>1, <2>2 DEF BreakIngest
  <1>10. CASE UNCHANGED vars
    BY <1>1, <1>10 DEF vars
  <1> QED
    BY <1>2, <1>3, <1>4, <1>5, <1>6, <1>7, <1>8, <1>9, <1>10 DEF Next

(* Nothing learnt of a posting is forgotten: what was delivered is stored  *)
(* or was dropped as too old that day, a stored posting was last seen no   *)
(* earlier than it was last heard of, and no later source takes a fact     *)
(* from it (upsert, markSeen).                                             *)
THEOREM NothingIsForgotten == Spec => NothingForgotten
  <1>1. Inv => HeardIsKept
    BY DEF Inv, Stock
  <1>2. Inv /\ [Next]_vars => [Survive]_vars
    BY StepsSurvive
  <1>3. [Survive]_vars <=> [\A p \in Postings : post[p].known =>
             /\ post'[p].known /\ post'[p].first = post[p].first
             /\ post[p].described => post'[p].described
             /\ (post[p].seniority /\ ~post'[p].seniority) => UNCHANGED run]_vars
    BY DEF Survive
  <1> QED
    BY <1>1, <1>2, <1>3, Always, PTL DEF Spec, NothingForgotten, FactsSurvive
=============================================================================
