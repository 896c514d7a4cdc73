-------------------------- MODULE SourceCollectors --------------------------
(***************************************************************************)
(* The collectors of the seven job boards (posting/infrastructure): how    *)
(* each asks its board for pages, when it stops, and what its              *)
(* CollectionResult says of what it got.  Three read an API that lists     *)
(* whole postings; four scrape a listing of cards and then open one detail *)
(* page per card.  All of them ask through fetchWithDeadline.              *)
(*                                                                         *)
(* A posting is its place on the board, which holds still for the length of*)
(* one collection.                                                         *)
(***************************************************************************)
EXTENDS Naturals, Sequences, FiniteSets, SequencesExt

CONSTANTS PageSize,   \* postings a full page shows
          PageCap,    \* MAX_PAGES of NerdIn and 99jobs
          Delays,     \* length of backoffDelaysMs
          Caps,       \* the values of maxResults
          MaxBoard    \* bound: postings on a board

ASSUME CollectorsAssumption ==
  /\ PageSize \in Nat \ {0} /\ PageCap \in Nat \ {0} /\ Delays \in Nat
  /\ Caps \subseteq Nat \ {0} /\ MaxBoard \in Nat

Apis     == {"gupy", "ciee", "solides"}
Scrapers == {"nerdin", "99jobs", "vagas", "infojobs"}
Buckets  == 1..2     \* listings of InfoJobs: one, or one for each age the query covers

VARIABLES who, cap, board,
          buckets,  \* listings InfoJobs asks for
          counted,  \* 99jobs has read the total its listing states
          at,       \* "idle", "listing", "details" or "done"
          page,     \* listing requests that were answered or given up
          tries,    \* failed attempts of the request under way
          cards,    \* postings listed, in order
          result,
          shown     \* history: postings on the pages that could be read
sourceVars == <<who, cap, board, buckets, counted, at, page, tries, cards, result, shown>>

Nothing == [postings |-> <<>>, schemaRejected |-> 0, businessRejected |-> 0,
            received |-> 0, truncated |-> FALSE, error |-> FALSE]

CollectorsInit ==
  /\ who = "gupy" /\ cap = 1 /\ board = 0 /\ buckets = 1 /\ counted = FALSE /\ at = "idle"
  /\ page = 0 /\ tries = 0 /\ cards = <<>> /\ result = Nothing /\ shown = {}

-----------------------------------------------------------------------------
Least(a, b)      == IF a <= b THEN a ELSE b
Ascending(S)     == CHOOSE s \in SetToSeqs(S) : \A i, j \in DOMAIN s : i < j => s[i] < s[j]
FirstOf(n, S)    == {i \in S : Cardinality({j \in S : j < i}) < n}
Window(after, n) == (after + 1) .. Least(after + n, board)

Judged == Len(result.postings) + result.schemaRejected + result.businessRejected

\* What becomes of the items: kept; refused by their schema, or their detail page
\* cannot be had; or left out by a rule of the collector.
With(r, items, fate) ==
  LET of(f) == {i \in items : fate[i] = f} IN
  [r EXCEPT !.postings = @ \o Ascending(of("kept")),
            !.schemaRejected = @ + Cardinality(of("malformed")),
            !.businessRejected = @ + Cardinality(of("unwanted"))]

-----------------------------------------------------------------------------
(* One request *)

\* Mutation of MayRetry: no end to the attempts.
MayRetryAlways == TRUE

MayRetry == tries < Delays

\* A 5xx, a failure of the network or a deadline that passed before the body was
\* complete; after the last delay it is the request that fails.
Retry ==
  /\ at \in {"listing", "details"} /\ MayRetry
  /\ tries' = tries + 1
  /\ UNCHANGED <<who, cap, board, buckets, counted, at, page, cards, result, shown>>

-----------------------------------------------------------------------------
(* APIs that list whole postings *)

\* Mutation of Taken: the whole page, also past the cap.
TakenWhole(items) == items

Taken(items) == FirstOf(cap - Len(cards), items)

\* A page was read; full: the board may have more.  The cap may cut the page, or stop
\* the next one from being asked for.
TakePage(items, full, fates) ==
  /\ at = "listing"
  /\ \E fate \in [Taken(items) -> fates] :
     LET all == cards \o Ascending(Taken(items)) IN
     /\ cards' = all /\ shown' = shown \cup items
     /\ result' = [With(result, Taken(items), fate) EXCEPT
                     !.received = Len(all),
                     !.truncated = items # Taken(items) \/ (full /\ Len(all) >= cap)]
     /\ at' = IF full /\ Len(all) < cap THEN "listing" ELSE "done"
  /\ page' = page + 1 /\ tries' = 0
  /\ UNCHANGED <<who, cap, board, buckets, counted>>

\* asks by offset, and for no more than the cap leaves
GupyPage ==
  LET limit == Least(PageSize, cap - Len(cards))
      items == Window(Len(cards), limit) IN
  who = "gupy" /\ TakePage(items, Cardinality(items) = limit, {"kept", "malformed"})

\* CIEE may say that a page is the last; its postings of other levels are left out.
CieePage ==
  LET items == Window(page * PageSize, PageSize) IN
  /\ who = "ciee"
  /\ \E last \in {FALSE, board = page * PageSize + Cardinality(items)} :
       TakePage(items, Cardinality(items) = PageSize /\ ~last, {"kept", "malformed", "unwanted"})

SolidesPage ==
  LET items == Window(page * PageSize, PageSize) IN
  who = "solides" /\ TakePage(items, Cardinality(items) = PageSize, {"kept", "malformed"})

\* Refused, too large, out of attempts, or not the body it should be.
ApiPageFails ==
  /\ at = "listing" /\ who \in Apis
  /\ result' = [result EXCEPT !.error = TRUE] /\ at' = "done"
  /\ UNCHANGED <<who, cap, board, buckets, counted, page, tries, cards, shown>>

-----------------------------------------------------------------------------
(* Listings of cards *)

Fresh(items) == items \ ToSet(cards)

\* The listing is over: on to the details of the first cards, if there are any.
OpenDetails(all, received, truncated, error) ==
  /\ at' = IF all = <<>> THEN "done" ELSE "details"
  /\ result' = [result EXCEPT !.received = received, !.truncated = truncated, !.error = error]

\* A listing page was read, and new cards come with it.
ListPage(items, new, more, received, truncated) ==
  LET all == cards \o Ascending(new) IN
  /\ at = "listing" /\ cards' = all /\ shown' = shown \cup items
  /\ IF more THEN UNCHANGED <<at, result>> ELSE OpenDetails(all, received, truncated, result.error)
  /\ page' = page + 1 /\ tries' = 0 /\ UNCHANGED <<who, cap, board, buckets>>

\* A page past the end of the board: NerdIn answers with page one.
NerdinPage ==
  LET here  == Window(page * PageSize, PageSize)
      items == IF here = {} THEN Window(0, PageSize) ELSE here
      all   == Len(cards) + Cardinality(Fresh(items))
      exhausted == Fresh(items) = {} \/ Cardinality(items) < PageSize IN
  /\ who = "nerdin" /\ UNCHANGED counted
  /\ ListPage(items, Fresh(items), ~exhausted /\ all < cap /\ page + 1 < PageCap,
              Least(cap, all), ~exhausted /\ all >= cap)

\* 99jobs may state how many there are; nothing is known of its answers past the end.
NinetyNineJobsPage ==
  LET here == Window(page * PageSize, PageSize) IN
  /\ who = "99jobs"
  /\ \E items \in IF here = {} THEN {{}, Window(0, PageSize)} ELSE {here}, total \in {counted, TRUE} :
       LET all == Len(cards) + Cardinality(Fresh(items))
           exhausted == Fresh(items) = {} \/ Cardinality(items) < PageSize \/ (total /\ all >= board) IN
       /\ counted' = total
       /\ ListPage(items, Fresh(items), ~exhausted /\ all < cap /\ page + 1 < PageCap,
                   Least(cap, all), (total /\ board > Least(cap, all)) \/ (~exhausted /\ all >= cap))

\* Vagas.com counts the cards it listed, not those it took.
VagasPage ==
  LET items == Window(page * PageSize, PageSize)
      full  == Cardinality(items) = PageSize
      all   == Len(cards) + Cardinality(items) IN
  /\ who = "vagas" /\ UNCHANGED counted
  /\ ListPage(items, items, full /\ all < cap, all, full /\ all >= cap)

\* One listing for each age the query covers; a listing shows some of what there is.
InfoJobsPage ==
  /\ who = "infojobs" /\ UNCHANGED counted
  /\ \E items \in {S \in SUBSET (1..board) : Cardinality(S) <= PageSize} :
       LET all == Len(cards) + Cardinality(Fresh(items)) IN
       ListPage(items, Fresh(items), page + 1 < buckets, all, all > cap)

\* InfoJobs goes on to the next age; the others make do with the pages they have.
ListingFails ==
  /\ at = "listing" /\ who \in Scrapers
  /\ IF who = "infojobs" /\ page + 1 < buckets
     THEN result' = [result EXCEPT !.error = TRUE] /\ UNCHANGED at
     ELSE OpenDetails(cards, Len(cards),
                      \/ who = "infojobs" /\ Len(cards) > cap
                      \/ counted /\ cards # <<>> /\ board > Len(cards), TRUE)
  /\ page' = page + 1 /\ tries' = 0
  /\ UNCHANGED <<who, cap, board, buckets, counted, cards, shown>>

\* A detail page becomes a posting or a rejection, never the end of the collection.
Detail(fates, error) ==
  /\ at = "details"
  /\ \E f \in fates : LET i == cards[Judged + 1] IN
       result' = [With(result, {i}, [j \in {i} |-> f]) EXCEPT !.error = @ \/ error]
  /\ at' = IF Judged + 1 = Least(cap, Len(cards)) THEN "done" ELSE "details"
  /\ tries' = 0 /\ UNCHANGED <<who, cap, board, buckets, counted, page, cards, shown>>

NerdinDetail   == who = "nerdin" /\ Detail({"kept", "malformed"}, FALSE)
InfoJobsDetail == who = "infojobs" /\ Detail({"kept", "malformed"}, FALSE)
\* older than the query's window, by the label on its card
VagasDetail    == who = "vagas" /\ Detail({"kept", "malformed", "unwanted"}, FALSE)
\* 99jobs also reports that a request threw, or that it lacks the token for one.
NinetyNineJobsDetail ==
  who = "99jobs" /\ (Detail({"kept", "malformed"}, FALSE) \/ Detail({"malformed"}, TRUE))

-----------------------------------------------------------------------------
BeginCollect ==
  /\ at = "idle" /\ at' = "listing"
  /\ who' \in Apis \cup Scrapers /\ cap' \in Caps /\ board' \in 0..MaxBoard
  /\ buckets' \in (IF who' = "infojobs" THEN Buckets ELSE {1})
  /\ UNCHANGED <<counted, page, tries, cards, result, shown>>

Request == \/ Retry \/ ApiPageFails \/ ListingFails
           \/ GupyPage \/ CieePage \/ SolidesPage
           \/ NerdinPage \/ NinetyNineJobsPage \/ VagasPage \/ InfoJobsPage
           \/ NerdinDetail \/ NinetyNineJobsDetail \/ VagasDetail \/ InfoJobsDetail

CollectorsNext == BeginCollect \/ Request

\* Every attempt ends: fetchWithDeadline aborts it, the reading of the body included.
CollectorsFairness == WF_sourceVars(Request)

CollectorsSpec == CollectorsInit /\ [][CollectorsNext]_sourceVars /\ CollectorsFairness

-----------------------------------------------------------------------------
(* Properties *)

CollectorsTypeOK ==
  /\ who \in Apis \cup Scrapers /\ cap \in Nat \ {0} /\ board \in Nat /\ buckets \in Buckets
  /\ counted \in BOOLEAN /\ at \in {"idle", "listing", "details", "done"}
  /\ page \in Nat /\ tries \in 0..Delays /\ cards \in Seq(1..board) /\ shown \subseteq 1..board
  /\ result \in [postings : Seq(1..board), schemaRejected : Nat, businessRejected : Nat,
                  received : Nat, truncated : BOOLEAN, error : BOOLEAN]

\* What is left out without a word: InfoJobs has no second page; NerdIn, Vagas.com and
\* 99jobs without a total take a short last page for the end also when the cap cuts it,
\* and NerdIn and 99jobs stop at the page cap.
LeftUnsaid ==
  \/ who = "infojobs"
  \/ ~counted /\ who \in Scrapers /\ Cardinality(shown) > cap
  \/ ~counted /\ who \in {"nerdin", "99jobs"} /\ page = PageCap

\* Every posting a page showed, up to the cap, is returned once or counted under one
\* rejection, also after a later page or a detail page failed, and the total agrees; a
\* result that reports neither an error nor a truncation has the whole board, but for
\* what LeftUnsaid names.
ResultIsHonest ==
  /\ CollectorsTypeOK
  /\ at = "done" =>
    /\ Judged = Least(cap, Cardinality(shown)) /\ IsInjective(result.postings)
    /\ result.received = IF who \in {"vagas", "infojobs"} THEN Cardinality(shown) ELSE Judged
    /\ result.error \/ result.truncated \/ Judged = board \/ LeftUnsaid

\* A board is asked no more than the query needs: for no page past its end but the one
\* that shows it, for none past the cap, for none twice.
NeedlessPage == page > 0 /\ who # "infojobs" /\ ((page - 1) * PageSize > board \/ (page - 1) * PageSize >= cap)

\* The boards are asked sparingly, and a collection ends on any board: with every
\* request failing, with pages that repeat, with cards whose details cannot be had.
AsksLittleAndEnds ==
  [](tries <= Delays /\ ~NeedlessPage) /\ (at = "listing" ~> at = "done")
=============================================================================
