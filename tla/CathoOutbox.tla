---------------------------- MODULE CathoOutbox ----------------------------
(***************************************************************************)
(* The Catho collector (collectors/catho): its state file, which says what *)
(* became of every posting of the sitemap, and the batch it posts to       *)
(* POST /runs/collect/external until the server confirms it.               *)
(*                                                                         *)
(* A collector works on its own copy of the state and writes it back.  Of  *)
(* the lock (module CathoLock) only the contract is used: one owner, whose *)
(* lock may be taken over when it is dead or has been silent too long, and *)
(* who learns of that from its next heartbeat.                             *)
(***************************************************************************)
EXTENDS Naturals, FiniteSets, Sequences

CONSTANTS Collectors, Ids, NoOwner,
          Sitemaps,      \* what the sitemap may list: postings in its order, some of them twice
          MaxAttempts,   \* MAX_RETRYABLE_ATTEMPTS_BEFORE_QUARANTINE
          MaxPages,      \* MAX_PAGES_PER_RUN
          Every,         \* CHECKPOINT_EVERY
          MaxTroubles    \* bound: crashes and takeovers from a live owner

ASSUME OutboxAssumption ==
  /\ MaxAttempts \in Nat \ {0} /\ MaxPages \in Nat \ {0} /\ Every \in Nat \ {0}
  /\ MaxTroubles \in Nat /\ NoOwner \notin Collectors /\ IsFiniteSet(Ids)
  /\ Sitemaps \subseteq Seq(Ids)

VARIABLES file,      \* the entries of the state file
          copy, stage,
          toFetch, pages, \* of each collector: the pages to open, and how many it has opened
          owner, lost,
          usurped,   \* history: a live owner was taken over, and it or its heir still runs
          recorded,  \* postings the server has stored, or recorded as rejected
          clean,     \* history: the last run to end had nothing to complain of
          troubles
collectorVars == <<copy, stage, toFetch, pages>>
lease == <<owner, lost, usurped>>
outboxVars == <<file, collectorVars, lease, recorded, clean, troubles>>

Entry(state, fails) == [state |-> state, fails |-> fails]
Unknown == Entry("unknown", 0)
Blank   == [i \in Ids |-> Unknown]
Stages  == {"off", "discover", "fetch", "save", "post"}

OutboxInit ==
  /\ file = Blank /\ copy = [c \in Collectors |-> Blank]
  /\ stage = [c \in Collectors |-> "off"] /\ toFetch = [c \in Collectors |-> <<>>]
  /\ pages = [c \in Collectors |-> 0] /\ owner = NoOwner /\ lost = [c \in Collectors |-> FALSE]
  /\ usurped = FALSE /\ recorded = {} /\ clean = FALSE /\ troubles = 0

-----------------------------------------------------------------------------
(* The state file's rules *)

\* Mutation of NeedsPageFetch: what waits for its ingest is opened again.
NeedsPageFetchAgain(e) == e.state \in {"unknown", "retryable", "collected"}

NeedsPageFetch(e) == e.state \in {"unknown", "retryable"}

\* The outcomes classifyPageResult tells apart: a 2xx page with its JSON-LD, a 2xx
\* that lands on the bare listing, and everything else.
Outcomes == {"collected", "expired", "retryable"}

AfterPage(e, outcome) ==
  IF outcome # "retryable" THEN Entry(outcome, 0)
  ELSE Entry(IF e.fails + 1 >= MaxAttempts THEN "quarantined" ELSE "retryable", e.fails + 1)

Pending(entries) == {i \in Ids : entries[i].state = "collected"}

Ingested(entries, ids) ==
  [i \in Ids |-> IF i \in ids \cap Pending(entries) THEN Entry("ingested", 0) ELSE entries[i]]

-----------------------------------------------------------------------------
(* A run *)

Alive(c) == stage[c] # "off"
Stale    == owner # NoOwner /\ ~Alive(owner)
To(c, s) == stage' = [stage EXCEPT ![c] = s]

Acquire(c) ==
  /\ ~Alive(c)
  /\ \/ (owner = NoOwner \/ Stale) /\ UNCHANGED troubles
     \/ owner # NoOwner /\ Alive(owner) /\ troubles < MaxTroubles /\ troubles' = troubles + 1
  /\ owner' = c /\ lost' = [lost EXCEPT ![c] = FALSE]
  /\ usurped' = \E d \in Collectors : Alive(d)
  /\ copy' = [copy EXCEPT ![c] = file] /\ To(c, "discover")
  /\ UNCHANGED <<file, toFetch, pages, recorded, clean>>

\* Leaves through the finally: the lock goes if it is still this run's.
Leave(c, ok) ==
  /\ To(c, "off") /\ copy' = [copy EXCEPT ![c] = Blank] /\ toFetch' = [toFetch EXCEPT ![c] = <<>>]
  /\ pages' = [pages EXCEPT ![c] = 0] /\ lost' = [lost EXCEPT ![c] = FALSE]
  /\ owner' = (IF owner = c THEN NoOwner ELSE owner) /\ clean' = ok
  /\ UNCHANGED usurped

\* Of what the sitemap lists, the first that need a page load, as many as a run may open.
ToFetch(listed, entries) ==
  LET eligible == SelectSeq(listed, LAMBDA i : NeedsPageFetch(entries[i]))
  IN  SubSeq(eligible, 1, IF Len(eligible) <= MaxPages THEN Len(eligible) ELSE MaxPages)

\* With no page to open the run goes on to the post.  (One that leaves some out posts
\* even an empty batch, to say so.)
Discover(c) ==
  /\ stage[c] = "discover"
  /\ \E n \in 0..MaxPages : \E ids \in [1..n -> {i \in Ids : NeedsPageFetch(copy[c][i])}] :
        /\ \E listed \in Sitemaps : ids = ToFetch(listed, copy[c])
        /\ toFetch' = [toFetch EXCEPT ![c] = ids] /\ To(c, IF n = 0 THEN "post" ELSE "fetch")
  /\ UNCHANGED <<file, copy, pages, lease, recorded, clean, troubles>>

\* Mutation of AfterOutcome: only the flush after the last page.
CheckpointAtEnd(n) == "fetch"

\* What follows the n-th page: a checkpoint, or the next page.
AfterOutcome(n) == IF n % Every = 0 THEN "save" ELSE "fetch"

OpenPage(c) ==
  /\ stage[c] = "fetch" /\ ~lost[c] /\ pages[c] < Len(toFetch[c])
  /\ \E o \in Outcomes : LET i == toFetch[c][pages[c] + 1] IN
        copy' = [copy EXCEPT ![c] = [copy[c] EXCEPT ![i] = AfterPage(copy[c][i], o)]]
  /\ pages' = [pages EXCEPT ![c] = @ + 1] /\ To(c, AfterOutcome(pages[c] + 1))
  /\ UNCHANGED <<file, toFetch, lease, recorded, clean, troubles>>

Checkpoint(c) ==
  /\ stage[c] = "save" /\ ~lost[c]
  /\ file' = copy[c] /\ To(c, "fetch")
  /\ UNCHANGED <<copy, toFetch, pages, lease, recorded, clean, troubles>>

\* The last write of the pages; what was to be opened is of no more use.
Flush(c) ==
  /\ stage[c] = "fetch" /\ pages[c] = Len(toFetch[c]) /\ ~lost[c]
  /\ file' = copy[c] /\ To(c, "post")
  /\ toFetch' = [toFetch EXCEPT ![c] = <<>>] /\ pages' = [pages EXCEPT ![c] = 0]
  /\ UNCHANGED <<copy, lease, recorded, clean, troubles>>

\* nothing pending, nothing truncated
NothingToPost(c) == /\ stage[c] = "post" /\ Pending(copy[c]) = {} /\ Leave(c, TRUE)
                    /\ UNCHANGED <<file, recorded, troubles>>

Confirmed(c) ==
  /\ stage[c] = "post" /\ ~lost[c]
  /\ recorded' = recorded \cup Pending(copy[c])
  /\ file' = Ingested(copy[c], Pending(copy[c])) /\ Leave(c, TRUE)
  /\ UNCHANGED troubles

\* Refused (409, 413, 429, 5xx), never arrived, or the answer did not come back.
Unconfirmed(c) ==
  /\ stage[c] = "post" /\ ~lost[c] /\ Leave(c, FALSE)
  /\ recorded' \in {recorded, recorded \cup Pending(copy[c])}
  /\ UNCHANGED <<file, troubles>>

\* assertLockOwned, the sitemap or the browser threw
Abort(c) ==
  /\ Alive(c) /\ Leave(c, FALSE)
  /\ recorded' \in {recorded} \cup (IF stage[c] = "post" THEN {recorded \cup Pending(copy[c])} ELSE {})
  /\ UNCHANGED <<file, troubles>>

Heartbeat(c) == /\ Alive(c) /\ owner # c /\ lost' = [lost EXCEPT ![c] = TRUE]
                /\ UNCHANGED <<file, collectorVars, owner, usurped, recorded, clean, troubles>>

Crash(c) ==
  /\ Alive(c) /\ troubles < MaxTroubles /\ troubles' = troubles + 1
  /\ To(c, "off") /\ copy' = [copy EXCEPT ![c] = Blank] /\ toFetch' = [toFetch EXCEPT ![c] = <<>>]
  /\ pages' = [pages EXCEPT ![c] = 0] /\ lost' = [lost EXCEPT ![c] = FALSE] /\ clean' = FALSE
  /\ recorded' \in {recorded} \cup (IF stage[c] = "post" THEN {recorded \cup Pending(copy[c])} ELSE {})
  /\ UNCHANGED <<file, owner, usurped>>

\* requeue.ts, by hand: takes the lock, forgets quarantined entries, lets it go.
Requeue == \E ids \in SUBSET {i \in Ids : file[i].state = "quarantined"} :
  /\ owner = NoOwner \/ Stale
  /\ file' = [i \in Ids |-> IF i \in ids THEN Unknown ELSE file[i]]
  /\ owner' = NoOwner /\ UNCHANGED <<collectorVars, lost, usurped, recorded, clean, troubles>>

OutboxNext ==
  \/ Requeue
  \/ \E c \in Collectors :
       \/ Acquire(c) \/ Discover(c) \/ OpenPage(c) \/ Checkpoint(c) \/ Flush(c) \/ NothingToPost(c)
       \/ Confirmed(c) \/ Unconfirmed(c) \/ Abort(c) \/ Heartbeat(c) \/ Crash(c)

OutboxSpec == OutboxInit /\ [][OutboxNext]_outboxVars

-----------------------------------------------------------------------------
(* Properties *)

\* What c has opened so far, and what of it more than once: in the sitemap's order a
\* posting listed twice is loaded twice, and its second outcome replaces the first.
Opened(c)      == {toFetch[c][k] : k \in 1..pages[c]}
OpenedAgain(c) == {i \in Ids : \E k, l \in 1..pages[c] : k < l /\ toFetch[c][k] = i /\ toFetch[c][l] = i}

\* A posting is quarantined once its budget of retries is spent; only when the sitemap
\* lists it several times does a run go on counting.
OutboxTypeOK ==
  /\ file \in [Ids -> [state : {"unknown", "ingested", "quarantined"} \cup Outcomes,
                       fails : 0..(MaxAttempts + MaxPages - 1)]]
  /\ \A i \in Ids : (file[i].state = "quarantined") <=> (file[i].fails >= MaxAttempts)
  /\ DOMAIN copy = Collectors /\ stage \in [Collectors -> Stages]
  /\ toFetch \in [Collectors -> Seq(Ids)] /\ pages \in [Collectors -> 0..MaxPages]
  /\ owner \in Collectors \cup {NoOwner} /\ lost \in [Collectors -> BOOLEAN]
  /\ usurped \in BOOLEAN /\ recorded \subseteq Ids /\ clean \in BOOLEAN /\ troubles \in 0..MaxTroubles

\* Nothing is done with before it has arrived: an entry says ingested only of a posting
\* the server has stored or recorded as rejected, with answers lost, batches refused,
\* crashes at any point and two collectors that both believe they own the file.
IngestedIsRecorded == \A i \in Ids : file[i].state = "ingested" => i \in recorded

\* A payload on disk stays there until it has arrived: no other end of a run, and no
\* crash, removes it, as long as no collector outlives its lock.  The one exception is
\* the second outcome of a posting that the sitemap lists twice.
PayloadKept ==
  [][~usurped => \A i \in Pending(file) :
        i \in Pending(file') \/ i \in recorded' \/ \E c \in Collectors : i \in OpenedAgain(c)]_outboxVars

\* No page is opened again whose fate the file knows, also after crashes, and none
\* more often than the retry budget allows; but for one this very run has opened.
NoPageTwice ==
  \A c \in Collectors : \A k \in pages[c] + 1..Len(toFetch[c]) :
    LET i == toFetch[c][k] IN
    i \in Opened(c) \/ (file[i].state \in {"unknown", "retryable"} /\ file[i].fails < MaxAttempts)

\* A crash loses the outcome of fewer pages than a checkpoint interval, or of as many
\* when it comes between the outcome of a page and the checkpoint due after it.
LossIsBounded ==
  \A c \in Collectors : owner = c /\ Alive(c) =>
    LET loss == Cardinality({i \in Ids : copy[c][i] # file[i]})
    IN  loss < Every \/ (stage[c] = "save" /\ loss = Every)

\* The checkpoint bounds the work a crash costs, in pages lost and pages opened again,
\* as long as no collector outlives its lock.
CrashCostsLittle == ~usurped => NoPageTwice /\ LossIsBounded

\* A run that ends without an error leaves nothing behind: while none is at work,
\* everything it or an earlier run had queued has arrived.
CleanRunDrains == clean /\ ~usurped /\ (\A c \in Collectors : ~Alive(c)) => Pending(file) \subseteq recorded

\* Until it has arrived a payload is kept, and after that, and not before, it is done;
\* and a run that ends well has seen all of them arrive.
OutboxKeeps == [](IngestedIsRecorded /\ CleanRunDrains) /\ PayloadKept
=============================================================================
