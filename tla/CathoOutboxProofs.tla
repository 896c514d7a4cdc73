------------------------- MODULE CathoOutboxProofs -------------------------
(***************************************************************************)
(* Facts of the Catho collector's state file, for any sitemap, also one    *)
(* that lists a posting twice, any number of collectors, any budget of     *)
(* pages, retries and checkpoints: nothing is done with before it has      *)
(* arrived, a payload is kept until then, and a crash costs at most the    *)
(* pages of a checkpoint interval.                                         *)
(***************************************************************************)
EXTENDS CathoOutbox, Integers, FiniteSetTheorems, TLAPS

-----------------------------------------------------------------------------
(* The inductive invariant.                                                *)

States  == {"unknown", "ingested", "quarantined"} \cup Outcomes
Entries == [state : States, fails : Nat]

(* An entry is quarantined exactly when it has spent its attempts; what a  *)
(* run adds to them after that is bounded by the pages it opens.           *)
Fit(e) == /\ e \in Entries /\ (e.state = "quarantined" <=> e.fails >= MaxAttempts)
          /\ e.fails < MaxAttempts + MaxPages

Copies ==
    /\ file \in [Ids -> Entries] /\ \A i \in Ids : Fit(file[i])
    /\ copy \in [Collectors -> [Ids -> Entries]]
    /\ \A c \in Collectors : \A i \in Ids : Fit(copy[c][i])

Flags ==
    /\ stage \in [Collectors -> Stages]
    /\ owner \in Collectors \cup {NoOwner} /\ lost \in [Collectors -> BOOLEAN]
    /\ usurped \in BOOLEAN /\ recorded \subseteq Ids /\ clean \in BOOLEAN /\ troubles \in 0..MaxTroubles

(* Pages are opened only between the sitemap and the flush, no more than   *)
(* the budget, and what is still to be opened needs it or was opened by    *)
(* this run before.                                                        *)
Paging(c) ==
    /\ pages[c] <= Len(toFetch[c]) /\ Len(toFetch[c]) <= MaxPages
    /\ stage[c] \notin {"fetch", "save"} => toFetch[c] = <<>>
    /\ \A k \in pages[c] + 1..Len(toFetch[c]) :
          toFetch[c][k] \in Opened(c) \/ NeedsPageFetch(copy[c][toFetch[c][k]])
    /\ \A i \in Opened(c) : copy[c][i].fails < MaxAttempts + pages[c]

Budget ==
    /\ toFetch \in [Collectors -> Seq(Ids)] /\ pages \in [Collectors -> Nat]
    /\ \A c \in Collectors : Paging(c)

(* What a file or a copy says is ingested has arrived.                     *)
Truthful ==
    /\ IngestedIsRecorded
    /\ \A c \in Collectors : \A i \in Ids : copy[c][i].state = "ingested" => i \in recorded

Alone == ~usurped => \A c \in Collectors : Alive(c) => owner = c

Differ(c) == {i \in Ids : copy[c][i] # file[i]}

(* How far a collector's copy may be from the file.                        *)
Near(c) == /\ Pending(file) \ Pending(copy[c]) \subseteq OpenedAgain(c)
           /\ Differ(c) \subseteq Opened(c)
           /\ Cardinality(Differ(c)) <= (IF stage[c] = "save" THEN Every ELSE pages[c] % Every)

Close == ~usurped => \A c \in Collectors : Alive(c) => Near(c)

Inv == Copies /\ Flags /\ Budget /\ Truthful /\ Alone /\ Close /\ CleanRunDrains

-----------------------------------------------------------------------------
(* Counting pages.                                                         *)

LEMMA Division ==
    ASSUME NEW n \in Nat, NEW e \in Nat \ {0}
    PROVE  \E q \in Nat, r \in 0..e - 1 : n = e * q + r /\ r = n % e
  <1> DEFINE q == n \div e
             r == n % e
  <1>1. r = n - e * q /\ q \in Nat
    OBVIOUS
  <1>2. r \in 0..e - 1
    OBVIOUS
  <1> HIDE DEF q, r
  <1>3. n = e * q + r
    BY <1>1, <1>2
  <1> QED
    BY <1>1, <1>2, <1>3 DEF r

LEMMA Remainder ==
    ASSUME NEW n \in Nat, NEW e \in Nat \ {0}, NEW q \in Nat, NEW r \in 0..e - 1, n = e * q + r
    PROVE  n % e = r
  OBVIOUS

LEMMA OnePageMore ==
    ASSUME NEW n \in Nat, NEW e \in Nat \ {0}
    PROVE  (n + 1) % e = 0 \/ (n + 1) % e = (n % e) + 1
  <1>1. PICK q \in Nat, r \in 0..e - 1 : n = e * q + r /\ r = n % e
    BY Division
  <1>2. CASE r + 1 < e
    <2>1. n + 1 = e * q + (r + 1) /\ r + 1 \in 0..e - 1 /\ n + 1 \in Nat
      BY <1>1, <1>2
    <2>2. (n + 1) % e = r + 1
      BY <2>1, Remainder
    <2> QED
      BY <1>1, <2>2
  <1>3. CASE r + 1 = e
    <2>1. n + 1 = e * (q + 1) + 0 /\ 0 \in 0..e - 1 /\ q + 1 \in Nat /\ n + 1 \in Nat
      BY <1>1, <1>3
    <2>2. (n + 1) % e = 0
      BY <2>1, Remainder
    <2> QED
      BY <2>2
  <1> QED
    BY <1>1, <1>2, <1>3

LEMMA BelowTheInterval ==
    ASSUME NEW n \in Nat
    PROVE  n % Every \in Nat /\ n % Every < Every
  BY OutboxAssumption

LEMMA SubsetsFinite ==
    ASSUME NEW S \in SUBSET Ids
    PROVE  IsFiniteSet(S) /\ Cardinality(S) \in Nat
  BY OutboxAssumption, FS_Subset, FS_CardinalityType

-----------------------------------------------------------------------------
(* The pages of a run.                                                     *)

LEMMA OpenedTyped ==
    ASSUME Budget, NEW c \in Collectors
    PROVE  /\ toFetch[c] \in Seq(Ids) /\ pages[c] \in 0..MaxPages /\ Len(toFetch[c]) \in 0..MaxPages
           /\ Opened(c) \subseteq Ids /\ OpenedAgain(c) \subseteq Opened(c)
           /\ \A k \in 1..Len(toFetch[c]) : toFetch[c][k] \in Ids
  <1>1. toFetch[c] \in Seq(Ids) /\ pages[c] \in Nat /\ Len(toFetch[c]) \in Nat /\ MaxPages \in Nat
    BY OutboxAssumption DEF Budget
  <1>2. pages[c] <= Len(toFetch[c]) /\ Len(toFetch[c]) <= MaxPages
    BY DEF Budget, Paging
  <1>3. \A k \in 1..Len(toFetch[c]) : toFetch[c][k] \in Ids
    BY <1>1
  <1>4. 1..pages[c] \subseteq 1..Len(toFetch[c])
    BY <1>1, <1>2
  <1>5. Opened(c) \subseteq Ids /\ OpenedAgain(c) \subseteq Opened(c)
    BY <1>3, <1>4 DEF Opened, OpenedAgain
  <1> QED
    BY <1>1, <1>2, <1>3, <1>5

LEMMA NoneOpened ==
    ASSUME NEW c, pages[c] = 0
    PROVE  Opened(c) = {} /\ OpenedAgain(c) = {}
  BY DEF Opened, OpenedAgain

(* A run that opens no pages.                                              *)
LEMMA NoPages ==
    ASSUME Budget, NEW c \in Collectors, stage[c] \notin {"fetch", "save"}
    PROVE  toFetch[c] = <<>> /\ pages[c] = 0 /\ Opened(c) = {} /\ OpenedAgain(c) = {}
  <1>1. toFetch[c] = <<>> /\ pages[c] \in Nat /\ pages[c] <= Len(toFetch[c])
    BY DEF Budget, Paging
  <1>2. pages[c] = 0
    BY <1>1
  <1> QED
    BY <1>1, <1>2, NoneOpened

(* What a collector is to open stays right when its pages do and what it   *)
(* knows of them, or when it has none to open.                             *)
LEMMA PagingStays ==
    ASSUME Budget, NEW c \in Collectors, Paging(c),
           toFetch'[c] = toFetch[c], pages'[c] = pages[c],
           copy'[c] = copy[c] \/ toFetch[c] = <<>>,
           stage'[c] \notin {"fetch", "save"} => toFetch[c] = <<>>
    PROVE  Paging(c)'
  <1>1. Opened(c)' = Opened(c)
    BY DEF Opened
  <1>2. CASE copy'[c] = copy[c]
    BY <1>1, <1>2 DEF Paging, NeedsPageFetch
  <1>3. CASE toFetch[c] = <<>>
    <2>1. pages[c] = 0 /\ Len(toFetch[c]) = 0
      BY <1>3 DEF Budget, Paging
    <2>2. Opened(c)' = {}
      BY <1>1, <2>1, NoneOpened
    <2> QED
      BY <1>3, <2>1, <2>2 DEF Paging
  <1> QED
    BY <1>2, <1>3

LEMMA PagingEnds ==
    ASSUME NEW c \in Collectors, toFetch'[c] = <<>>, pages'[c] = 0
    PROVE  Paging(c)'
  <1>1. Opened(c)' = {}
    BY DEF Opened
  <1>2. Len(toFetch'[c]) = 0 /\ MaxPages \in Nat
    BY OutboxAssumption
  <1> QED
    BY <1>1, <1>2 DEF Paging

-----------------------------------------------------------------------------
(* The rules of the state file.                                            *)

LEMMA BlankFits == Blank \in [Ids -> Entries] /\ \A i \in Ids : Fit(Blank[i]) /\ Blank[i].state = "unknown"
  <1>1. Unknown \in Entries /\ Fit(Unknown) /\ Unknown.state = "unknown"
    BY OutboxAssumption DEF Unknown, Entry, Entries, States, Fit
  <1> QED
    BY <1>1 DEF Blank

(* An outcome adds at most one to the attempts an entry has spent.         *)
LEMMA PageFits ==
    ASSUME NEW e, Fit(e), NEW o \in Outcomes, NEW n \in 0..MaxPages - 1, e.fails < MaxAttempts + n
    PROVE  /\ Fit(AfterPage(e, o)) /\ AfterPage(e, o).state # "ingested"
           /\ AfterPage(e, o).fails < MaxAttempts + n + 1
  <1>1. e.fails \in Nat /\ MaxAttempts \in Nat \ {0} /\ MaxPages \in Nat \ {0}
    BY OutboxAssumption DEF Fit, Entries
  <1>2. CASE o # "retryable"
    <2>1. AfterPage(e, o) = Entry(o, 0)
      BY <1>2 DEF AfterPage
    <2> QED
      BY <1>1, <1>2, <2>1 DEF Fit, Entries, States, Outcomes, Entry
  <1>3. CASE o = "retryable"
    <2> DEFINE q == IF e.fails + 1 >= MaxAttempts THEN "quarantined" ELSE "retryable"
    <2>1. AfterPage(e, o) = [state |-> q, fails |-> e.fails + 1]
      BY <1>3 DEF AfterPage, Entry
    <2>2. e.fails + 1 \in Nat /\ e.fails + 1 < MaxAttempts + n + 1 /\ e.fails + 1 < MaxAttempts + MaxPages
      BY <1>1
    <2>3. q \in States /\ q # "ingested" /\ (q = "quarantined" <=> e.fails + 1 >= MaxAttempts)
      BY DEF States, Outcomes
    <2> HIDE DEF q
    <2> QED
      BY <2>1, <2>2, <2>3 DEF Fit, Entries
  <1> QED
    BY <1>2, <1>3

LEMMA IngestedFits ==
    ASSUME NEW f \in [Ids -> Entries], \A i \in Ids : Fit(f[i])
    PROVE  /\ Ingested(f, Pending(f)) \in [Ids -> Entries]
           /\ \A i \in Ids : Fit(Ingested(f, Pending(f))[i])
           /\ Pending(Ingested(f, Pending(f))) = {}
           /\ \A i \in Ids : Ingested(f, Pending(f))[i].state = "ingested" =>
                 i \in Pending(f) \/ f[i].state = "ingested"
  <1>1. Entry("ingested", 0) \in Entries /\ Fit(Entry("ingested", 0)) /\ Entry("ingested", 0).state = "ingested"
    BY OutboxAssumption DEF Entry, Entries, States, Fit
  <1> DEFINE g == Ingested(f, Pending(f))
  <1>2. \A i \in Ids : g[i] = IF i \in Pending(f) THEN Entry("ingested", 0) ELSE f[i]
    BY DEF Ingested
  <1>3. g \in [Ids -> Entries]
    BY <1>1 DEF Ingested
  <1>4. \A i \in Ids : g[i].state # "collected"
    BY <1>1, <1>2 DEF Pending
  <1> HIDE DEF g
  <1>5. Pending(g) = {}
    BY <1>4 DEF Pending
  <1> QED
    BY <1>1, <1>2, <1>3, <1>5 DEF g

-----------------------------------------------------------------------------
(* How a run ends.                                                         *)

Ends(c) == NothingToPost(c) \/ Confirmed(c) \/ Unconfirmed(c) \/ Abort(c) \/ Crash(c)

LEMMA Ended ==
    ASSUME Inv, NEW c \in Collectors, Ends(c)
    PROVE  /\ Alive(c) /\ stage' = [stage EXCEPT ![c] = "off"] /\ copy' = [copy EXCEPT ![c] = Blank]
           /\ toFetch' = [toFetch EXCEPT ![c] = <<>>] /\ pages' = [pages EXCEPT ![c] = 0]
           /\ lost' = [lost EXCEPT ![c] = FALSE] /\ usurped' = usurped
           /\ owner' \in {owner, NoOwner} /\ recorded \subseteq recorded'
           /\ recorded' \subseteq Ids
           /\ troubles' \in 0..MaxTroubles /\ clean' \in BOOLEAN
           /\ \/ file' = file /\ (clean' = TRUE => stage[c] = "post" /\ Pending(copy[c]) = {})
              \/ /\ file' = Ingested(copy[c], Pending(copy[c]))
                 /\ Pending(copy[c]) \subseteq recorded'
  <1>0. Pending(copy[c]) \subseteq Ids /\ recorded \subseteq Ids /\ troubles \in 0..MaxTroubles
    BY DEF Pending, Inv, Flags
  <1>1. CASE NothingToPost(c)
    <2>1. clean' = TRUE
      BY <1>1, Zenon DEF NothingToPost, Leave
    <2> QED
      BY <1>0, <1>1, <2>1 DEF NothingToPost, Leave, To, Alive
  <1>2. CASE Confirmed(c)
    <2>1. clean' = TRUE
      BY <1>2, Zenon DEF Confirmed, Leave
    <2> QED
      BY <1>0, <1>2, <2>1 DEF Confirmed, Leave, To, Alive
  <1>3. CASE Unconfirmed(c)
    <2>1. clean' = FALSE
      BY <1>3, Zenon DEF Unconfirmed, Leave
    <2> QED
      BY <1>0, <1>3, <2>1 DEF Unconfirmed, Leave, To, Alive
  <1>4. CASE Abort(c)
    <2>1. clean' = FALSE
      BY <1>4, Zenon DEF Abort, Leave
    <2> QED
      BY <1>0, <1>4, <2>1 DEF Abort, Leave, To, Alive
  <1>5. CASE Crash(c)
    <2>1. clean' = FALSE
      BY <1>5, Zenon DEF Crash
    <2>2. troubles' \in 0..MaxTroubles
      BY <1>0, <1>5, OutboxAssumption DEF Crash
    <2> QED
      BY <1>0, <1>5, <2>1, <2>2 DEF Crash, To, Alive
  <1> QED
    BY <1>1, <1>2, <1>3, <1>4, <1>5 DEF Ends
-----------------------------------------------------------------------------
(* The actions.                                                            *)

(* Others are not at work while a collector that no one has usurped is.    *)
LEMMA OnlyOne ==
    ASSUME Inv, ~usurped, NEW c \in Collectors, Alive(c)
    PROVE  owner = c /\ \A d \in Collectors \ {c} : ~Alive(d)
  BY DEF Inv, Alone

LEMMA Ending ==
    ASSUME Inv, NEW c \in Collectors, Ends(c)
    PROVE  Inv'
  <1>1. /\ Alive(c) /\ stage' = [stage EXCEPT ![c] = "off"] /\ copy' = [copy EXCEPT ![c] = Blank]
        /\ toFetch' = [toFetch EXCEPT ![c] = <<>>] /\ pages' = [pages EXCEPT ![c] = 0]
        /\ lost' = [lost EXCEPT ![c] = FALSE] /\ usurped' = usurped
        /\ owner' \in {owner, NoOwner} /\ recorded \subseteq recorded'
        /\ recorded' \subseteq Ids
        /\ troubles' \in 0..MaxTroubles /\ clean' \in BOOLEAN
        /\ \/ file' = file /\ (clean' = TRUE => stage[c] = "post" /\ Pending(copy[c]) = {})
           \/ /\ file' = Ingested(copy[c], Pending(copy[c]))
              /\ Pending(copy[c]) \subseteq recorded'
    BY Ended
  <1>2. /\ copy[c] \in [Ids -> Entries] /\ (\A i \in Ids : Fit(copy[c][i]))
        /\ stage'[c] = "off" /\ copy'[c] = Blank /\ toFetch'[c] = <<>> /\ pages'[c] = 0
        /\ \A d \in Collectors \ {c} : /\ stage'[d] = stage[d] /\ copy'[d] = copy[d]
                                       /\ toFetch'[d] = toFetch[d] /\ pages'[d] = pages[d]
    BY <1>1 DEF Inv, Copies, Flags, Budget
  <1>3. Copies'
    <2>1. copy' \in [Collectors -> [Ids -> Entries]] /\ \A d \in Collectors : \A i \in Ids : Fit(copy'[d][i])
      BY <1>1, <1>2, BlankFits DEF Inv, Copies
    <2>2. file' \in [Ids -> Entries] /\ \A i \in Ids : Fit(file'[i])
      <3>1. CASE file' = file
        BY <3>1 DEF Inv, Copies
      <3>2. CASE file' = Ingested(copy[c], Pending(copy[c]))
        BY <1>2, <3>2, IngestedFits
      <3> QED BY <1>1, <3>1, <3>2
    <2> QED
      BY <2>1, <2>2 DEF Copies, Fit
  <1>4. Flags'
    BY <1>1 DEF Inv, Flags, Stages
  <1>5. Budget'
    <2>1. toFetch' \in [Collectors -> Seq(Ids)] /\ pages' \in [Collectors -> Nat]
      BY <1>1 DEF Inv, Budget
    <2>2. ASSUME NEW d \in Collectors PROVE Paging(d)'
      <3>1. CASE d = c
        BY <1>2, <3>1, PagingEnds
      <3>2. CASE d # c
        BY <1>2, <3>2, PagingStays DEF Inv, Budget, Paging
      <3> QED BY <3>1, <3>2
    <2> QED
      BY <2>1, <2>2 DEF Budget
  <1>6. Truthful'
    <2>1. \A d \in Collectors : \A i \in Ids : copy'[d][i].state = "ingested" => i \in recorded'
      BY <1>1, <1>2, BlankFits DEF Inv, Truthful
    <2>2. \A i \in Ids : file'[i].state = "ingested" => i \in recorded'
      <3>1. CASE file' = file
        BY <1>1, <3>1 DEF Inv, Truthful, IngestedIsRecorded
      <3>2. CASE file' = Ingested(copy[c], Pending(copy[c])) /\ Pending(copy[c]) \subseteq recorded'
        BY <1>1, <1>2, <3>2, IngestedFits DEF Inv, Truthful
      <3> QED BY <1>1, <3>1, <3>2
    <2> QED
      BY <2>1, <2>2 DEF Truthful, IngestedIsRecorded
  <1>7. ~usurped => \A d \in Collectors : stage'[d] = "off"
    BY <1>1, <1>2, OnlyOne DEF Alive
  <1>8. Alone' /\ Close'
    BY <1>1, <1>7 DEF Alone, Close, Alive
  <1>9. CleanRunDrains'
    <2> SUFFICES ASSUME clean' = TRUE, ~usurped PROVE Pending(file)' \subseteq recorded'
      BY <1>1, Zenon DEF CleanRunDrains
    <2>1. CASE file' = file /\ stage[c] = "post" /\ Pending(copy[c]) = {}
      <3>1. Pending(file) \ Pending(copy[c]) \subseteq OpenedAgain(c)
        BY <1>1 DEF Inv, Close, Near
      <3>2. OpenedAgain(c) = {}
        BY <2>1, NoPages DEF Inv
      <3>3. Pending(file)' = Pending(file)
        BY <2>1 DEF Pending
      <3> QED
        BY <2>1, <3>1, <3>2, <3>3
    <2>2. CASE file' = Ingested(copy[c], Pending(copy[c]))
      BY <1>2, <2>2, IngestedFits DEF Pending
    <2> QED BY <1>1, <2>1, <2>2
  <1> QED
    BY <1>3, <1>4, <1>5, <1>6, <1>8, <1>9 DEF Inv

LEMMA Acquiring ==
    ASSUME Inv, NEW c \in Collectors, Acquire(c)
    PROVE  Inv'
  <1>1. /\ stage[c] = "off" /\ stage' = [stage EXCEPT ![c] = "discover"]
        /\ copy' = [copy EXCEPT ![c] = file] /\ owner' = c
        /\ lost' = [lost EXCEPT ![c] = FALSE] /\ usurped' = (\E d \in Collectors : Alive(d))
        /\ file' = file /\ toFetch' = toFetch /\ pages' = pages /\ recorded' = recorded /\ clean' = clean
        /\ troubles' = troubles \/ (troubles < MaxTroubles /\ troubles' = troubles + 1)
    BY DEF Acquire, Alive, To
  <1>2. /\ stage'[c] = "discover" /\ copy'[c] = file /\ toFetch'[c] = <<>> /\ pages'[c] = 0
        /\ \A d \in Collectors \ {c} : stage'[d] = stage[d] /\ copy'[d] = copy[d]
    BY <1>1, NoPages DEF Inv, Copies, Flags, Budget
  <1>3. Copies'
    BY <1>1, <1>2 DEF Inv, Copies, Fit
  <1>4. Flags'
    <2>1. troubles' \in 0..MaxTroubles
      BY <1>1, OutboxAssumption DEF Inv, Flags
    <2>2. usurped' \in BOOLEAN
      BY <1>1, Zenon
    <2> QED
      BY <1>1, <2>1, <2>2 DEF Inv, Flags, Stages
  <1>5. Budget'
    <2>1. ASSUME NEW d \in Collectors PROVE Paging(d)'
      BY <1>1, <1>2, PagingStays DEF Inv, Budget, Paging
    <2> QED
      BY <1>1, <2>1 DEF Inv, Budget
  <1>6. Truthful'
    BY <1>1, <1>2 DEF Inv, Truthful, IngestedIsRecorded
  <1>7. ASSUME ~usurped', NEW d \in Collectors, Alive(d)' PROVE d = c
    BY <1>1, <1>2, <1>7 DEF Alive
  <1>8. Alone'
    BY <1>1, <1>7 DEF Alone
  <1>9. Close'
    <2>1. Differ(c)' = {}
      BY <1>1, <1>2 DEF Differ
    <2>2. Cardinality(Differ(c)') <= 0 % Every
      BY <2>1, FS_EmptySet, BelowTheInterval
    <2>3. Near(c)'
      BY <1>1, <1>2, <2>1, <2>2 DEF Near, Pending
    <2> QED
      BY <1>7, <2>3 DEF Close
  <1>10. CleanRunDrains'
    BY <1>1, <1>2 DEF CleanRunDrains, Alive
  <1> QED
    BY <1>3, <1>4, <1>5, <1>6, <1>8, <1>9, <1>10 DEF Inv

(* A step of one collector that leaves its copy alone, and may save it.    *)
LEMMA MovingOn ==
    ASSUME Inv, NEW c \in Collectors, Alive(c), NEW s \in Stages \ {"off"},
           stage' = [stage EXCEPT ![c] = s], UNCHANGED <<copy, lease, clean, recorded, troubles>>,
           file' \in {file, copy[c]},
           NEW ids \in Seq(Ids), toFetch' = [toFetch EXCEPT ![c] = ids],
           NEW n \in Nat, pages' = [pages EXCEPT ![c] = n],
           Paging(c)', ~usurped => Near(c)'
    PROVE  Inv'
  <1>1. /\ copy' = copy /\ clean' = clean /\ recorded' = recorded
        /\ owner' = owner /\ lost' = lost /\ usurped' = usurped /\ troubles' = troubles
    BY DEF lease
  <1>2. stage'[c] = s /\ \A d \in Collectors \ {c} : stage'[d] = stage[d] /\ toFetch'[d] = toFetch[d]
                                                        /\ pages'[d] = pages[d]
    BY DEF Inv, Flags, Budget
  <1>3. Copies' /\ Flags' /\ Truthful'
    <2>1. Copies' /\ Truthful'
      BY <1>1 DEF Inv, Copies, Fit, Truthful, IngestedIsRecorded
    <2>2. Flags'
      BY <1>1 DEF Inv, Flags
    <2> QED
      BY <2>1, <2>2
  <1>4. Budget'
    <2>1. toFetch' \in [Collectors -> Seq(Ids)] /\ pages' \in [Collectors -> Nat]
      BY DEF Inv, Budget
    <2>2. ASSUME NEW d \in Collectors \ {c} PROVE Paging(d)'
      BY <1>1, <1>2, PagingStays DEF Inv, Budget, Paging
    <2> QED
      BY <2>1, <2>2 DEF Budget
  <1>5. \A d \in Collectors : Alive(d)' <=> Alive(d)
    BY <1>2 DEF Alive
  <1>6. Alone' /\ CleanRunDrains'
    BY <1>1, <1>5 DEF Inv, Alone, CleanRunDrains
  <1>7. Close'
    BY <1>1, <1>5, OnlyOne DEF Close
  <1> QED
    BY <1>3, <1>4, <1>6, <1>7 DEF Inv

(* Before any page is opened the copy is the file.                         *)
LEMMA Fresh ==
    ASSUME Inv, ~usurped, NEW c \in Collectors, Alive(c), pages[c] = 0, stage[c] # "save"
    PROVE  copy[c] = file
  <1>1. Differ(c) \subseteq Opened(c) /\ Opened(c) = {}
    BY NoneOpened DEF Inv, Close, Near
  <1>2. \A i \in Ids : copy[c][i] = file[i]
    BY <1>1 DEF Differ
  <1> QED
    BY <1>2 DEF Inv, Copies

(* A collector whose copy is on disk is as near as can be.                 *)
LEMMA Saved ==
    ASSUME NEW c \in Collectors, file' = copy'[c], pages'[c] \in Nat
    PROVE  Near(c)'
  <1>1. Differ(c)' = {}
    BY DEF Differ
  <1>2. Cardinality(Differ(c)') = 0
    BY <1>1, FS_EmptySet
  <1>3. 0 <= Every /\ 0 <= pages'[c] % Every
    BY BelowTheInterval, OutboxAssumption
  <1> QED
    BY <1>1, <1>2, <1>3 DEF Near, Pending

LEMMA Discovering ==
    ASSUME Inv, NEW c \in Collectors, Discover(c)
    PROVE  Inv'
  <1>1. PICK n \in 0..MaxPages :
          \E ids \in [1..n -> {i \in Ids : NeedsPageFetch(copy[c][i])}] :
             toFetch' = [toFetch EXCEPT ![c] = ids] /\ To(c, IF n = 0 THEN "post" ELSE "fetch")
    BY Zenon DEF Discover
  <1>2. PICK ids \in [1..n -> {i \in Ids : NeedsPageFetch(copy[c][i])}] :
             toFetch' = [toFetch EXCEPT ![c] = ids] /\ To(c, IF n = 0 THEN "post" ELSE "fetch")
    BY <1>1
  <1> DEFINE s == IF n = 0 THEN "post" ELSE "fetch"
  <1>3. /\ stage[c] = "discover" /\ pages[c] = 0 /\ Alive(c) /\ n \in Nat /\ n <= MaxPages
        /\ file' = file /\ pages' = pages /\ UNCHANGED <<copy, lease, clean, recorded, troubles>>
        /\ stage' = [stage EXCEPT ![c] = s] /\ s \in Stages \ {"off"}
    <2>1. /\ stage[c] = "discover" /\ file' = file /\ pages' = pages
          /\ UNCHANGED <<copy, lease, clean, recorded, troubles>>
      BY DEF Discover
    <2>2. pages[c] = 0 /\ Alive(c) /\ n \in Nat /\ n <= MaxPages
      BY <2>1, NoPages, OutboxAssumption DEF Inv, Alive
    <2>3. stage' = [stage EXCEPT ![c] = s] /\ s \in Stages \ {"off"}
      BY <1>2 DEF To, Stages
    <2> QED
      BY <2>1, <2>2, <2>3
  <1> HIDE DEF s
  <1>4. ids \in Seq(Ids) /\ Len(ids) = n /\ \A k \in 1..n : NeedsPageFetch(copy[c][ids[k]])
    BY <1>3
  <1>5. toFetch'[c] = ids /\ pages'[c] = 0 /\ copy'[c] = copy[c] /\ stage'[c] = s
    BY <1>2, <1>3 DEF Inv, Budget, Flags
  <1>6. Opened(c)' = {} /\ OpenedAgain(c)' = {}
    BY <1>5 DEF Opened, OpenedAgain
  <1>7. Paging(c)'
    <2>1. s \notin {"fetch", "save"} => ids = <<>>
      BY <1>4 DEF s
    <2> QED
      BY <1>3, <1>4, <1>5, <1>6, <2>1 DEF Paging, NeedsPageFetch
  <1>8. ~usurped => Near(c)'
    BY <1>3, <1>5, Fresh, Saved
  <1>9. pages' = [pages EXCEPT ![c] = 0]
    BY <1>3 DEF Inv, Budget
  <1> QED
    BY <1>2, <1>3, <1>4, <1>7, <1>8, <1>9, MovingOn

LEMMA Saving ==
    ASSUME Inv, NEW c \in Collectors, Checkpoint(c)
    PROVE  Inv'
  <1>1. /\ stage[c] = "save" /\ Alive(c) /\ file' = copy[c] /\ copy' = copy
        /\ stage' = [stage EXCEPT ![c] = "fetch"] /\ toFetch' = toFetch /\ pages' = pages
        /\ UNCHANGED <<copy, lease, clean, recorded, troubles>>
    BY DEF Checkpoint, To, Alive
  <1>2. /\ toFetch' = [toFetch EXCEPT ![c] = toFetch[c]] /\ pages' = [pages EXCEPT ![c] = pages[c]]
        /\ toFetch[c] \in Seq(Ids) /\ pages[c] \in Nat /\ stage'[c] = "fetch"
        /\ "fetch" \in Stages \ {"off"}
    BY <1>1 DEF Inv, Budget, Flags, Stages
  <1>3. Paging(c)'
    BY <1>1, <1>2, PagingStays DEF Inv, Budget
  <1>4. Near(c)'
    BY <1>1, <1>2, Saved
  <1> QED
    BY <1>1, <1>2, <1>3, <1>4, MovingOn

LEMMA Flushing ==
    ASSUME Inv, NEW c \in Collectors, Flush(c)
    PROVE  Inv'
  <1>1. /\ stage[c] = "fetch" /\ Alive(c) /\ file' = copy[c] /\ copy' = copy
        /\ stage' = [stage EXCEPT ![c] = "post"]
        /\ toFetch' = [toFetch EXCEPT ![c] = <<>>] /\ pages' = [pages EXCEPT ![c] = 0]
        /\ UNCHANGED <<copy, lease, clean, recorded, troubles>>
    BY DEF Flush, To, Alive
  <1>2. /\ toFetch'[c] = <<>> /\ pages'[c] = 0 /\ <<>> \in Seq(Ids) /\ 0 \in Nat
        /\ "post" \in Stages \ {"off"}
    BY <1>1 DEF Inv, Budget, Stages
  <1>3. Paging(c)' /\ Near(c)'
    BY <1>1, <1>2, PagingEnds, Saved
  <1> QED
    BY <1>1, <1>2, <1>3, MovingOn

(* An opened page changes the copy alone: one page more is not on disk,    *)
(* and a payload that it replaces is of a posting opened before.           *)
LEMMA Opening ==
    ASSUME Inv, NEW c \in Collectors, OpenPage(c)
    PROVE  Inv'
  <1> DEFINE i == toFetch[c][pages[c] + 1]
             new(o) == [copy[c] EXCEPT ![i] = AfterPage(copy[c][i], o)]
             n == pages[c] + 1
  <1>1. PICK o \in Outcomes : copy' = [copy EXCEPT ![c] = new(o)]
    BY Zenon DEF OpenPage
  <1> DEFINE entries == new(o)
  <1>2. /\ stage[c] = "fetch" /\ Alive(c) /\ pages[c] < Len(toFetch[c])
        /\ pages' = [pages EXCEPT ![c] = @ + 1] /\ stage' = [stage EXCEPT ![c] = AfterOutcome(n)]
        /\ file' = file /\ toFetch' = toFetch
        /\ owner' = owner /\ lost' = lost /\ usurped' = usurped
        /\ recorded' = recorded /\ clean' = clean /\ troubles' = troubles
    BY DEF OpenPage, Alive, lease, To
  <1>3. /\ pages[c] \in 0..MaxPages - 1 /\ n \in 1..Len(toFetch[c]) /\ i \in Ids /\ n \in Nat
        /\ pages[c] \in Nat /\ Len(toFetch[c]) \in Nat
    <2>1. /\ toFetch[c] \in Seq(Ids) /\ pages[c] \in 0..MaxPages /\ Len(toFetch[c]) \in 0..MaxPages
          /\ \A k \in 1..Len(toFetch[c]) : toFetch[c][k] \in Ids
      BY OpenedTyped DEF Inv
    <2>2. MaxPages \in Nat
      BY OutboxAssumption
    <2> QED
      BY <1>2, <2>1, <2>2
  <1>4. AfterOutcome(n) \in {"fetch", "save"} /\ (AfterOutcome(n) = "fetch" => n % Every # 0)
    BY DEF AfterOutcome
  <1>5. /\ copy[c] \in [Ids -> Entries] /\ (\A k \in Ids : Fit(copy[c][k]))
        /\ i \in Opened(c) \/ NeedsPageFetch(copy[c][i])
        /\ \A k \in Opened(c) : copy[c][k].fails < MaxAttempts + pages[c]
    <2>1. n \in pages[c] + 1..Len(toFetch[c])
      BY <1>3
    <2> QED
      BY <2>1 DEF Inv, Copies, Budget, Paging
  <1>6. copy[c][i].fails < MaxAttempts + pages[c]
    <2>1. CASE NeedsPageFetch(copy[c][i])
      <3>1. Fit(copy[c][i]) /\ copy[c][i].fails \in Nat
        BY <1>3, <1>5 DEF Fit, Entries
      <3>2. copy[c][i].fails < MaxAttempts
        BY <2>1, <3>1, OutboxAssumption DEF Fit, NeedsPageFetch
      <3> QED
        BY <1>3, <3>1, <3>2, OutboxAssumption
    <2> QED
      BY <1>5, <2>1
  <1>7. /\ Fit(AfterPage(copy[c][i], o)) /\ AfterPage(copy[c][i], o).state # "ingested"
        /\ AfterPage(copy[c][i], o).fails < MaxAttempts + pages[c] + 1
    BY <1>3, <1>5, <1>6, PageFits
  <1>8. /\ entries \in [Ids -> Entries] /\ (\A k \in Ids : Fit(entries[k]))
        /\ entries[i].state # "ingested" /\ \A k \in Ids \ {i} : entries[k] = copy[c][k]
        /\ entries[i].fails < MaxAttempts + n
    <2>1. AfterPage(copy[c][i], o) \in Entries
      BY <1>7 DEF Fit
    <2>2. entries[i] = AfterPage(copy[c][i], o) /\ \A k \in Ids \ {i} : entries[k] = copy[c][k]
      BY <1>3, <1>5
    <2>3. entries \in [Ids -> Entries]
      BY <1>5, <2>1
    <2> HIDE DEF entries, i, n
    <2>4. entries[i].fails < MaxAttempts + n
      BY <1>3, <1>7, <2>2, OutboxAssumption DEF n
    <2> QED
      BY <1>5, <1>7, <2>2, <2>3, <2>4
  <1>9. copy' = [copy EXCEPT ![c] = entries]
    BY <1>1
  <1> HIDE DEF entries
  <1>10. /\ copy'[c] = entries /\ pages'[c] = n /\ toFetch'[c] = toFetch[c] /\ stage'[c] = AfterOutcome(n)
         /\ \A d \in Collectors \ {c} : copy'[d] = copy[d] /\ toFetch'[d] = toFetch[d]
                                          /\ pages'[d] = pages[d] /\ stage'[d] = stage[d]
    BY <1>2, <1>9 DEF Inv, Copies, Budget, Flags
  <1>11. /\ Opened(c)' = Opened(c) \cup {i}
         /\ OpenedAgain(c) \subseteq OpenedAgain(c)' /\ (i \in Opened(c) => i \in OpenedAgain(c)')
    <2>1. 1..n = 1..pages[c] \cup {n}
      BY <1>3
    <2>2. Opened(c)' = {toFetch[c][k] : k \in 1..n}
      BY <1>10 DEF Opened
    <2>3. OpenedAgain(c)' = {j \in Ids : \E k, l \in 1..n : k < l /\ toFetch[c][k] = j /\ toFetch[c][l] = j}
      BY <1>10 DEF OpenedAgain
    <2>4. ASSUME i \in Opened(c) PROVE i \in OpenedAgain(c)'
      <3>1. PICK k \in 1..pages[c] : toFetch[c][k] = i
        BY <2>4 DEF Opened
      <3>2. k < n /\ k \in 1..n /\ n \in 1..n
        BY <1>3
      <3> QED
        BY <1>3, <2>3, <3>1, <3>2
    <2>5. OpenedAgain(c) \subseteq OpenedAgain(c)'
      BY <2>1, <2>3 DEF OpenedAgain
    <2>6. {toFetch[c][k] : k \in 1..n} = Opened(c) \cup {i}
      BY <2>1 DEF Opened
    <2> QED
      BY <2>2, <2>4, <2>5, <2>6
  <1> HIDE DEF i
  <1>12. Copies'
    <2>1. copy' \in [Collectors -> [Ids -> Entries]] /\ \A d \in Collectors : \A k \in Ids : Fit(copy'[d][k])
      BY <1>8, <1>9, <1>10 DEF Inv, Copies
    <2> QED
      BY <1>2, <2>1 DEF Inv, Copies, Fit
  <1>13. Flags'
    BY <1>2, <1>4 DEF Inv, Flags, Stages
  <1>14. Budget'
    <2>1. toFetch' \in [Collectors -> Seq(Ids)] /\ pages' \in [Collectors -> Nat]
      BY <1>2, <1>3 DEF Inv, Budget
    <2>2. Paging(c)'
      <3>1. \A k \in n + 1..Len(toFetch[c]) :
               toFetch[c][k] \in Opened(c)' \/ NeedsPageFetch(entries[toFetch[c][k]])
        <4> SUFFICES ASSUME NEW k \in n + 1..Len(toFetch[c]), toFetch[c][k] # i
                     PROVE  toFetch[c][k] \in Opened(c) \/ NeedsPageFetch(entries[toFetch[c][k]])
          BY <1>11
        <4>1. k \in pages[c] + 1..Len(toFetch[c]) /\ k \in 1..Len(toFetch[c])
          BY <1>3
        <4>2. toFetch[c][k] \in Ids
          BY <4>1, OpenedTyped DEF Inv
        <4>3. entries[toFetch[c][k]] = copy[c][toFetch[c][k]]
          BY <1>8, <4>2
        <4>4. toFetch[c][k] \in Opened(c) \/ NeedsPageFetch(copy[c][toFetch[c][k]])
          BY <4>1 DEF Inv, Budget, Paging
        <4> QED
          BY <4>3, <4>4
      <3>2. \A k \in Opened(c)' : entries[k].fails < MaxAttempts + n
        <4> SUFFICES ASSUME NEW k \in Opened(c), k # i PROVE entries[k].fails < MaxAttempts + n
          BY <1>8, <1>11
        <4>1. k \in Ids
          BY OpenedTyped DEF Inv
        <4>2. copy[c][k].fails < MaxAttempts + pages[c] /\ copy[c][k].fails \in Nat
          BY <1>5, <4>1 DEF Fit, Entries
        <4>3. entries[k] = copy[c][k]
          BY <1>8, <4>1
        <4> QED
          BY <1>3, <4>2, <4>3, OutboxAssumption
      <3>3. n <= Len(toFetch[c]) /\ Len(toFetch[c]) <= MaxPages
        BY <1>3 DEF Inv, Budget, Paging
      <3> HIDE DEF n
      <3> QED
        BY <1>4, <1>10, <3>1, <3>2, <3>3 DEF Paging, NeedsPageFetch
    <2>3. ASSUME NEW d \in Collectors \ {c} PROVE Paging(d)'
      BY <1>10, PagingStays DEF Inv, Budget, Paging
    <2> QED
      BY <2>1, <2>2, <2>3 DEF Budget
  <1>15. Truthful'
    <2>1. \A d \in Collectors : \A k \in Ids : copy'[d][k].state = "ingested" => k \in recorded'
      BY <1>2, <1>8, <1>10 DEF Inv, Truthful
    <2> QED
      BY <1>2, <2>1 DEF Inv, Truthful, IngestedIsRecorded
  <1>16. \A d \in Collectors : Alive(d)' <=> Alive(d)
    BY <1>2, <1>4, <1>10 DEF Alive
  <1>17. Alone' /\ CleanRunDrains'
    BY <1>2, <1>16 DEF Inv, Alone, CleanRunDrains
  <1>18. Close'
    <2> SUFFICES ASSUME ~usurped, NEW d \in Collectors, Alive(d) PROVE Near(d)'
      BY <1>2, <1>16 DEF Close
    <2>1. d = c /\ Near(c)
      BY <1>2, OnlyOne DEF Inv, Close
    <2>2. Pending(file)' \ Pending(copy[c])' \subseteq OpenedAgain(c)'
      <3> SUFFICES ASSUME NEW k \in Pending(file), k \notin Pending(entries) PROVE k \in OpenedAgain(c)'
        BY <1>2, <1>10 DEF Pending
      <3>1. CASE k \notin Pending(copy[c])
        BY <1>11, <2>1, <3>1 DEF Near
      <3>2. CASE k \in Pending(copy[c])
        <4>1. k \in Ids /\ k = i /\ copy[c][k].state = "collected"
          BY <1>8, <3>2 DEF Pending
        <4>2. i \in Opened(c)
          BY <1>5, <4>1 DEF NeedsPageFetch
        <4> QED
          BY <1>11, <4>1, <4>2
      <3> QED BY <3>1, <3>2
    <2>3. Differ(c)' \subseteq Differ(c) \cup {i}
      BY <1>2, <1>8, <1>10 DEF Differ
    <2>4. Differ(c)' \subseteq Opened(c)'
      BY <1>11, <2>1, <2>3 DEF Near
    <2>5. Cardinality(Differ(c)') <= IF stage'[c] = "save" THEN Every ELSE pages'[c] % Every
      <3> DEFINE S == Differ(c)
                 m == Cardinality(S)
                 p == pages[c] % Every
      <3>1. IsFiniteSet(S) /\ m \in Nat /\ m <= p /\ p \in Nat /\ p < Every
        BY <1>2, <1>3, <2>1, SubsetsFinite, BelowTheInterval DEF Differ, Near
      <3>2. IsFiniteSet(S \cup {i}) /\ (Cardinality(S \cup {i}) = m \/ Cardinality(S \cup {i}) = m + 1)
        BY <3>1, FS_AddElement
      <3>3. Cardinality(Differ(c)') <= Cardinality(S \cup {i}) /\ Cardinality(Differ(c)') \in Nat
        BY <2>3, <3>2, FS_Subset, FS_CardinalityType
      <3>4. n % Every # 0 => n % Every = p + 1
        BY <1>3, OnePageMore, OutboxAssumption
      <3> HIDE DEF S, m, p, n
      <3>5. Cardinality(Differ(c)') <= p + 1 /\ p + 1 <= Every
        BY <3>1, <3>2, <3>3, OutboxAssumption
      <3>6. CASE AfterOutcome(n) = "save"
        BY <1>10, <3>1, <3>3, <3>5, <3>6, OutboxAssumption
      <3>7. CASE AfterOutcome(n) = "fetch"
        BY <1>4, <1>10, <3>4, <3>5, <3>7
      <3> QED
        BY <1>4, <3>6, <3>7
    <2> QED
      BY <2>1, <2>2, <2>4, <2>5 DEF Near
  <1> QED
    BY <1>12, <1>13, <1>14, <1>15, <1>17, <1>18 DEF Inv

(* A step that leaves everything but what a collector knows of its lock.   *)
LEMMA Noticing ==
    ASSUME Inv, lost' \in [Collectors -> BOOLEAN],
           UNCHANGED <<file, collectorVars, owner, usurped, recorded, clean, troubles>>
    PROVE  Inv'
  <1>1. /\ file' = file /\ copy' = copy /\ stage' = stage /\ toFetch' = toFetch /\ pages' = pages
        /\ owner' = owner /\ usurped' = usurped /\ recorded' = recorded /\ clean' = clean
        /\ troubles' = troubles
    BY DEF collectorVars
  <1>2. Copies' /\ Flags' /\ Truthful'
    BY <1>1 DEF Inv, Copies, Fit, Flags, Truthful, IngestedIsRecorded
  <1>3. Budget' /\ Alone' /\ CleanRunDrains'
    <2>1. ASSUME NEW c \in Collectors PROVE Paging(c)'
      BY <1>1, PagingStays DEF Inv, Budget, Paging
    <2>2. Budget'
      BY <1>1, <2>1 DEF Inv, Budget
    <2> QED
      BY <1>1, <2>2 DEF Inv, Alone, CleanRunDrains, Alive, Pending
  <1>4. Close'
    <2> SUFFICES ASSUME ~usurped, NEW c \in Collectors, Alive(c) PROVE Near(c)'
      BY <1>1 DEF Close, Alive
    <2>1. Near(c) /\ Differ(c)' = Differ(c) /\ Opened(c)' = Opened(c) /\ OpenedAgain(c)' = OpenedAgain(c)
      BY <1>1 DEF Inv, Close, Differ, Opened, OpenedAgain
    <2> QED
      BY <1>1, <2>1 DEF Near, Pending
  <1> QED
    BY <1>2, <1>3, <1>4 DEF Inv

LEMMA Requeueing ==
    ASSUME Inv, Requeue
    PROVE  Inv'
  <1>1. PICK ids \in SUBSET {i \in Ids : file[i].state = "quarantined"} :
           file' = [i \in Ids |-> IF i \in ids THEN Unknown ELSE file[i]]
    BY DEF Requeue
  <1>2. /\ owner = NoOwner \/ Stale
        /\ owner' = NoOwner /\ copy' = copy /\ stage' = stage /\ toFetch' = toFetch /\ pages' = pages
        /\ lost' = lost /\ usurped' = usurped /\ recorded' = recorded /\ clean' = clean
        /\ troubles' = troubles
    BY DEF Requeue, collectorVars
  <1>3. ~usurped => \A c \in Collectors : ~Alive(c)
    BY <1>2, OutboxAssumption DEF Inv, Alone, Stale
  <1>4. Unknown \in Entries /\ Fit(Unknown) /\ Unknown.state = "unknown"
    BY OutboxAssumption DEF Unknown, Entry, Entries, States, Fit
  <1>5. Copies'
    <2>1. file' \in [Ids -> Entries] /\ \A i \in Ids : Fit(file'[i])
      BY <1>1, <1>4 DEF Inv, Copies
    <2> QED
      BY <1>2, <2>1 DEF Inv, Copies, Fit
  <1>6. Flags' /\ Budget'
    <2>1. ASSUME NEW c \in Collectors PROVE Paging(c)'
      BY <1>2, PagingStays DEF Inv, Budget, Paging
    <2> QED
      BY <1>2, <2>1 DEF Inv, Flags, Budget
  <1>7. Truthful'
    BY <1>1, <1>2, <1>4 DEF Inv, Truthful, IngestedIsRecorded
  <1>8. Alone' /\ Close'
    BY <1>2, <1>3 DEF Alone, Close, Alive
  <1>9. Pending(file)' \subseteq Pending(file)
    BY <1>1, <1>4 DEF Pending
  <1>10. CleanRunDrains'
    BY <1>2, <1>9 DEF Inv, CleanRunDrains, Alive
  <1> QED
    BY <1>5, <1>6, <1>7, <1>8, <1>10 DEF Inv

-----------------------------------------------------------------------------
(* The specification.                                                      *)

LEMMA Initially == OutboxInit => Inv
  <1> SUFFICES ASSUME OutboxInit PROVE Inv
    OBVIOUS
  <1>1. Copies
    BY BlankFits DEF OutboxInit, Copies
  <1>2. Flags
    <2>1. usurped \in BOOLEAN /\ clean \in BOOLEAN
      BY Zenon DEF OutboxInit
    <2> QED
      BY <2>1, OutboxAssumption DEF OutboxInit, Flags, Stages
  <1>3. Budget
    <2>1. toFetch \in [Collectors -> Seq(Ids)] /\ pages \in [Collectors -> Nat]
      BY DEF OutboxInit
    <2>2. ASSUME NEW c \in Collectors PROVE Paging(c)
      <3>1. toFetch[c] = <<>> /\ pages[c] = 0 /\ Len(<<>>) = 0 /\ Opened(c) = {}
        BY NoneOpened DEF OutboxInit
      <3> QED
        BY <3>1, OutboxAssumption DEF Paging
    <2> QED
      BY <2>1, <2>2 DEF Budget
  <1>4. Truthful
    BY BlankFits DEF OutboxInit, Truthful, IngestedIsRecorded
  <1>5. Alone /\ Close
    BY DEF OutboxInit, Alone, Close, Alive
  <1>6. CleanRunDrains
    BY Zenon DEF OutboxInit, CleanRunDrains
  <1> QED
    BY <1>1, <1>2, <1>3, <1>4, <1>5, <1>6 DEF Inv

LEMMA Inductive == Inv /\ [OutboxNext]_outboxVars => Inv'
  <1> SUFFICES ASSUME Inv, [OutboxNext]_outboxVars PROVE Inv'
    OBVIOUS
  <1>1. ASSUME NEW c \in Collectors, Acquire(c) \/ Discover(c) \/ OpenPage(c) \/ Checkpoint(c) \/ Flush(c)
        PROVE  Inv'
    BY <1>1, Acquiring, Discovering, Opening, Saving, Flushing
  <1>2. ASSUME NEW c \in Collectors, NothingToPost(c) \/ Confirmed(c) \/ Unconfirmed(c)
                                       \/ Abort(c) \/ Crash(c)
        PROVE  Inv'
    BY <1>2, Ending DEF Ends
  <1>3. ASSUME NEW c \in Collectors, Heartbeat(c) PROVE Inv'
    <2>1. lost' \in [Collectors -> BOOLEAN]
      BY <1>3 DEF Heartbeat, Inv, Flags
    <2> QED
      BY <1>3, <2>1, Noticing DEF Heartbeat
  <1>4. CASE Requeue
    BY <1>4, Requeueing
  <1>5. CASE UNCHANGED outboxVars
    <2>1. lost' \in [Collectors -> BOOLEAN]
      BY <1>5 DEF outboxVars, lease, Inv, Flags
    <2> QED
      BY <1>5, <2>1, Noticing DEF outboxVars, lease
  <1> QED
    BY <1>1, <1>2, <1>3, <1>4, <1>5 DEF OutboxNext

LEMMA Always == OutboxSpec => []Inv
  BY Initially, Inductive, PTL DEF OutboxSpec

(* The state file and every collector's copy are of their type, whatever a *)
(* sitemap lists: an entry is quarantined exactly when its attempts are    *)
(* spent, no run opens more pages than its budget, and what a run counts    *)
(* past the retries of a posting listed several times is bounded by it      *)
(* (collect.ts, state.ts).                                                  *)
THEOREM TypeInvariant == OutboxSpec => []OutboxTypeOK
  <1>1. Inv => OutboxTypeOK
    <2> SUFFICES ASSUME Inv PROVE OutboxTypeOK
      OBVIOUS
    <2>1. pages \in [Collectors -> 0..MaxPages]
      BY OpenedTyped DEF Inv, Budget
    <2>2. file \in [Ids -> [state : {"unknown", "ingested", "quarantined"} \cup Outcomes,
                            fails : 0..(MaxAttempts + MaxPages - 1)]]
      <3>1. ASSUME NEW i \in Ids
            PROVE  file[i] \in [state : States, fails : 0..(MaxAttempts + MaxPages - 1)]
        <4>1. file[i] \in Entries /\ file[i].fails \in Nat /\ file[i].fails < MaxAttempts + MaxPages
          BY DEF Inv, Copies, Fit, Entries
        <4>2. file[i].fails \in 0..(MaxAttempts + MaxPages - 1)
          BY <4>1, OutboxAssumption
        <4> QED
          BY <4>1, <4>2 DEF Entries
      <3> QED
        BY <3>1 DEF Inv, Copies, States
    <2>3. \A i \in Ids : (file[i].state = "quarantined") <=> (file[i].fails >= MaxAttempts)
      BY DEF Inv, Copies, Fit
    <2>4. DOMAIN copy = Collectors
      BY DEF Inv, Copies
    <2> QED
      BY <2>1, <2>2, <2>3, <2>4 DEF OutboxTypeOK, Inv, Flags, Budget
  <1> QED
    BY Always, <1>1, PTL

(* No page is opened again whose fate the file knows, but for a posting     *)
(* the sitemap lists twice, and a crash loses the outcome of fewer pages    *)
(* than CHECKPOINT_EVERY, or of as many between an outcome and the          *)
(* checkpoint due after it, unless a collector outlives its lock            *)
(* (collect.ts).                                                            *)
THEOREM CrashesCostLittle == OutboxSpec => []CrashCostsLittle
  <1>1. Inv => CrashCostsLittle
    <2> SUFFICES ASSUME Inv, ~usurped PROVE NoPageTwice /\ LossIsBounded
      BY DEF CrashCostsLittle
    <2>1. NoPageTwice
      <3> SUFFICES ASSUME NEW c \in Collectors, NEW k \in pages[c] + 1..Len(toFetch[c]),
                          toFetch[c][k] \notin Opened(c)
                   PROVE  /\ file[toFetch[c][k]].state \in {"unknown", "retryable"}
                          /\ file[toFetch[c][k]].fails < MaxAttempts
        BY DEF NoPageTwice
      <3> DEFINE i == toFetch[c][k]
      <3>1. k \in 1..Len(toFetch[c]) /\ i \in Ids
        BY OpenedTyped DEF Inv
      <3>2. Alive(c) /\ NeedsPageFetch(copy[c][i])
        BY <3>1 DEF Inv, Budget, Paging, Alive
      <3> HIDE DEF i
      <3>3. file[i] = copy[c][i]
        BY <3>1, <3>2 DEF Inv, Close, Near, Differ, i
      <3>4. Fit(file[i]) /\ file[i].fails \in Nat
        BY <3>1 DEF Inv, Copies, Fit, Entries
      <3>5. file[i].state \in {"unknown", "retryable"} /\ file[i].fails < MaxAttempts
        BY <3>2, <3>3, <3>4, OutboxAssumption DEF NeedsPageFetch, Fit
      <3> QED
        BY <3>5 DEF i
    <2>2. LossIsBounded
      <3> SUFFICES ASSUME NEW c \in Collectors, Alive(c)
                   PROVE  Cardinality(Differ(c)) < Every
                             \/ (stage[c] = "save" /\ Cardinality(Differ(c)) = Every)
        BY DEF LossIsBounded, Differ
      <3>1. Cardinality(Differ(c)) <= IF stage[c] = "save" THEN Every ELSE pages[c] % Every
        BY DEF Inv, Close, Near
      <3>2. pages[c] % Every \in Nat /\ pages[c] % Every < Every
        BY BelowTheInterval DEF Inv, Budget
      <3>3. Cardinality(Differ(c)) \in Nat /\ Every \in Nat
        BY SubsetsFinite, OutboxAssumption DEF Differ
      <3> QED
        BY <3>1, <3>2, <3>3
    <2> QED
      BY <2>1, <2>2
  <1> QED
    BY Always, <1>1, PTL

(* No end of a run and no crash takes a payload off the disk that has not   *)
(* arrived, unless a collector outlives its lock or the sitemap listed the  *)
(* posting twice.                                                           *)
LEMMA KeptUntilArrived ==
    ASSUME Inv, [OutboxNext]_outboxVars, ~usurped, NEW i \in Pending(file)
    PROVE  i \in Pending(file') \/ i \in recorded' \/ \E c \in Collectors : i \in OpenedAgain(c)
  <1>1. CASE file' = file
    BY <1>1
  <1>2. ASSUME NEW c \in Collectors, Alive(c), file' = copy[c]
        PROVE  i \in Pending(file') \/ i \in OpenedAgain(c)
    BY <1>2 DEF Inv, Close, Near
  <1>3. ASSUME NEW c \in Collectors, Ends(c) PROVE file' = file \/ i \in recorded'
    <2>1. Alive(c) /\ (file' = file \/ Pending(copy[c]) \subseteq recorded')
      BY <1>3, Ended
    <2>2. CASE NothingToPost(c) \/ Unconfirmed(c) \/ Abort(c) \/ Crash(c)
      BY <2>2 DEF NothingToPost, Unconfirmed, Abort, Crash
    <2>3. CASE Confirmed(c)
      <3>1. stage[c] = "post"
        BY <2>3 DEF Confirmed
      <3>2. pages[c] = 0
        BY <3>1, NoPages DEF Inv
      <3>3. copy[c] = file
        BY <2>1, <3>1, <3>2, Fresh
      <3> QED
        BY <2>1, <3>3
    <2> QED
      BY <1>3, <2>2, <2>3 DEF Ends
  <1>4. CASE Requeue
    BY <1>4 DEF Requeue, Pending
  <1>5. ASSUME NEW c \in Collectors, Checkpoint(c) \/ Flush(c) PROVE Alive(c) /\ file' = copy[c]
    BY <1>5 DEF Checkpoint, Flush, Alive
  <1>6. ASSUME NEW c \in Collectors, Acquire(c) \/ Discover(c) \/ OpenPage(c) \/ Heartbeat(c)
        PROVE  file' = file
    BY <1>6 DEF Acquire, Discover, OpenPage, Heartbeat
  <1>7. CASE UNCHANGED outboxVars
    BY <1>7 DEF outboxVars
  <1> QED
    BY <1>1, <1>2, <1>3, <1>4, <1>5, <1>6, <1>7 DEF OutboxNext, Ends

(* Until it has arrived a payload is kept, but for a posting the sitemap    *)
(* lists twice, only after that it is done, and a run that ends well has    *)
(* seen all of them arrive (collect.ts, the outbox of state.ts).            *)
THEOREM PayloadsArrive == OutboxSpec => OutboxKeeps
  <1>1. Inv => IngestedIsRecorded /\ CleanRunDrains
    BY DEF Inv, Truthful
  <1>2. Inv /\ [OutboxNext]_outboxVars =>
           [~usurped => \A i \in Pending(file) :
               i \in Pending(file') \/ i \in recorded' \/ \E c \in Collectors : i \in OpenedAgain(c)]_outboxVars
    BY KeptUntilArrived
  <1> QED
    BY Always, <1>1, <1>2, PTL DEF OutboxSpec, OutboxKeeps, PayloadKept
=============================================================================
