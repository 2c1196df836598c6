---------------------------- MODULE StagePublish ----------------------------
(***************************************************************************)
(* Staging and publication of what providers observe of one issue: its     *)
(* terms, the demand for it and its closing prices.                        *)
(*                                                                         *)
(* A collection stages what is new and commits; a publication takes a      *)
(* batch of staged rows, each in a savepoint of its own, and commits them  *)
(* with the lifecycle of every issue.  Both hold the writer lease          *)
(* (MarketQueue): each is one action here.  A run that dies between the    *)
(* two, or whose publication is rolled back, is a collection alone.        *)
(***************************************************************************)
EXTENDS Naturals, Sequences, FiniteSets

CONSTANTS
  Provider,
  idOf,           \* the identifier a provider's rows carry of the company
  Named,          \* providers whose rows bring an issue id of their own
  Web,            \* IPOWEB: may be the selected provider, matches by name and dates
  Pages,          \* providers that read a page of issues
  Consolidated,   \* NSE's bids on all exchanges, read for one symbol
  Lagging,        \* providers that publish the time of an observation themselves
  Feed,           \* what may be observed: kind, provider, its authority and value
  opens, closes,  \* the bidding window, the same for every provider
  Batch,          \* staged rows of a publication: 1000
  Ticks,          \* observations in a day
  MaxNow, MaxRows \* bound the model

Kinds == [ipos |-> 1, subscriptions |-> 2, prices |-> 3]
Missing == 0      \* a field the source does not give; None: no such row
None == "none"
Identifier == {idOf[p] : p \in Provider}
Owner == Provider \cup {"admin"}    \* a company is named by who created it

ASSUME ProviderAssumption ==
  /\ DOMAIN idOf = Provider
  /\ Named \subseteq Provider /\ Web \subseteq Named /\ Lagging \subseteq Provider
  /\ Web \subseteq Pages /\ Consolidated \subseteq Provider \ Pages
  /\ None \notin Owner

\* What the parsers make of a source.  A page of issues has no listing date
\* and says no more than the dates do (OPEN stands for what follows from them).
Terms == [price : Nat, listing : Nat, official : {"OPEN", "LISTED", "WITHDRAWN"}]
PageTerms == [price : Nat, listing : {Missing}, official : {"OPEN"}]
Demand == Nat
Close == [day : Nat, close : Nat]
Exchange == {"NSE", "BSE"}
Authority == Exchange \cup {"LICENSED", "UNOFFICIAL"}
Of(kind, providers, authorities, values) ==
  [kind : {kind}, provider : providers, authority : authorities, value : values]

\* The pages of issues: the exchanges', which IPOWEB reads as well, and its own.
NsePage == Of("ipos", Pages, {"NSE"}, PageTerms)
BsePage == Of("ipos", Pages, {"BSE"}, PageTerms)
WatchPage == Of("ipos", Web, {"UNOFFICIAL"}, PageTerms)

\* Bids: of one symbol, with the time the NSE gives them, and of a page of BSE.
NseBids == Of("subscriptions", Consolidated, {"NSE"}, Demand)
BseBids == Of("subscriptions", Pages \ Web, {"BSE"}, Demand)

\* A feed may have rows of every kind; terms and demand are an exchange's.
Feeds == Provider \ (Pages \cup Consolidated)
FeedRows ==
  Of("ipos", Feeds, Exchange, Terms) \cup Of("subscriptions", Feeds, Exchange, Demand)
    \cup Of("prices", Feeds, Authority, Close)

\* Closing prices of an exchange.
DailyCloses == Of("prices", Pages, Exchange, Close)

Observation ==
  NsePage \cup BsePage \cup WatchPage \cup NseBids \cup BseBids \cup FeedRows \cup DailyCloses

ASSUME FeedAssumption == Pages \subseteq Provider /\ \A o \in Feed : o \in Observation
ASSUME WindowAssumption == opens \in Nat /\ closes \in Nat /\ opens <= closes
ASSUME BoundAssumption == {Batch, Ticks} \subseteq Nat \ {0} /\ {MaxNow, MaxRows} \subseteq Nat

VARIABLES
  now,      \* observations so far: the clock
  primary,  \* the selected provider of issues, or None
  rows,     \* market_staging by created_at
  master    \* the public tables

vars == <<now, primary, rows, master>>

DayOf(t) == t \div Ticks
NoIssue == [source |-> None, at |-> 0, price |-> Missing, listing |-> Missing,
            official |-> None, status |-> None, verified |-> FALSE]

TypeOK ==
  /\ now \in 0 .. MaxNow
  /\ primary \in Web \cup {None}
  /\ \A i \in DOMAIN rows :
       rows[i].status \in {"PENDING", "PUBLISHED", "REJECTED", "FALLBACK_NOT_NEEDED"}
  /\ DOMAIN master.issue = Owner /\ master.link \in [Identifier -> Owner \cup {None}]

\* An administrator may have entered the company by hand.
Init ==
  /\ now = 0 /\ primary = None /\ rows = <<>>
  /\ \E curated \in {NoIssue, [NoIssue EXCEPT !.status = "OPEN"]} :
       master = [issue |-> [c \in Owner |-> IF c = "admin" THEN curated ELSE NoIssue],
                 link |-> [x \in Identifier |-> None],
                 snapshots |-> {}, daily |-> {}, eod |-> {}]

-----------------------------------------------------------------------------
Companies(m) == {c \in Owner : m.issue[c].status # None}

\* lifecycle and public_status: the status of an issue on a day.
Lifecycle(issue, day) ==
  CASE issue.official = "WITHDRAWN" -> "CLOSED"
    [] issue.official # "WITHDRAWN" /\ issue.listing # Missing /\ day >= issue.listing -> "LISTED"
    [] issue.official = "LISTED" -> "LISTED"
    [] OTHER -> IF day < opens THEN "UPCOMING" ELSE IF day <= closes THEN "OPEN" ELSE "CLOSED"

\* reconcile_lifecycle leaves what has no source as it was entered.
Reconciled(m) ==
  [m EXCEPT !.issue = [c \in Owner |->
     IF m.issue[c].source = None THEN m.issue[c]
     ELSE [m.issue[c] EXCEPT !.status = Lifecycle(m.issue[c], DayOf(now))]]]

\* match_company: by identifier; an issue of IPOWEB also by name and window.
ByName(m, r) ==
  {c \in Companies(m) : r.kind = "ipos" /\ (r.provider \in Web \/ m.issue[c].source \in Web)}
Matches(m, r) == IF m.link[idOf[r.provider]] # None THEN {m.link[idOf[r.provider]]} ELSE ByName(m, r)

Done(m, status) == [master |-> m, status |-> status]

-----------------------------------------------------------------------------
\* Faulty: a company that is listed already takes the source's word.
OfficialAsObserved(issue, r) == r.value.official

Official(issue, r) == IF issue.status = "LISTED" THEN "LISTED" ELSE r.value.official

\* Faulty: the time of the observation is not compared.
AnyTime(issue, r) == FALSE

Stale(issue, r) == r.at <= issue.at

Conflicts(issue, r) ==
  \E field \in {"price", "listing"} :
    r.value[field] # Missing /\ issue[field] \notin {Missing, r.value[field]}

\* Another provider's terms are checked and left out; those of the provider
\* that is selected replace them, unless they are unofficial and these are not.
OnlyChecked(issue, r) ==
  \/ issue.source # r.provider /\ primary # r.provider
  \/ r.provider \in Web /\ r.authority = "UNOFFICIAL" /\ issue.verified

Kept(new, old) == IF new = Missing THEN old ELSE new

Updated(issue, r) ==
  [source |-> r.provider, at |-> r.at,
   price |-> Kept(r.value.price, issue.price), listing |-> Kept(r.value.listing, issue.listing),
   official |-> Official(issue, r), status |-> Official(issue, r),
   verified |-> r.authority # "UNOFFICIAL"]

IngestIssue(m, r) ==
  LET found == Matches(m, r)
      c == IF found = {} THEN r.provider ELSE CHOOSE c \in found : TRUE
      issue == m.issue[c]
      checked == found # {} /\ OnlyChecked(issue, r)
      linked == [m EXCEPT !.link[idOf[r.provider]] = c] IN
  IF \/ Cardinality(found) > 1
     \/ found = {} /\ r.provider \in Named /\ Companies(m) # {}
     \/ checked /\ Conflicts(issue, r)
  THEN Done(m, "REJECTED")
  ELSE IF checked /\ issue.source # None THEN Done(linked, "PUBLISHED")
  ELSE IF Stale(issue, r) THEN Done(m, "PUBLISHED")
  ELSE Done([linked EXCEPT !.issue[c] = Updated(issue, r)], "PUBLISHED")

\* Faulty: an older observation is taken for the latest one.
OverdueNever(m, c, r) == FALSE

\* The demand is known: observed later already, or the same on the same day.
Latest(m, c, p) ==
  {s \in m.snapshots : s.owner = c /\ s.provider = p
     /\ \A t \in m.snapshots : (t.owner = c /\ t.provider = p) => t.at <= s.at}
Overdue(m, c, r) == \E s \in Latest(m, c, r.provider) : s.at > r.at
Repeated(m, c, r) ==
  \E s \in Latest(m, c, r.provider) : s.value = r.value /\ DayOf(s.at) = DayOf(r.at)

IngestDemand(m, r) ==
  LET c == m.link[idOf[r.provider]]
      snapshot == [owner |-> c, provider |-> r.provider,
                   exchange |-> r.authority, value |-> r.value, at |-> r.at]
      Summary(d) == d.owner = c /\ d.day = DayOf(r.at) /\ d.exchange = r.authority IN
  IF c = None THEN Done(m, "REJECTED")
  ELSE IF Overdue(m, c, r) \/ Repeated(m, c, r) THEN Done(m, "PUBLISHED")
  ELSE Done([m EXCEPT !.snapshots = @ \cup {snapshot},
               !.daily = {d \in @ : ~Summary(d)} \cup
                 {[owner |-> c, day |-> DayOf(r.at), exchange |-> r.authority,
                   snapshot |-> snapshot]}],
            "PUBLISHED")

\* Faulty: the last close that is published stands.
FallbackNever(known, exchange) == FALSE

\* The close of BSE stands in for that of NSE.
Fallback(known, exchange) == known.exchange = "NSE" /\ exchange = "BSE"

\* The close of NSE takes the place of that of BSE.
Replaces(exchange, known) == exchange = "NSE" /\ known.exchange = "BSE"

\* A close after the bidding window proves the listing; one that contradicts the
\* close another provider gave is rejected, unless it takes its place.
IngestClose(m, r) ==
  LET c == m.link[idOf[r.provider]]
      exchange == r.authority
      listed == [m EXCEPT !.issue[c].status = "LISTED", !.issue[c].official =
                   IF m.issue[c].status = "LISTED" THEN @ ELSE "LISTED"]
      known == {e \in m.eod : e.owner = c /\ e.day = r.value.day} IN
  IF c = None \/ (m.issue[c].status # "LISTED" /\ r.value.day <= closes)
  THEN Done(m, "REJECTED")
  ELSE IF \E e \in known : Fallback(e, exchange) THEN Done(listed, "FALLBACK_NOT_NEEDED")
  ELSE IF \E e \in known : /\ ~Replaces(exchange, e)
                           /\ e.provider # r.provider /\ e.close # r.value.close
  THEN Done(m, "REJECTED")
  ELSE IF \E e \in known : ~Replaces(exchange, e) /\ e.at >= r.at THEN Done(listed, "PUBLISHED")
  ELSE Done([listed EXCEPT !.eod = (@ \ known) \cup
               {[owner |-> c, day |-> r.value.day, exchange |-> exchange,
                 provider |-> r.provider, close |-> r.value.close, at |-> r.at]}],
            "PUBLISHED")

-----------------------------------------------------------------------------
\* Faulty: a publication takes the rejected rows every time.
AwaitingAgain(i, kinds, states) ==
  rows[i].kind \in kinds /\ rows[i].status \in states \cup {"REJECTED"}

Awaiting(i, kinds, states) == rows[i].kind \in kinds /\ rows[i].status \in states

\* The rows of a publication: the first Batch by creation.  A retry takes the
\* rejected rows as well.
Batched(kinds, states) ==
  LET waiting == {i \in DOMAIN rows : Awaiting(i, kinds, states)} IN
  {i \in waiting : Cardinality({j \in waiting : j < i}) < Batch}

\* They are published by kind, the ones of NSE before the others, by creation.
Group(i) == (2 * Kinds[rows[i].kind]) + (IF rows[i].authority = "NSE" THEN 0 ELSE 1)
Precedes(i, j) == Group(i) < Group(j) \/ (Group(i) = Group(j) /\ i < j)
Turn(batch, n) == {i \in batch : Cardinality({j \in batch : Precedes(j, i)}) = n - 1}

NotNeeded(r) ==
  /\ r.kind = "ipos"
  /\ IF primary = None THEN r.provider \in Web ELSE r.provider # primary

PublishRow(m, r) ==
  IF NotNeeded(r) THEN Done(m, "FALLBACK_NOT_NEEDED")
  ELSE CASE r.kind = "ipos" -> IngestIssue(m, r)
         [] r.kind = "subscriptions" -> IngestDemand(m, r)
         [] r.kind = "prices" -> IngestClose(m, r)

\* The tables after a row, and after the first n rows of a batch.
Published(known, i) ==
  LET done == PublishRow(known.master, rows[i]) IN
  [master |-> done.master, rows |-> [known.rows EXCEPT ![i].status = done.status]]

NthRow(batch, n, known) ==
  IF Turn(batch, n) = {} THEN known ELSE Published(known, CHOOSE i \in Turn(batch, n) : TRUE)

After(batch) ==
  LET known[n \in 0 .. Len(rows)] ==
        IF n = 0 THEN [master |-> master, rows |-> rows] ELSE NthRow(batch, n, known[n - 1]) IN
  known

Publish(kinds, states) ==
  /\ \E last \in {After(Batched(kinds, states))[Len(rows)]} :
       rows' = last.rows /\ master' = Reconciled(last.master)
  /\ UNCHANGED <<now, primary>>

IssueKinds == {"ipos", "subscriptions"}
PublishJob(kinds) == Publish(kinds, {"PENDING"})
RetryRejected(kinds) ==
  /\ \E i \in DOMAIN rows : rows[i].status = "REJECTED" /\ rows[i].kind \in kinds
  /\ Publish(kinds, {"PENDING", "REJECTED"})

-----------------------------------------------------------------------------
\* stage: content seen before is not staged again, except demand on another day.
Staged(o, at) ==
  \E i \in DOMAIN rows :
    /\ rows[i].kind = o.kind /\ rows[i].provider = o.provider /\ rows[i].value = o.value
    /\ o.kind = "subscriptions" => DayOf(rows[i].at) = DayOf(at)

\* An observation at a new time is staged.  Left out: another content for a time the
\* provider has given before, of which the code would take either for the latest.
Stage(o, at) ==
  /\ now < MaxNow /\ now' = now + 1
  /\ at <= now' /\ (o.provider \notin Lagging => at = now')
  /\ \A i \in DOMAIN rows : (rows[i].provider = o.provider /\ rows[i].kind = o.kind) => rows[i].at # at
  /\ rows' = IF Staged(o, at) THEN rows
             ELSE Append(rows, [kind |-> o.kind, provider |-> o.provider, authority |-> o.authority,
                                value |-> o.value, at |-> at, status |-> "PENDING"])
  /\ Len(rows') <= MaxRows
  /\ UNCHANGED <<primary, master>>

Known(o) == master.link[idOf[o.provider]] # None

\* The pages of issues: those of the selected provider, or of the exchanges.
CollectSelected(o, at) ==
  /\ o.kind = "ipos" /\ o.provider \in Web /\ o.provider = primary
  /\ Stage(o, at)

CollectPages(o, at) ==
  /\ o.kind = "ipos" /\ o.provider \in Pages \ Web /\ primary = None
  /\ Stage(o, at)

\* Bids are collected until three days after the window, for the issues that are
\* published and for those that are staged and carry the symbol.
CollectBids(o, at) ==
  /\ o.kind = "subscriptions" /\ o.provider \in Consolidated
  /\ DayOf(now + 1) \in opens .. closes + 3
  /\ \/ Known(o)
     \/ \E i \in DOMAIN rows : /\ rows[i].kind = "ipos" /\ rows[i].status = "PENDING"
                               /\ idOf[rows[i].provider] = idOf[o.provider]
  /\ Stage(o, at)

\* The demand page of BSE, of an issue that is shown as open or closed.
CollectDemand(o, at) ==
  /\ o.kind = "subscriptions" /\ o.provider \in Pages \ Web
  /\ Known(o) /\ master.issue[master.link[idOf[o.provider]]].status \in {"OPEN", "CLOSED"}
  /\ Stage(o, at)

\* The closes of a day, of companies that are known.
CollectCloses(o, at) ==
  /\ o.kind = "prices" /\ o.provider \in Pages \ Web
  /\ Known(o) /\ o.value.day <= DayOf(now + 1)
  /\ Stage(o, at)

\* An approved feed; its issues count while no provider of issues is selected.
CollectFeed(o, at) ==
  /\ o.provider \notin Pages \cup Consolidated
  /\ o.kind = "ipos" => primary = None
  /\ o.kind = "prices" => Known(o) /\ o.value.day <= DayOf(now + 1)
  /\ Stage(o, at)

Collect(o, at) ==
  \/ CollectSelected(o, at) \/ CollectPages(o, at) \/ CollectFeed(o, at)
  \/ CollectBids(o, at) \/ CollectDemand(o, at) \/ CollectCloses(o, at)

\* An administrator gives a company an identifier.
Link(x, c) ==
  /\ master.link[x] = None /\ c \in Companies(master)
  /\ master' = [master EXCEPT !.link[x] = c]
  /\ UNCHANGED <<now, primary, rows>>

\* IPO_DATA_PROVIDER is changed.
SelectProvider(p) ==
  /\ p # primary /\ primary' = p
  /\ UNCHANGED <<now, rows, master>>

Next ==
  \/ \E o \in Feed, at \in 1 .. MaxNow : Collect(o, at)
  \/ \E kinds \in {IssueKinds, {"prices"}} : PublishJob(kinds) \/ RetryRejected(kinds)
  \/ \E x \in Identifier, c \in Owner : Link(x, c)
  \/ \E p \in Web \cup {None} : SelectProvider(p)

Spec == Init /\ [][Next]_vars

\* The daily job of issues publishes what it has collected of them and of the
\* demand: weak fairness of that publication while its batch has a row to decide
\* (ENABLED written out).  Staged prices are published by an administrator, when
\* one likes: the scheduled price jobs import daily files (DailyCloses) instead.
Due(kinds) ==
  \E i \in Batched(kinds, {"PENDING"}) : rows[i].status = "PENDING"
Scheduled(kinds) == <>[]Due(kinds) => []<><<PublishJob(kinds)>>_vars
FairSpec == Spec /\ Scheduled(IssueKinds)

-----------------------------------------------------------------------------
\* An issue that is shown as listed stays listed, whatever providers say of its
\* dates and its status later, and in whatever order that is published.
ListedStaysListed ==
  [][\A c \in Owner : master.issue[c].status = "LISTED" => master'.issue[c].status = "LISTED"]_vars

\* The terms of an issue are replaced by newer ones only: a retried row, another
\* provider's or a late one leaves them; and a field that is known stays known.
NewerReplaces ==
  [][\A c \in Companies(master) :
       LET old == master.issue[c]
           new == master'.issue[c] IN
       \A field \in {"price", "listing"} :
         new[field] # old[field] => new.at > old.at /\ new[field] # Missing]_vars

\* The summary of a day on an exchange is the latest snapshot that its provider
\* gave of that day on that exchange.
DayIsOfItsSource ==
  \A d \in master.daily :
    /\ d.snapshot \in master.snapshots
    /\ DayOf(d.snapshot.at) = d.day /\ d.snapshot.exchange = d.exchange
    /\ \A s \in master.snapshots :
         (/\ s.owner = d.owner /\ s.provider = d.snapshot.provider
          /\ s.exchange = d.exchange /\ DayOf(s.at) = d.day)
           => s.at <= d.snapshot.at

\* Once NSE's close of a day is published it is the close of that day, or a newer
\* one of NSE is: rows of BSE, retried, late or of other providers, never take its
\* place.  A licensed or an unofficial close may, if it is as new and is published:
\* the code ranks no authority but these two.
ClosePublished(i) == rows[i].kind = "prices" /\ rows[i].status = "PUBLISHED"
ClosesSameDay(j, i) ==
  /\ ClosePublished(j) /\ rows[j].value.day = rows[i].value.day
  /\ master.link[idOf[rows[j].provider]] = master.link[idOf[rows[i].provider]]

NseCloseStands ==
  \A i \in DOMAIN rows : ClosePublished(i) /\ rows[i].authority = "NSE" =>
    \/ \E e \in master.eod : /\ e.owner = master.link[idOf[rows[i].provider]]
                             /\ e.day = rows[i].value.day /\ e.exchange = "NSE" /\ e.at >= rows[i].at
    \/ \E j \in DOMAIN rows : /\ ClosesSameDay(j, i)
                              /\ rows[j].authority \notin Exchange /\ rows[j].at >= rows[i].at

\* What is staged of issues and of demand is decided, also behind rows that are
\* rejected for ever.
Waiting(i) == i \in DOMAIN rows /\ rows[i].kind \in IssueKinds /\ rows[i].status = "PENDING"
StagedIsDecided == \A i \in 1 .. MaxRows : Waiting(i) ~> ~Waiting(i)
=============================================================================
