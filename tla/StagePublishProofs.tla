------------------------- MODULE StagePublishProofs -------------------------
(***************************************************************************)
(* Proofs about the publication of staged rows, for every set of           *)
(* providers, every feed, window and size of a batch.  What one row keeps  *)
(* is proved first (RowKeeps), carried along a batch by its least          *)
(* counterexample (BatchKeeps) and then past the lifecycle that ends it.   *)
(***************************************************************************)
EXTENDS StagePublish, WellFoundedInduction, TLAPS

\* The types of the tables.
StatusOfRow == {"PENDING", "PUBLISHED", "REJECTED", "FALLBACK_NOT_NEEDED"}
Entry(kind, values) ==
  [kind : {kind}, provider : Provider, authority : Authority, value : values,
   at : Nat, status : StatusOfRow]
StageRow == Entry("ipos", Terms) \cup Entry("subscriptions", Demand) \cup Entry("prices", Close)
Word == {None, "OPEN", "LISTED", "WITHDRAWN"}
IssueRow ==
  [source : Provider \cup {None}, at : Nat, price : Nat, listing : Nat,
   official : Word, status : Word \cup {"UPCOMING", "CLOSED"}, verified : BOOLEAN]
Snapshot == [owner : Owner, provider : Provider, exchange : Authority, value : Demand, at : Nat]
DaySummary == [owner : Owner, day : Nat, exchange : Authority, snapshot : Snapshot]
DayClose ==
  [owner : Owner, day : Nat, exchange : Authority, provider : Provider, close : Nat, at : Nat]
Tables ==
  [issue : [Owner -> IssueRow], link : [Identifier -> Owner \cup {None}],
   snapshots : SUBSET Snapshot, daily : SUBSET DaySummary, eod : SUBSET DayClose]

RowsType(rs, t) == rs \in Seq(StageRow) /\ \A i \in DOMAIN rs : rs[i].at <= t
SnapshotsArePast(m, t) == \A s \in m.snapshots : s.at <= t

\* What is shown as listed has a reason to be.
Proved(issue, t) ==
  (issue.status = "LISTED" /\ issue.source # None)
    => \/ issue.official = "LISTED"
       \/ issue.official # "WITHDRAWN" /\ issue.listing # Missing /\ DayOf(t) >= issue.listing
ListedIsProved(m, t) == \A c \in Owner : Proved(m.issue[c], t)

\* DayIsOfItsSource, of any tables.
OfSource(d, m) ==
  /\ d.snapshot \in m.snapshots
  /\ DayOf(d.snapshot.at) = d.day /\ d.snapshot.exchange = d.exchange
  /\ \A s \in m.snapshots :
       (/\ s.owner = d.owner /\ s.provider = d.snapshot.provider
        /\ s.exchange = d.exchange /\ DayOf(s.at) = d.day)
         => s.at <= d.snapshot.at
DaysAreOfTheirSource(m) == \A d \in m.daily : OfSource(d, m)

\* NseCloseStands, of any tables and rows: the owner of a published close is known,
\* NSE's closes stand or have given way to a published close of another authority,
\* and so has every close in the tables that is of no exchange.
NseClose(m, owner, day, at) ==
  \E e \in m.eod : e.owner = owner /\ e.day = day /\ e.exchange = "NSE" /\ e.at >= at
OwnerOf(m, r) == m.link[idOf[r.provider]]
Given(rs, i) == rs[i].kind = "prices" /\ rs[i].status = "PUBLISHED"
OtherClose(m, rs, owner, day, at) ==
  \E j \in DOMAIN rs :
    /\ Given(rs, j) /\ OwnerOf(m, rs[j]) = owner /\ rs[j].value.day = day
    /\ rs[j].authority \notin Exchange /\ rs[j].at >= at
Stands(m, rs, owner, day, at) == NseClose(m, owner, day, at) \/ OtherClose(m, rs, owner, day, at)
NseStands(m, rs) ==
  /\ \A i \in DOMAIN rs : Given(rs, i) => OwnerOf(m, rs[i]) # None
  /\ \A i \in DOMAIN rs : Given(rs, i) /\ rs[i].authority = "NSE" =>
       Stands(m, rs, OwnerOf(m, rs[i]), rs[i].value.day, rs[i].at)
  /\ \A e \in m.eod : e.exchange \notin Exchange => OtherClose(m, rs, e.owner, e.day, e.at)

\* Tables, and staged rows, as a publication may find and leaves them.
Sound(m, t) ==
  /\ m \in Tables
  /\ SnapshotsArePast(m, t) /\ ListedIsProved(m, t) /\ DaysAreOfTheirSource(m)
Good(m, rs, t) == Sound(m, t) /\ RowsType(rs, t) /\ NseStands(m, rs)

StageInv == now \in 0 .. MaxNow /\ primary \in Web \cup {None} /\ Good(master, rows, now)

\* What later tables owe to earlier ones.
IssueFollows(old, new) ==
  /\ old.status = "LISTED" => new.status = "LISTED"
  /\ old.at <= new.at
  /\ new.price # old.price => new.at > old.at /\ new.price # Missing
  /\ new.listing # old.listing => new.at > old.at /\ new.listing # Missing
Follows(old, new) ==
  /\ \A c \in Owner : IssueFollows(old.issue[c], new.issue[c])
  /\ \A x \in Identifier : old.link[x] # None => new.link[x] = old.link[x]

-----------------------------------------------------------------------------
\* Lemmas about numbers.
LEMMA LeastNatural ==
  ASSUME NEW T \in SUBSET Nat, T # {}
  PROVE  \E x \in T : \A y \in T : x <= y
<1> DEFINE R == OpToRel(<, Nat)
<1>1. IsWellFoundedOn(R, Nat)
  BY NatLessThanWellFounded
<1>2. \E x \in T : \A y \in T : ~ (<<y, x>> \in R)
  <2> HIDE DEF R
  <2> QED BY <1>1, WFMin
<1>3. PICK x \in T : \A y \in T : ~ (y < x)
  BY <1>2 DEF OpToRel
<1> QED
  BY <1>3

LEMMA Greatest ==
  ASSUME NEW k \in Nat, NEW T \in SUBSET (0 .. k), T # {}
  PROVE  \E x \in T : \A y \in T : y <= x
<1> DEFINE U == {u \in 0 .. k : k - u \in T}
<1>1. U # {}
  <2>1. PICK x \in T : TRUE
    OBVIOUS
  <2>2. k - x \in 0 .. k /\ k - (k - x) = x
    OBVIOUS
  <2> QED
    BY <2>2
<1>2. PICK u \in U : \A v \in U : u <= v
  <2>1. U \in SUBSET Nat
    OBVIOUS
  <2> HIDE DEF U
  <2> QED
    BY <1>1, <2>1, LeastNatural
<1>3. ASSUME NEW y \in T PROVE y <= k - u
  <2>1. k - y \in 0 .. k /\ k - (k - y) = y
    OBVIOUS
  <2>2. u <= k - y
    BY <1>2, <2>1
  <2> QED
    BY <2>2
<1> QED
  BY <1>3

LEMMA DayType ==
  /\ Ticks \in Nat \ {0}
  /\ \A t \in Nat : DayOf(t) \in Nat
  /\ \A t, u \in Nat : t <= u => DayOf(t) <= DayOf(u)
BY BoundAssumption DEF DayOf

\* Lemmas about what tables owe to earlier ones.
LEMMA FollowsItself ==
  ASSUME NEW m \in Tables
  PROVE  Follows(m, m)
<1>1. \A c \in Owner : m.issue[c].at \in Nat
  BY DEF Tables, IssueRow
<1> QED
  BY <1>1 DEF Follows, IssueFollows

LEMMA FollowsFurther ==
  ASSUME NEW m \in Tables, NEW n \in Tables, NEW o \in Tables, Follows(m, n), Follows(n, o)
  PROVE  Follows(m, o)
<1>1. ASSUME NEW c \in Owner
      PROVE  IssueFollows(m.issue[c], o.issue[c])
  <2>1. m.issue[c] \in IssueRow /\ n.issue[c] \in IssueRow /\ o.issue[c] \in IssueRow
    BY DEF Tables
  <2>2. IssueFollows(m.issue[c], n.issue[c]) /\ IssueFollows(n.issue[c], o.issue[c])
    BY DEF Follows
  <2> QED
    BY <2>1, <2>2 DEF IssueFollows, IssueRow
<1>2. ASSUME NEW x \in Identifier, m.link[x] # None
      PROVE  o.link[x] = m.link[x]
  BY <1>2 DEF Follows
<1> QED
  BY <1>1, <1>2 DEF Follows

\* What a row whose publication has not changed the closes owes to them.
LEMMA StandsFurther ==
  ASSUME NEW m \in Tables, NEW n \in Tables, NEW rs \in Seq(StageRow),
         NseStands(m, rs), Follows(m, n), n.eod = m.eod
  PROVE  NseStands(n, rs)
<1>1. ASSUME NEW i \in DOMAIN rs, Given(rs, i)
      PROVE  OwnerOf(n, rs[i]) = OwnerOf(m, rs[i]) /\ OwnerOf(m, rs[i]) # None
  <2>1. rs[i].provider \in Provider
    BY DEF StageRow, Entry
  <2>2. idOf[rs[i].provider] \in Identifier
    BY <2>1 DEF Identifier
  <2> QED
    BY <1>1, <2>2 DEF NseStands, OwnerOf, Follows
<1>2. ASSUME NEW owner, NEW day, NEW at, OtherClose(m, rs, owner, day, at)
      PROVE  OtherClose(n, rs, owner, day, at)
  BY <1>1, <1>2 DEF OtherClose
<1>3. ASSUME NEW owner, NEW day, NEW at, NseClose(m, owner, day, at)
      PROVE  NseClose(n, owner, day, at)
  BY <1>3 DEF NseClose
<1> QED
  BY <1>1, <1>2, <1>3 DEF NseStands, Stands

-----------------------------------------------------------------------------
\* Lemmas about what a row does to the tables.
LEMMA LinkKeeps ==
  ASSUME NEW t \in Nat, NEW m, Sound(m, t), NEW x \in Identifier, NEW c \in Owner,
         m.link[x] \in {None, c},
         NEW n, n = [m EXCEPT !.link[x] = c]
  PROVE  Sound(n, t) /\ Follows(m, n) /\ n.issue = m.issue /\ n.eod = m.eod
<1>1. m \in Tables
  BY DEF Sound
<1>2. /\ n \in Tables /\ n.issue = m.issue /\ n.snapshots = m.snapshots
      /\ n.daily = m.daily /\ n.eod = m.eod
  BY <1>1 DEF Tables
<1>3. \A y \in Identifier : m.link[y] # None => n.link[y] = m.link[y]
  BY <1>1 DEF Tables
<1>4. Sound(n, t)
  BY <1>2 DEF Sound, SnapshotsArePast, ListedIsProved, DaysAreOfTheirSource, OfSource
<1>5. Follows(m, m)
  BY <1>1, FollowsItself
<1> QED
  BY <1>2, <1>3, <1>4, <1>5 DEF Follows

\* An issue that gives way to a later one.
LEMMA IssueKeeps ==
  ASSUME NEW t \in Nat, NEW m, Sound(m, t), NEW c \in Owner, NEW issue \in IssueRow,
         Proved(issue, t), IssueFollows(m.issue[c], issue),
         NEW n, n = [m EXCEPT !.issue[c] = issue]
  PROVE  Sound(n, t) /\ Follows(m, n)
<1>1. m \in Tables
  BY DEF Sound
<1>2. /\ n \in Tables /\ n.link = m.link /\ n.snapshots = m.snapshots
      /\ n.daily = m.daily /\ n.eod = m.eod
  BY <1>1 DEF Tables
<1>3. \A d \in Owner : n.issue[d] = IF d = c THEN issue ELSE m.issue[d]
  BY <1>1 DEF Tables
<1>4. ListedIsProved(n, t)
  BY <1>3 DEF Sound, ListedIsProved
<1>5. Sound(n, t)
  BY <1>2, <1>4 DEF Sound, SnapshotsArePast, DaysAreOfTheirSource, OfSource
<1>6. Follows(m, m)
  BY <1>1, FollowsItself
<1> QED
  BY <1>2, <1>3, <1>5, <1>6 DEF Follows

LEMMA TermsKeep ==
  ASSUME NEW t \in Nat, NEW issue \in IssueRow, NEW r \in Entry("ipos", Terms), ~Stale(issue, r)
  PROVE  /\ Updated(issue, r) \in IssueRow
         /\ Proved(Updated(issue, r), t) /\ IssueFollows(issue, Updated(issue, r))
<1>1. /\ r.at \in Nat /\ r.provider \in Provider /\ r.authority \in Authority
      /\ r.value.price \in Nat /\ r.value.listing \in Nat
      /\ r.value.official \in {"OPEN", "LISTED", "WITHDRAWN"}
  BY DEF Entry, Terms
<1>2. Official(issue, r) \in Word \ {None} /\ (issue.status = "LISTED" => Official(issue, r) = "LISTED")
  BY <1>1 DEF Official, Word, None
<1>3. /\ Kept(r.value.price, issue.price) \in Nat /\ Kept(r.value.listing, issue.listing) \in Nat
      /\ Kept(r.value.price, issue.price) # issue.price => Kept(r.value.price, issue.price) # Missing
      /\ Kept(r.value.listing, issue.listing) # issue.listing
           => Kept(r.value.listing, issue.listing) # Missing
  BY <1>1 DEF Kept, IssueRow
<1>4. issue.at < r.at
  BY <1>1 DEF Stale, IssueRow
<1>5. Updated(issue, r) \in IssueRow
  BY <1>1, <1>2, <1>3 DEF Updated, IssueRow
<1>6. Proved(Updated(issue, r), t)
  BY DEF Updated, Proved
<1>7. IssueFollows(issue, Updated(issue, r))
  BY <1>1, <1>2, <1>3, <1>4 DEF Updated, IssueFollows, IssueRow
<1> QED
  BY <1>5, <1>6, <1>7

\* What a row leaves: sound tables that follow those it found, and a status.
Leaves(m, done, t) ==
  Sound(done.master, t) /\ Follows(m, done.master) /\ done.status \in StatusOfRow

LEMMA NothingChanges ==
  ASSUME NEW t \in Nat, NEW m, Sound(m, t), NEW status \in StatusOfRow
  PROVE  Leaves(m, Done(m, status), t)
<1>1. Follows(m, m)
  BY FollowsItself DEF Sound
<1> QED
  BY <1>1 DEF Leaves, Done

LEMMA IngestIssueKeeps ==
  ASSUME NEW t \in Nat, NEW m, Sound(m, t), NEW r \in Entry("ipos", Terms)
  PROVE  Leaves(m, IngestIssue(m, r), t)
<1> DEFINE found == Matches(m, r)
           c == IF found = {} THEN r.provider ELSE CHOOSE d \in found : TRUE
           issue == m.issue[c]
           checked == found # {} /\ OnlyChecked(issue, r)
           x == idOf[r.provider]
           linked == [m EXCEPT !.link[x] = c]
           updated == [linked EXCEPT !.issue[c] = Updated(issue, r)]
<1>1. m \in Tables /\ r.provider \in Provider
  BY DEF Sound, Entry
<1>2. x \in Identifier
  BY <1>1 DEF Identifier
<1>3. found \subseteq Owner
  BY <1>1, <1>2 DEF Matches, ByName, Companies, Tables
<1>4. c \in Owner
  BY <1>1, <1>3 DEF Owner
<1>5. m.link[x] \in {None, c}
  BY DEF Matches
<1>6. Sound(linked, t) /\ Follows(m, linked) /\ linked.issue = m.issue
  <2> HIDE DEF c, x
  <2> QED
    BY <1>2, <1>4, <1>5, LinkKeeps
<1>7. Leaves(m, Done(linked, "PUBLISHED"), t)
  BY <1>6 DEF Leaves, Done, StatusOfRow
<1>8. ASSUME ~Stale(issue, r)
      PROVE  Leaves(m, Done(updated, "PUBLISHED"), t)
  <2>1. issue \in IssueRow
    BY <1>1, <1>4 DEF Tables
  <2>2. /\ Updated(issue, r) \in IssueRow
        /\ Proved(Updated(issue, r), t) /\ IssueFollows(issue, Updated(issue, r))
    BY <1>8, <2>1, TermsKeep
  <2>3. Sound(updated, t) /\ Follows(linked, updated)
    BY <1>4, <1>6, <2>2, IssueKeeps
  <2>4. Follows(m, updated)
    BY <1>6, <2>3, FollowsFurther DEF Sound
  <2> QED
    BY <2>3, <2>4 DEF Leaves, Done, StatusOfRow
<1>9. Leaves(m, Done(m, "REJECTED"), t) /\ Leaves(m, Done(m, "PUBLISHED"), t)
  BY NothingChanges DEF StatusOfRow
<1>10. \/ IngestIssue(m, r) = Done(m, "REJECTED") \/ IngestIssue(m, r) = Done(m, "PUBLISHED")
       \/ IngestIssue(m, r) = Done(linked, "PUBLISHED")
       \/ ~Stale(issue, r) /\ IngestIssue(m, r) = Done(updated, "PUBLISHED")
  BY DEF IngestIssue
<1> QED
  BY <1>7, <1>8, <1>9, <1>10

\* Terms and demand leave the closes.
LEMMA ClosesAreLeft ==
  ASSUME NEW m \in Tables, NEW r
  PROVE  IngestIssue(m, r).master.eod = m.eod /\ IngestDemand(m, r).master.eod = m.eod
<1>1. IngestIssue(m, r).master.eod = m.eod
  BY DEF IngestIssue, Done, Tables
<1>2. IngestDemand(m, r).master.eod = m.eod
  BY DEF IngestDemand, Done, Tables
<1> QED
  BY <1>1, <1>2

\* Demand that is not overdue is the latest of its provider.
LEMMA NotOverdue ==
  ASSUME NEW t \in Nat, NEW m, Sound(m, t), NEW c, NEW r, r.at \in Nat, ~Overdue(m, c, r)
  PROVE  \A s \in m.snapshots : s.owner = c /\ s.provider = r.provider => s.at <= r.at
<1> DEFINE Mine(s) == s.owner = c /\ s.provider = r.provider
           T == {a \in 0 .. t : \E s \in m.snapshots : Mine(s) /\ s.at = a}
<1>1. \A s \in m.snapshots : s.at \in 0 .. t
  BY DEF Sound, SnapshotsArePast, Tables, Snapshot
<1> SUFFICES ASSUME NEW s \in m.snapshots, Mine(s), ~(s.at <= r.at)
             PROVE  FALSE
  OBVIOUS
<1>2. s.at \in T
  BY <1>1
<1>3. PICK a \in T : \A b \in T : b <= a
  <2>1. T \in SUBSET (0 .. t) /\ T # {}
    BY <1>2
  <2> HIDE DEF T
  <2> QED
    BY <2>1, Greatest
<1>4. PICK u \in m.snapshots : Mine(u) /\ u.at = a
  OBVIOUS
<1>5. \A v \in m.snapshots : Mine(v) => v.at <= u.at
  BY <1>1, <1>3, <1>4
<1>6. u \in Latest(m, c, r.provider)
  BY <1>4, <1>5 DEF Latest
<1>7. u.at > r.at
  BY <1>1, <1>4, <1>5
<1> QED
  BY <1>6, <1>7 DEF Overdue

LEMMA IngestDemandKeeps ==
  ASSUME NEW t \in Nat, NEW m, Sound(m, t), NEW r \in Entry("subscriptions", Demand), r.at <= t
  PROVE  Leaves(m, IngestDemand(m, r), t)
<1> DEFINE c == m.link[idOf[r.provider]]
           snapshot == [owner |-> c, provider |-> r.provider,
                        exchange |-> r.authority, value |-> r.value, at |-> r.at]
           Summary(d) == d.owner = c /\ d.day = DayOf(r.at) /\ d.exchange = r.authority
           summary == [owner |-> c, day |-> DayOf(r.at), exchange |-> r.authority,
                       snapshot |-> snapshot]
           n == [m EXCEPT !.snapshots = @ \cup {snapshot},
                          !.daily = {d \in @ : ~Summary(d)} \cup {summary}]
<1>1. /\ m \in Tables /\ r.provider \in Provider /\ r.authority \in Authority
      /\ r.value \in Demand /\ r.at \in Nat
  BY DEF Sound, Entry
<1>2. /\ n.issue = m.issue /\ n.link = m.link /\ n.eod = m.eod
      /\ n.snapshots = m.snapshots \cup {snapshot}
      /\ n.daily = {d \in m.daily : ~Summary(d)} \cup {summary}
  BY <1>1 DEF Tables
<1>3. ASSUME c # None, ~Overdue(m, c, r)
      PROVE  Sound(n, t)
  <2>1. c \in Owner
    BY <1>1, <1>3 DEF Tables, Identifier
  <2>2. snapshot \in Snapshot
    BY <1>1, <2>1 DEF Snapshot
  <2>3. summary \in DaySummary
    BY <1>1, <2>1, <2>2, DayType DEF DaySummary
  <2>4. n \in Tables
    BY <1>1, <2>2, <2>3 DEF Tables
  <2>5. SnapshotsArePast(n, t)
    BY <1>2 DEF Sound, SnapshotsArePast
  <2>6. OfSource(summary, n)
    <3>1. \A s \in m.snapshots : s.owner = c /\ s.provider = r.provider => s.at <= r.at
      BY <1>1, <1>3, NotOverdue
    <3> QED
      BY <1>1, <1>2, <3>1 DEF OfSource
  <2>7. ASSUME NEW d \in m.daily, ~Summary(d)
        PROVE  OfSource(d, n)
    <3>1. OfSource(d, m)
      BY DEF Sound, DaysAreOfTheirSource
    <3> QED
      BY <1>2, <2>7, <3>1 DEF OfSource
  <2>8. DaysAreOfTheirSource(n)
    BY <1>2, <2>6, <2>7 DEF DaysAreOfTheirSource
  <2> QED
    BY <1>2, <2>4, <2>5, <2>8 DEF Sound, ListedIsProved
<1>4. Follows(m, n)
  <2>1. Follows(m, m)
    BY <1>1, FollowsItself
  <2> QED
    BY <1>2, <2>1 DEF Follows
<1>5. c # None /\ ~Overdue(m, c, r) => Leaves(m, Done(n, "PUBLISHED"), t)
  BY <1>3, <1>4 DEF Leaves, Done, StatusOfRow
<1>6. Leaves(m, Done(m, "REJECTED"), t) /\ Leaves(m, Done(m, "PUBLISHED"), t)
  BY NothingChanges DEF StatusOfRow
<1>7. \/ IngestDemand(m, r) = Done(m, "REJECTED") \/ IngestDemand(m, r) = Done(m, "PUBLISHED")
      \/ c # None /\ ~Overdue(m, c, r) /\ IngestDemand(m, r) = Done(n, "PUBLISHED")
  BY DEF IngestDemand
<1> QED
  BY <1>5, <1>6, <1>7

\* What a row does to the closes: one that is published is of a known company, and
\* what it adds is its own; NSE's gives way to NSE's, or to another authority's.
OwnClose(e, owner, r) == e.owner = owner /\ e.day = r.value.day
RowCloses(m, r, done) ==
  LET n == done.master
      owner == OwnerOf(n, r)
      published == r.kind = "prices" /\ done.status = "PUBLISHED" IN
  /\ published => owner # None
  /\ \A e \in n.eod :
       \/ e \in m.eod
       \/ published /\ OwnClose(e, owner, r) /\ e.exchange = r.authority /\ e.at = r.at
  /\ \A e \in m.eod : e.exchange = "NSE" =>
       \/ NseClose(n, e.owner, e.day, e.at)
       \/ published /\ OwnClose(e, owner, r) /\ r.authority \notin Exchange /\ r.at >= e.at
  /\ published /\ r.authority = "NSE" =>
       \/ NseClose(n, owner, r.value.day, r.at)
       \/ \E e \in m.eod : OwnClose(e, owner, r) /\ e.exchange \notin Exchange /\ e.at >= r.at

LEMMA ClosesTrivially ==
  ASSUME NEW m \in Tables, NEW r, NEW done, done.master.eod = m.eod,
         r.kind = "prices" => done.status # "PUBLISHED"
  PROVE  RowCloses(m, r, done)
<1>1. \A e \in m.eod : e.at \in Nat
  BY DEF Tables, DayClose
<1> QED
  BY <1>1 DEF RowCloses, NseClose

\* A close: what NSE said of the day stands, and stands in for what BSE said.
LEMMA IngestCloseKeeps ==
  ASSUME NEW t \in Nat, NEW m, Sound(m, t), NEW r \in Entry("prices", Close),
         NEW done, done = IngestClose(m, r)
  PROVE  Leaves(m, done, t) /\ RowCloses(m, r, done)
<1> DEFINE x == idOf[r.provider]
           c == m.link[x]
           issue == [m.issue[c] EXCEPT !.status = "LISTED",
                       !.official = IF m.issue[c].status = "LISTED" THEN @ ELSE "LISTED"]
           listed == [m EXCEPT !.issue[c] = issue]
           known == {e \in m.eod : e.owner = c /\ e.day = r.value.day}
           entry == [owner |-> c, day |-> r.value.day, exchange |-> r.authority,
                     provider |-> r.provider, close |-> r.value.close, at |-> r.at]
           n == [listed EXCEPT !.eod = (@ \ known) \cup {entry}]
           Newer == \A e \in known : Replaces(r.authority, e) \/ ~ (e.at >= r.at)
           Stays == ~ \E e \in known : Fallback(e, r.authority)
<1>1. /\ m \in Tables /\ r.provider \in Provider /\ r.authority \in Authority
      /\ r.value.day \in Nat /\ r.value.close \in Nat /\ r.at \in Nat
  BY DEF Sound, Entry, Close
<1>2. x \in Identifier
  BY <1>1 DEF Identifier
<1>3. c # None => c \in Owner
  BY <1>1, <1>2 DEF Tables
<1>4. \/ done = Done(m, "REJECTED")
      \/ c # None /\ done = Done(listed, "FALLBACK_NOT_NEEDED") /\ ~Stays
      \/ c # None /\ done = Done(listed, "PUBLISHED") /\ ~Newer
      \/ c # None /\ done = Done(n, "PUBLISHED") /\ Stays /\ Newer
  BY DEF IngestClose
<1>5. ASSUME c # None
      PROVE  Sound(listed, t) /\ Follows(m, listed)
  <2>1. m.issue[c] \in IssueRow
    BY <1>1, <1>3, <1>5 DEF Tables
  <2>2. issue \in IssueRow
    BY <2>1 DEF IssueRow, Word
  <2>3. Proved(m.issue[c], t)
    BY <1>3, <1>5 DEF Sound, ListedIsProved
  <2>4. Proved(issue, t)
    BY <2>1, <2>3 DEF Proved, IssueRow
  <2>5. IssueFollows(m.issue[c], issue)
    BY <2>1 DEF IssueFollows, IssueRow
  <2> HIDE DEF issue, c
  <2> QED
    BY <1>3, <1>5, <2>2, <2>4, <2>5, IssueKeeps
<1>6. /\ listed.link = m.link /\ listed.snapshots = m.snapshots
      /\ listed.daily = m.daily /\ listed.eod = m.eod
  BY <1>1 DEF Tables
<1>7. /\ n.issue = listed.issue /\ n.link = m.link /\ n.snapshots = m.snapshots
      /\ n.daily = m.daily /\ n.eod = (m.eod \ known) \cup {entry}
  BY <1>1, <1>6 DEF Tables
<1>8. ASSUME c # None, Stays, Newer
      PROVE  Sound(n, t) /\ Follows(m, n)
  <2>1. entry \in DayClose
    BY <1>1, <1>3, <1>8 DEF DayClose
  <2>2. n \in Tables
    BY <1>1, <1>5, <1>8, <2>1 DEF Sound, Tables
  <2>3. Sound(n, t)
    BY <1>5, <1>6, <1>7, <1>8, <2>2
       DEF Sound, SnapshotsArePast, ListedIsProved, DaysAreOfTheirSource, OfSource
  <2> QED
    BY <1>5, <1>7, <1>8, <2>3 DEF Follows
<1>9. Leaves(m, done, t)
  <2>1. Leaves(m, Done(m, "REJECTED"), t)
    BY NothingChanges DEF StatusOfRow
  <2>2. c # None => /\ Leaves(m, Done(listed, "FALLBACK_NOT_NEEDED"), t)
                    /\ Leaves(m, Done(listed, "PUBLISHED"), t)
    BY <1>5 DEF Leaves, Done, StatusOfRow
  <2>3. c # None /\ Stays /\ Newer => Leaves(m, Done(n, "PUBLISHED"), t)
    BY <1>8 DEF Leaves, Done, StatusOfRow
  <2> QED
    BY <1>4, <2>1, <2>2, <2>3
<1>10. \A e \in m.eod : e.at \in Nat
  BY <1>1 DEF Tables, DayClose
<1>11. CASE done = Done(m, "REJECTED") \/ done = Done(listed, "FALLBACK_NOT_NEEDED")
  <2>1. done.master.eod = m.eod /\ done.status # "PUBLISHED"
    <3> HIDE DEF listed
    <3> QED
      BY <1>6, <1>11 DEF Done
  <2> QED
    BY <1>1, <1>9, <2>1, ClosesTrivially
<1>12. CASE c # None /\ done = Done(listed, "PUBLISHED") /\ ~Newer
  <2> HIDE DEF n, listed
  <2>1. /\ done.master = listed /\ done.master.eod = m.eod /\ done.status = "PUBLISHED"
        /\ OwnerOf(done.master, r) = c
    BY <1>6, <1>12 DEF Done, OwnerOf
  <2>2. ASSUME r.authority = "NSE"
        PROVE  \E e \in m.eod : /\ OwnClose(e, c, r) /\ e.at >= r.at
                                /\ e.exchange = "NSE" \/ e.exchange \notin Exchange
    <3>1. PICK e \in known : ~Replaces(r.authority, e) /\ e.at >= r.at
      BY <1>12
    <3>2. e.exchange = "NSE" \/ e.exchange \notin Exchange
      BY <2>2, <3>1 DEF Exchange, Replaces
    <3> QED
      BY <3>1, <3>2 DEF OwnClose
  <2>3. \A e \in m.eod : e.exchange = "NSE" => NseClose(listed, e.owner, e.day, e.at)
    BY <1>10, <2>1 DEF NseClose
  <2>4. r.authority = "NSE" =>
          \/ NseClose(listed, c, r.value.day, r.at)
          \/ \E e \in m.eod : OwnClose(e, c, r) /\ e.exchange \notin Exchange /\ e.at >= r.at
    BY <2>1, <2>2 DEF NseClose, OwnClose
  <2> HIDE DEF c
  <2>5. /\ OwnerOf(listed, r) = c /\ listed.eod = m.eod
    BY <2>1
  <2> QED
    BY <1>9, <1>12, <2>1, <2>3, <2>4, <2>5 DEF RowCloses
<1>13. CASE c # None /\ done = Done(n, "PUBLISHED") /\ Stays /\ Newer
  <2> HIDE DEF n, listed
  <2>1. done.master = n /\ done.status = "PUBLISHED" /\ OwnerOf(n, r) = c
    BY <1>7, <1>13 DEF Done, OwnerOf
  <2>2. /\ entry.owner = c /\ entry.day = r.value.day /\ entry.exchange = r.authority
        /\ entry.at = r.at /\ entry.at \in Nat
    BY <1>1
  <2>3. ASSUME NEW e \in m.eod, e.exchange = "NSE"
        PROVE  \/ NseClose(n, e.owner, e.day, e.at)
               \/ OwnClose(e, c, r) /\ r.authority \notin Exchange /\ r.at >= e.at
    <3>1. CASE e \notin known
      <4>1. e \in n.eod
        BY <1>7, <3>1
      <4> QED
        BY <1>10, <2>3, <4>1 DEF NseClose
    <3>2. CASE e \in known
      <4>1. r.authority # "BSE"
        BY <1>13, <2>3, <3>2 DEF Fallback
      <4>2. r.at >= e.at
        BY <1>1, <1>10, <1>13, <2>3, <3>2 DEF Replaces
      <4>3. CASE r.authority = "NSE"
        <5>1. entry \in n.eod
          BY <1>7
        <5> HIDE DEF entry
        <5> QED
          BY <2>2, <3>2, <4>2, <4>3, <5>1 DEF NseClose
      <4> QED
        BY <3>2, <4>1, <4>2, <4>3 DEF Exchange, OwnClose
    <3> QED
      BY <3>1, <3>2
  <2>4. r.authority = "NSE" => NseClose(n, c, r.value.day, r.at)
    <3>1. entry \in n.eod
      BY <1>7
    <3> HIDE DEF entry
    <3> QED
      BY <2>2, <3>1 DEF NseClose
  <2>5. \A e \in n.eod : \/ e \in m.eod
                         \/ OwnClose(e, c, r) /\ e.exchange = r.authority /\ e.at = r.at
    <3> HIDE DEF entry
    <3> QED
      BY <1>7, <2>2 DEF OwnClose
  <2>6. r.kind = "prices"
    BY DEF Entry
  <2> HIDE DEF c
  <2> QED
    BY <1>9, <1>13, <2>1, <2>3, <2>4, <2>5, <2>6 DEF RowCloses
<1> HIDE DEF n, listed, Newer, Stays
<1> QED
  BY <1>4, <1>11, <1>12, <1>13

-----------------------------------------------------------------------------
\* Lemmas about a row and a batch.
LEMMA RowKeeps ==
  ASSUME NEW t \in Nat, NEW m, Sound(m, t), NEW r \in StageRow, r.at <= t
  PROVE  Leaves(m, PublishRow(m, r), t) /\ RowCloses(m, r, PublishRow(m, r))
<1>1. m \in Tables
  BY DEF Sound
<1>2. CASE NotNeeded(r)
  <2>1. PublishRow(m, r) = Done(m, "FALLBACK_NOT_NEEDED")
    BY <1>2 DEF PublishRow
  <2>2. Leaves(m, Done(m, "FALLBACK_NOT_NEEDED"), t)
    BY NothingChanges DEF StatusOfRow
  <2>3. RowCloses(m, r, Done(m, "FALLBACK_NOT_NEEDED"))
    BY <1>1, ClosesTrivially DEF Done
  <2> QED
    BY <2>1, <2>2, <2>3
<1>3. CASE ~NotNeeded(r) /\ r \in Entry("ipos", Terms)
  <2>1. r.kind = "ipos"
    BY <1>3 DEF Entry
  <2>2. PublishRow(m, r) = IngestIssue(m, r)
    BY <1>3, <2>1 DEF PublishRow
  <2>3. RowCloses(m, r, IngestIssue(m, r))
    BY <1>1, <2>1, ClosesAreLeft, ClosesTrivially
  <2> QED
    BY <1>3, <2>2, <2>3, IngestIssueKeeps
<1>4. CASE ~NotNeeded(r) /\ r \in Entry("subscriptions", Demand)
  <2>1. r.kind = "subscriptions"
    BY <1>4 DEF Entry
  <2>2. PublishRow(m, r) = IngestDemand(m, r)
    BY <1>4, <2>1 DEF PublishRow
  <2>3. RowCloses(m, r, IngestDemand(m, r))
    BY <1>1, <2>1, ClosesAreLeft, ClosesTrivially
  <2> QED
    BY <1>4, <2>2, <2>3, IngestDemandKeeps
<1>5. CASE ~NotNeeded(r) /\ r \in Entry("prices", Close)
  <2>1. r.kind = "prices"
    BY <1>5 DEF Entry
  <2>2. PublishRow(m, r) = IngestClose(m, r)
    BY <1>5, <2>1 DEF PublishRow
  <2> QED
    BY <1>5, <2>2, IngestCloseKeeps
<1> QED
  BY <1>2, <1>3, <1>4, <1>5 DEF StageRow

\* A publication changes the status of rows and nothing else of them.
SameRows(rs) ==
  /\ rs \in Seq(StageRow) /\ DOMAIN rs = DOMAIN rows
  /\ \A i \in DOMAIN rows :
       /\ rs[i].kind = rows[i].kind /\ rs[i].provider = rows[i].provider
       /\ rs[i].authority = rows[i].authority /\ rs[i].value = rows[i].value
       /\ rs[i].at = rows[i].at

\* What a publication has made of the tables and the rows so far.
Reached(known) ==
  Good(known.master, known.rows, now) /\ Follows(master, known.master) /\ SameRows(known.rows)

\* A row that is published for the first time leaves every close of NSE its standing.
LEMMA StandsAfterRow ==
  ASSUME NEW m \in Tables, NEW n \in Tables, NEW rs \in Seq(StageRow), NEW news \in Seq(StageRow),
         NEW i \in DOMAIN rs, NEW r \in StageRow, NEW done, done.master = n,
         NseStands(m, rs), Follows(m, n), RowCloses(m, r, done), ~Given(rs, i),
         DOMAIN news = DOMAIN rs, \A j \in DOMAIN rs : j # i => news[j] = rs[j],
         news[i] = [r EXCEPT !.status = done.status]
  PROVE  NseStands(n, news)
<1> DEFINE owner == OwnerOf(n, r)
           published == r.kind = "prices" /\ done.status = "PUBLISHED"
<1>1. /\ news[i].kind = r.kind /\ news[i].provider = r.provider /\ news[i].value = r.value
      /\ news[i].authority = r.authority /\ news[i].at = r.at /\ news[i].status = done.status
  BY DEF StageRow, Entry
<1>2. (Given(news, i) <=> published) /\ OwnerOf(n, news[i]) = owner
  BY <1>1 DEF Given, OwnerOf
<1>3. ASSUME NEW j \in DOMAIN rs, Given(rs, j)
      PROVE  /\ j # i /\ news[j] = rs[j] /\ Given(news, j)
             /\ OwnerOf(n, rs[j]) = OwnerOf(m, rs[j]) /\ OwnerOf(m, rs[j]) # None
  <2>1. j # i /\ news[j] = rs[j] /\ Given(news, j)
    BY <1>3 DEF Given
  <2>2. idOf[rs[j].provider] \in Identifier
    BY DEF StageRow, Entry, Identifier
  <2> QED
    BY <1>3, <2>1, <2>2 DEF NseStands, OwnerOf, Follows
<1>4. ASSUME NEW j \in DOMAIN rs, j # i, Given(news, j)
      PROVE  Given(rs, j)
  BY <1>4 DEF Given
<1>5. \A j \in DOMAIN news : news[j].at \in Nat /\ rs[j].at \in Nat
  BY DEF StageRow, Entry
<1>6. \A e \in m.eod : e.at \in Nat
  BY DEF Tables, DayClose
<1>7. ASSUME NEW o, NEW day, NEW at \in Nat, OtherClose(m, rs, o, day, at)
      PROVE  OtherClose(n, news, o, day, at)
  BY <1>3, <1>7 DEF OtherClose
<1>8. ASSUME NEW e \in m.eod, e.exchange \notin Exchange
      PROVE  OtherClose(n, news, e.owner, e.day, e.at)
  BY <1>6, <1>7, <1>8 DEF NseStands
<1>9. ASSUME NEW o, NEW day, NEW at \in Nat, NseClose(m, o, day, at)
      PROVE  Stands(n, news, o, day, at)
  <2>1. PICK e \in m.eod : e.owner = o /\ e.day = day /\ e.exchange = "NSE" /\ e.at >= at
    BY <1>9 DEF NseClose
  <2>2. CASE NseClose(n, e.owner, e.day, e.at)
    <3>1. PICK f \in n.eod : /\ f.owner = o /\ f.day = day /\ f.exchange = "NSE"
                             /\ f.at >= e.at
      BY <2>1, <2>2 DEF NseClose
    <3>2. f.at \in Nat
      BY DEF Tables, DayClose
    <3>3. f.at >= at
      BY <1>6, <2>1, <3>1, <3>2
    <3> QED
      BY <3>1, <3>3 DEF Stands, NseClose
  <2>3. CASE published /\ OwnClose(e, owner, r) /\ r.authority \notin Exchange /\ r.at >= e.at
    <3> HIDE DEF owner, published
    <3>1. news[i].at >= at
      <4>1. e.at \in Nat /\ r.at \in Nat /\ news[i].at = r.at
        BY <1>1, <1>5, <1>6
      <4> QED
        BY <2>1, <2>3, <4>1
    <3> QED
      BY <1>1, <1>2, <2>1, <2>3, <3>1 DEF Stands, OtherClose, OwnClose
  <2> QED
    BY <2>1, <2>2, <2>3 DEF RowCloses
<1>10. ASSUME NEW j \in DOMAIN news, Given(news, j)
       PROVE  OwnerOf(n, news[j]) # None
  <2>1. CASE j = i
    BY <1>2, <1>10, <2>1 DEF RowCloses
  <2>2. CASE j # i
    BY <1>3, <1>4, <1>10, <2>2
  <2> QED
    BY <2>1, <2>2
<1>11. ASSUME NEW j \in DOMAIN news, Given(news, j), news[j].authority = "NSE"
       PROVE  Stands(n, news, OwnerOf(n, news[j]), news[j].value.day, news[j].at)
  <2>1. CASE j # i
    <3>1. j \in DOMAIN rs /\ Given(rs, j) /\ news[j] = rs[j] /\ OwnerOf(n, news[j]) = OwnerOf(m, rs[j])
      BY <1>3, <1>4, <1>11, <2>1
    <3>2. Stands(m, rs, OwnerOf(m, rs[j]), rs[j].value.day, rs[j].at)
      BY <1>11, <3>1 DEF NseStands
    <3> QED
      BY <1>5, <1>7, <1>9, <3>1, <3>2 DEF Stands
  <2>2. CASE j = i
    <3>1. CASE NseClose(n, owner, r.value.day, r.at)
      BY <1>1, <1>2, <2>2, <3>1 DEF Stands
    <3>2. CASE \E e \in m.eod : OwnClose(e, owner, r) /\ e.exchange \notin Exchange /\ e.at >= r.at
      <4>1. PICK e \in m.eod : OwnClose(e, owner, r) /\ e.exchange \notin Exchange /\ e.at >= r.at
        BY <3>2
      <4>2. PICK k \in DOMAIN news :
              /\ Given(news, k) /\ OwnerOf(n, news[k]) = owner /\ news[k].value.day = r.value.day
              /\ news[k].authority \notin Exchange /\ news[k].at >= e.at
        BY <1>8, <4>1 DEF OtherClose, OwnClose
      <4> HIDE DEF owner
      <4>3. news[k].at >= r.at
        <5>1. e.at \in Nat /\ r.at \in Nat /\ news[k].at \in Nat
          BY <1>1, <1>5, <1>6
        <5> QED
          BY <4>1, <4>2, <5>1
      <4> QED
        BY <1>1, <1>2, <2>2, <4>2, <4>3 DEF Stands, OtherClose
    <3>3. published /\ r.authority = "NSE"
      BY <1>1, <1>2, <1>11, <2>2
    <3> QED
      BY <3>1, <3>2, <3>3 DEF RowCloses
  <2> QED
    BY <2>1, <2>2
<1>12. ASSUME NEW e \in n.eod, e.exchange \notin Exchange
       PROVE  OtherClose(n, news, e.owner, e.day, e.at)
  <2>1. CASE e \in m.eod
    BY <1>8, <1>12, <2>1
  <2>2. CASE published /\ OwnClose(e, owner, r) /\ e.exchange = r.authority /\ e.at = r.at
    <3> HIDE DEF owner, published
    <3>1. news[i].at >= e.at
      <4>1. r.at \in Nat /\ news[i].at = r.at
        BY <1>1, <1>5
      <4> QED
        BY <2>2, <4>1
    <3> QED
      BY <1>1, <1>2, <1>12, <2>2, <3>1 DEF OtherClose, OwnClose
  <2> QED
    BY <2>1, <2>2 DEF RowCloses
<1> QED
  BY <1>10, <1>11, <1>12 DEF NseStands

LEMMA PublishedKeeps ==
  ASSUME StageInv, NEW known, Reached(known), NEW i \in DOMAIN rows,
         known.rows[i].status # "PUBLISHED"
  PROVE  /\ Reached(Published(known, i))
         /\ \A j \in DOMAIN rows : j # i => Published(known, i).rows[j] = known.rows[j]
<1> DEFINE m == known.master
           rs == known.rows
           r == rows[i]
           done == PublishRow(m, r)
           news == [rs EXCEPT ![i].status = done.status]
<1>1. /\ now \in Nat /\ rows \in Seq(StageRow) /\ r \in StageRow /\ r.at <= now /\ master \in Tables
  BY DEF StageInv, Good, Sound, RowsType
<1>2. Sound(m, now) /\ rs \in Seq(StageRow) /\ DOMAIN rs = DOMAIN rows
  BY DEF Reached, Good, SameRows
<1>3. Leaves(m, done, now) /\ RowCloses(m, r, done)
  BY <1>1, <1>2, RowKeeps
<1>4. Published(known, i) = [master |-> done.master, rows |-> news]
  BY DEF Published
<1> HIDE DEF done
<1>5. Sound(done.master, now) /\ Follows(m, done.master) /\ done.status \in StatusOfRow
  BY <1>3 DEF Leaves
<1>6. \A j \in DOMAIN rows : news[j] = IF j = i THEN [rs[i] EXCEPT !.status = done.status] ELSE rs[j]
  BY <1>2
<1>7. news \in Seq(StageRow) /\ DOMAIN news = DOMAIN rows
  <2>1. rs[i] \in StageRow
    BY <1>2
  <2>2. [rs[i] EXCEPT !.status = done.status] \in StageRow
    BY <1>5, <2>1 DEF StageRow, Entry
  <2> QED
    BY <1>2, <2>2
<1>8. SameRows(news)
  <2>1. \A j \in DOMAIN rows : /\ rs[j].kind = rows[j].kind /\ rs[j].provider = rows[j].provider
                               /\ rs[j].authority = rows[j].authority
                               /\ rs[j].value = rows[j].value /\ rs[j].at = rows[j].at
    BY DEF Reached, SameRows
  <2>2. rs[i] \in StageRow
    BY <1>2
  <2>3. LET s == [rs[i] EXCEPT !.status = done.status] IN
        /\ s.kind = rs[i].kind /\ s.provider = rs[i].provider /\ s.authority = rs[i].authority
        /\ s.value = rs[i].value /\ s.at = rs[i].at /\ s.status = done.status
    BY <2>2 DEF StageRow, Entry
  <2> QED
    BY <1>6, <1>7, <2>1, <2>3 DEF SameRows
<1>9. Follows(master, done.master)
  BY <1>1, <1>2, <1>5, FollowsFurther DEF Reached, Sound
<1>10. NseStands(done.master, news)
  <2>1. m \in Tables /\ done.master \in Tables /\ NseStands(m, rs)
    BY <1>2, <1>5 DEF Reached, Good, Sound
  <2>2. ~Given(rs, i)
    BY DEF Given
  <2>3. news[i] = [r EXCEPT !.status = done.status]
    <3>1. /\ rs[i].kind = r.kind /\ rs[i].provider = r.provider /\ rs[i].authority = r.authority
          /\ rs[i].value = r.value /\ rs[i].at = r.at
      BY DEF Reached, SameRows
    <3>2. rs[i] \in StageRow
      BY <1>2
    <3>3. [rs[i] EXCEPT !.status = done.status] = [r EXCEPT !.status = done.status]
      BY <1>1, <3>1, <3>2 DEF StageRow, Entry
    <3> QED
      BY <1>6, <3>3
  <2>4. \A j \in DOMAIN rs : j # i => news[j] = rs[j]
    BY <1>2, <1>6
  <2> HIDE DEF m, rs, news, r
  <2> QED
    BY <1>1, <1>2, <1>3, <1>5, <1>7, <2>1, <2>2, <2>3, <2>4, StandsAfterRow
<1>11. RowsType(news, now)
  BY <1>7, <1>8 DEF StageInv, Good, RowsType, SameRows
<1> QED
  BY <1>4, <1>5, <1>6, <1>8, <1>9, <1>10, <1>11 DEF Reached, Good

\* The tables of a batch exist: the recursion of After is well defined.
LEMMA AfterIsDefined ==
  ASSUME StageInv, NEW batch \in SUBSET (DOMAIN rows)
  PROVE  /\ After(batch)[0] = [master |-> master, rows |-> rows]
         /\ \A n \in 1 .. Len(rows) : After(batch)[n] = NthRow(batch, n, After(batch)[n - 1])
<1> DEFINE first == [master |-> master, rows |-> rows]
           Is(g, k) == g = [n \in 0 .. k |-> IF n = 0 THEN first ELSE NthRow(batch, n, g[n - 1])]
           Undefined == {k \in Nat : ~ \E g : Is(g, k)}
<1>1. Undefined = {}
  <2> SUFFICES ASSUME Undefined # {} PROVE FALSE
    OBVIOUS
  <2>1. PICK k \in Undefined : \A j \in Undefined : k <= j
    <3>1. Undefined \in SUBSET Nat
      OBVIOUS
    <3> HIDE DEF Undefined
    <3> QED
      BY <3>1, LeastNatural
  <2>2. CASE k = 0
    <3>1. Is([n \in 0 .. 0 |-> first], 0)
      OBVIOUS
    <3> QED
      BY <2>2, <3>1
  <2>3. CASE k # 0
    <3>1. k - 1 \in Nat /\ k - 1 \notin Undefined
      BY <2>1, <2>3
    <3>2. PICK g : Is(g, k - 1)
      BY <3>1
    <3> DEFINE h == [n \in 0 .. k |-> IF n = k THEN NthRow(batch, k, g[k - 1]) ELSE g[n]]
    <3>3. ASSUME NEW n \in 0 .. k
          PROVE  h[n] = IF n = 0 THEN first ELSE NthRow(batch, n, h[n - 1])
      <4>1. CASE n = k
        BY <2>3, <4>1
      <4>2. CASE n # k /\ n = 0
        BY <3>1, <3>2, <4>2
      <4>3. CASE n # k /\ n # 0
        <5>1. n \in 0 .. k - 1 /\ n - 1 \in 0 .. k - 1 /\ n - 1 # k
          BY <4>3
        <5>2. h[n] = g[n] /\ h[n - 1] = g[n - 1]
          BY <5>1, <4>3
        <5>3. g[n] = NthRow(batch, n, g[n - 1])
          BY <3>2, <4>3, <5>1
        <5> QED
          BY <4>3, <5>2, <5>3
      <4> QED
        BY <4>1, <4>2, <4>3
    <3>4. Is(h, k)
      <4> HIDE DEF h
      <4>1. h = [n \in 0 .. k |-> h[n]]
        BY DEF h
      <4> QED
        BY <3>3, <4>1
    <3> QED
      BY <3>4
  <2> QED
    BY <2>2, <2>3
<1>2. Len(rows) \in Nat
  BY DEF StageInv, Good, RowsType
<1>3. \E g : Is(g, Len(rows))
  BY <1>1, <1>2
<1>4. Is(After(batch), Len(rows))
  BY <1>3 DEF After
<1> QED
  BY <1>2, <1>4

\* Every row of a batch has one turn: until then its status is the one it was taken with.
LEMMA BatchKeeps ==
  ASSUME StageInv, NEW batch \in SUBSET (DOMAIN rows),
         \A i \in batch : rows[i].status # "PUBLISHED"
  PROVE  Reached(After(batch)[Len(rows)])
<1> DEFINE k(n) == After(batch)[n]
           Rank(i) == Cardinality({j \in batch : Precedes(j, i)})
           Untouched(n) ==
             \A i \in batch : Rank(i) \notin 0 .. n - 1 => k(n).rows[i].status = rows[i].status
           Bad == {n \in 0 .. Len(rows) : ~(Reached(k(n)) /\ Untouched(n))}
<1>1. Len(rows) \in Nat /\ master \in Tables
  BY DEF StageInv, Good, RowsType, Sound
<1>2. Reached(k(0)) /\ Untouched(0)
  <2>1. k(0) = [master |-> master, rows |-> rows]
    BY AfterIsDefined
  <2>2. Follows(master, master)
    BY <1>1, FollowsItself
  <2> HIDE DEF k
  <2> QED
    BY <2>1, <2>2 DEF Reached, StageInv, Good, SameRows, RowsType
<1>3. ASSUME NEW n \in 1 .. Len(rows), Reached(k(n - 1)), Untouched(n - 1)
      PROVE  Reached(k(n)) /\ Untouched(n)
  <2>1. k(n) = NthRow(batch, n, k(n - 1))
    BY AfterIsDefined
  <2>2. ASSUME NEW i \in batch, Rank(i) \notin 0 .. n - 1
        PROVE  /\ k(n - 1).rows[i].status = rows[i].status
               /\ i \notin Turn(batch, n)
    <3>1. Rank(i) \notin 0 .. (n - 1) - 1 /\ Rank(i) # n - 1
      <4> HIDE DEF Rank
      <4> QED
        BY <2>2
    <3> QED
      BY <1>3, <3>1 DEF Turn
  <2>3. CASE Turn(batch, n) = {}
    <3>1. k(n) = k(n - 1)
      BY <2>1, <2>3 DEF NthRow
    <3> HIDE DEF k, Rank
    <3> QED
      BY <1>3, <2>2, <3>1
  <2>4. CASE Turn(batch, n) # {}
    <3>1. PICK i : i \in Turn(batch, n) /\ k(n) = Published(k(n - 1), i)
      BY <2>1, <2>4 DEF NthRow
    <3>2. i \in batch /\ i \in DOMAIN rows /\ Rank(i) = n - 1
      BY <3>1 DEF Turn
    <3>3. Rank(i) \notin 0 .. (n - 1) - 1
      <4> HIDE DEF Rank
      <4> QED
        BY <3>2
    <3>4. k(n - 1).rows[i].status # "PUBLISHED"
      BY <1>3, <3>2, <3>3
    <3> HIDE DEF k, Rank
    <3>5. /\ Reached(k(n))
          /\ \A j \in DOMAIN rows : j # i => k(n).rows[j] = k(n - 1).rows[j]
      BY <1>3, <3>1, <3>2, <3>4, PublishedKeeps
    <3> QED
      BY <2>2, <3>1, <3>5
  <2> QED
    BY <2>3, <2>4
<1> HIDE DEF k, Untouched
<1>4. Bad = {}
  <2> SUFFICES ASSUME Bad # {} PROVE FALSE
    OBVIOUS
  <2>1. PICK n \in Bad : \A j \in Bad : n <= j
    <3>1. Bad \in SUBSET Nat
      BY <1>1
    <3> HIDE DEF Bad
    <3> QED
      BY <3>1, LeastNatural
  <2>2. n # 0
    BY <1>2
  <2>3. n - 1 \in 0 .. Len(rows) /\ n - 1 \notin Bad
    BY <1>1, <2>1, <2>2
  <2> QED
    BY <1>1, <1>3, <2>1, <2>2, <2>3
<1>5. Reached(k(Len(rows)))
  BY <1>1, <1>4
<1> QED
  BY <1>5 DEF k

LEMMA LifecycleKeeps ==
  ASSUME NEW t \in Nat, NEW issue \in IssueRow, issue.source # None, Proved(issue, t),
         NEW new, new = [issue EXCEPT !.status = Lifecycle(issue, DayOf(t))]
  PROVE  new \in IssueRow /\ Proved(new, t) /\ IssueFollows(issue, new)
<1>1. DayOf(t) \in Nat /\ opens \in Nat /\ closes \in Nat /\ issue.listing \in Nat
  BY DayType, WindowAssumption DEF IssueRow
<1>2. Lifecycle(issue, DayOf(t)) \in {"CLOSED", "LISTED", "UPCOMING", "OPEN"}
  BY DEF Lifecycle
<1>3. issue.status = "LISTED" => Lifecycle(issue, DayOf(t)) = "LISTED"
  BY <1>1 DEF Proved, Lifecycle
<1>4. Lifecycle(issue, DayOf(t)) = "LISTED"
        => \/ issue.official = "LISTED"
           \/ issue.official # "WITHDRAWN" /\ issue.listing # Missing /\ DayOf(t) >= issue.listing
  BY <1>1 DEF Lifecycle
<1>5. new \in IssueRow /\ new.status = Lifecycle(issue, DayOf(t)) /\ new.official = issue.official
      /\ new.listing = issue.listing /\ new.price = issue.price /\ new.at = issue.at
  BY <1>2 DEF IssueRow, Word
<1>6. Proved(new, t)
  BY <1>4, <1>5 DEF Proved
<1>7. IssueFollows(issue, new)
  BY <1>3, <1>5 DEF IssueFollows, IssueRow
<1> QED
  BY <1>5, <1>6, <1>7

LEMMA ReconciledKeeps ==
  ASSUME now \in Nat, NEW m, Sound(m, now)
  PROVE  Sound(Reconciled(m), now) /\ Follows(m, Reconciled(m)) /\ Reconciled(m).eod = m.eod
<1> DEFINE n == Reconciled(m)
           New(c) == [m.issue[c] EXCEPT !.status = Lifecycle(m.issue[c], DayOf(now))]
<1>1. m \in Tables
  BY DEF Sound
<1>2. /\ n.link = m.link /\ n.snapshots = m.snapshots /\ n.daily = m.daily /\ n.eod = m.eod
      /\ n.issue = [c \in Owner |-> IF m.issue[c].source = None THEN m.issue[c] ELSE New(c)]
      /\ n = [issue |-> n.issue, link |-> m.link, snapshots |-> m.snapshots,
              daily |-> m.daily, eod |-> m.eod]
  BY <1>1 DEF Reconciled, Tables
<1>3. ASSUME NEW c \in Owner
      PROVE  /\ n.issue[c] \in IssueRow
             /\ Proved(n.issue[c], now) /\ IssueFollows(m.issue[c], n.issue[c])
  <2>1. m.issue[c] \in IssueRow /\ Proved(m.issue[c], now)
    BY <1>1 DEF Tables, Sound, ListedIsProved
  <2>2. CASE m.issue[c].source = None
    <3>1. IssueFollows(m.issue[c], m.issue[c])
      BY <2>1 DEF IssueFollows, IssueRow
    <3> QED
      BY <1>2, <2>1, <2>2, <3>1
  <2>3. CASE m.issue[c].source # None
    <3>1. n.issue[c] = New(c)
      BY <1>2, <2>3
    <3> QED
      BY <2>1, <2>3, <3>1, LifecycleKeeps
  <2> QED
    BY <2>2, <2>3
<1> HIDE DEF n
<1>4. n \in Tables
  BY <1>1, <1>2, <1>3 DEF Tables
<1>5. Sound(n, now)
  BY <1>2, <1>3, <1>4
     DEF Sound, SnapshotsArePast, ListedIsProved, DaysAreOfTheirSource, OfSource
<1>6. Follows(m, m)
  BY <1>1, FollowsItself
<1>7. Follows(m, n)
  BY <1>2, <1>3, <1>6 DEF Follows
<1> QED
  BY <1>2, <1>5, <1>7 DEF n

-----------------------------------------------------------------------------
\* The steps.
LEMMA TimePasses ==
  ASSUME NEW t \in Nat, NEW u \in Nat, t <= u, NEW m, Sound(m, t)
  PROVE  Sound(m, u)
<1>1. SnapshotsArePast(m, u)
  <2>1. \A s \in m.snapshots : s.at \in Nat
    BY DEF Sound, Tables, Snapshot
  <2> QED
    BY <2>1 DEF Sound, SnapshotsArePast
<1>2. ListedIsProved(m, u)
  <2> SUFFICES ASSUME NEW c \in Owner PROVE Proved(m.issue[c], u)
    BY DEF ListedIsProved
  <2>1. Proved(m.issue[c], t) /\ m.issue[c].listing \in Nat
    BY DEF Sound, ListedIsProved, Tables, IssueRow
  <2>2. DayOf(t) \in Nat /\ DayOf(u) \in Nat /\ DayOf(t) <= DayOf(u)
    BY DayType
  <2> QED
    BY <2>1, <2>2 DEF Proved
<1> QED
  BY <1>1, <1>2 DEF Sound

LEMMA FeedType ==
  ASSUME NEW o \in Feed, NEW at \in Nat,
         NEW r, r = [kind |-> o.kind, provider |-> o.provider, authority |-> o.authority,
                     value |-> o.value, at |-> at, status |-> "PENDING"]
  PROVE  r \in StageRow
<1>1. o \in Observation /\ Pages \subseteq Provider
  BY FeedAssumption
<1>2. Web \subseteq Provider /\ Consolidated \subseteq Provider
  BY ProviderAssumption
<1>3. PageTerms \subseteq Terms
  BY DEF PageTerms, Terms, Missing
<1>4. \/ o \in Of("ipos", Provider, Authority, Terms)
      \/ o \in Of("subscriptions", Provider, Authority, Demand)
      \/ o \in Of("prices", Provider, Authority, Close)
  <2>1. CASE o \in NsePage \cup BsePage \cup WatchPage
    BY <1>1, <1>2, <1>3, <2>1 DEF NsePage, BsePage, WatchPage, Of, Authority, Exchange
  <2>2. CASE o \in NseBids \cup BseBids
    BY <1>1, <1>2, <2>2 DEF NseBids, BseBids, Of, Authority, Exchange
  <2>3. CASE o \in FeedRows
    BY <2>3 DEF FeedRows, Feeds, Of, Authority
  <2>4. CASE o \in DailyCloses
    BY <1>1, <2>4 DEF DailyCloses, Of, Authority
  <2> QED
    BY <1>1, <2>1, <2>2, <2>3, <2>4 DEF Observation
<1> QED
  BY <1>4 DEF StageRow, Entry, Of, StatusOfRow

LEMMA InitGood == Init => StageInv
<1> SUFFICES ASSUME Init PROVE StageInv
  OBVIOUS
<1>1. master \in Tables
  <2>1. NoIssue \in IssueRow /\ [NoIssue EXCEPT !.status = "OPEN"] \in IssueRow
    BY DEF NoIssue, IssueRow, Word, Missing
  <2>2. PICK curated \in IssueRow :
          master = [issue |-> [c \in Owner |-> IF c = "admin" THEN curated ELSE NoIssue],
                    link |-> [x \in Identifier |-> None],
                    snapshots |-> {}, daily |-> {}, eod |-> {}]
    BY <2>1 DEF Init
  <2> QED
    BY <2>1, <2>2 DEF Tables
<1>2. master.snapshots = {} /\ master.daily = {} /\ master.eod = {} /\ rows = <<>> /\ now = 0
      /\ primary = None
  BY DEF Init
<1>3. \A c \in Owner : master.issue[c].source = None
  BY DEF Init, NoIssue
<1> QED
  BY <1>1, <1>2, <1>3, BoundAssumption
     DEF StageInv, Good, Sound, SnapshotsArePast, ListedIsProved, Proved, DaysAreOfTheirSource,
         RowsType, NseStands

LEMMA StageKeeps ==
  ASSUME StageInv, NEW o \in Feed, NEW at \in 1 .. MaxNow, Stage(o, at)
  PROVE  StageInv' /\ Follows(master, master')
<1> DEFINE r == [kind |-> o.kind, provider |-> o.provider, authority |-> o.authority,
                 value |-> o.value, at |-> at, status |-> "PENDING"]
<1>1. /\ now \in Nat /\ now' \in 0 .. MaxNow /\ now' \in Nat /\ now <= now' /\ at <= now'
      /\ master' = master /\ primary' = primary /\ at \in Nat
      /\ rows' = rows \/ rows' = Append(rows, r)
  BY BoundAssumption DEF StageInv, Stage
<1>2. Sound(master', now')
  BY <1>1, TimePasses DEF StageInv, Good
<1>3. r \in StageRow
  BY <1>1, FeedType
<1>4. Follows(master, master')
  BY <1>1, FollowsItself DEF StageInv, Good, Sound
<1>5. rows \in Seq(StageRow)
  BY DEF StageInv, Good, RowsType
<1>6. \A i \in DOMAIN rows' : \/ i \in DOMAIN rows /\ rows'[i] = rows[i]
                              \/ rows'[i] = r
  BY <1>1, <1>3, <1>5
<1>7. rows' \in Seq(StageRow)
  BY <1>1, <1>3, <1>5
<1>8. RowsType(rows', now')
  <2>1. \A i \in DOMAIN rows : rows[i].at <= now /\ rows[i].at \in Nat
    BY <1>5 DEF StageInv, Good, RowsType, StageRow, Entry
  <2> QED
    BY <1>1, <1>6, <1>7, <2>1 DEF RowsType
<1>9. \A i \in DOMAIN rows : i \in DOMAIN rows' /\ rows'[i] = rows[i]
  BY <1>1, <1>3, <1>5
<1>10. NseStands(master', rows')
  <2>1. \A i \in DOMAIN rows' : Given(rows', i) => i \in DOMAIN rows /\ rows'[i] = rows[i]
    BY <1>6 DEF Given
  <2>2. NseStands(master, rows)
    BY DEF StageInv, Good
  <2>3. ASSUME NEW owner, NEW day, NEW t, OtherClose(master, rows, owner, day, t)
        PROVE  OtherClose(master, rows', owner, day, t)
    BY <1>9, <2>3 DEF OtherClose, Given
  <2> QED
    BY <1>1, <2>1, <2>2, <2>3 DEF NseStands, Stands, Given
<1> QED
  BY <1>1, <1>2, <1>4, <1>8, <1>10 DEF StageInv, Good

LEMMA PublishKeeps ==
  ASSUME StageInv, NEW kinds, NEW states, "PUBLISHED" \notin states, Publish(kinds, states)
  PROVE  StageInv' /\ Follows(master, master')
<1> DEFINE batch == Batched(kinds, states)
           last == After(batch)[Len(rows)]
<1>1. batch \in SUBSET (DOMAIN rows) /\ \A i \in batch : rows[i].status # "PUBLISHED"
  BY DEF Batched, Awaiting
<1>2. Reached(last)
  <2> HIDE DEF batch
  <2> QED
    BY <1>1, BatchKeeps
<1>3. rows' = last.rows /\ master' = Reconciled(last.master) /\ now' = now /\ primary' = primary
  BY DEF Publish
<1> HIDE DEF last
<1>4. now \in Nat /\ Good(last.master, last.rows, now) /\ Follows(master, last.master)
  BY <1>2 DEF Reached, StageInv
<1>5. Sound(master', now) /\ Follows(last.master, master') /\ master'.eod = last.master.eod
  BY <1>3, <1>4, ReconciledKeeps DEF Good
<1>6. Follows(master, master')
  BY <1>4, <1>5, FollowsFurther DEF StageInv, Good, Sound
<1>7. NseStands(master', rows')
  BY <1>3, <1>4, <1>5, StandsFurther DEF Good, Sound, RowsType
<1>8. RowsType(rows', now')
  BY <1>3, <1>4 DEF Good
<1> QED
  BY <1>3, <1>5, <1>6, <1>7, <1>8 DEF StageInv, Good

LEMMA NextKeeps ==
  ASSUME StageInv, [Next]_vars
  PROVE  StageInv' /\ Follows(master, master')
<1>1. master \in Tables /\ Follows(master, master) /\ Sound(master, now) /\ now \in Nat
  BY FollowsItself DEF StageInv, Good, Sound
<1>2. ASSUME NEW o \in Feed, NEW at \in 1 .. MaxNow, Collect(o, at)
      PROVE  StageInv' /\ Follows(master, master')
  <2>1. Stage(o, at)
    BY <1>2 DEF Collect, CollectSelected, CollectPages, CollectFeed, CollectBids,
                CollectDemand, CollectCloses
  <2> QED
    BY <2>1, StageKeeps
<1>3. ASSUME NEW kinds \in {IssueKinds, {"prices"}}, PublishJob(kinds) \/ RetryRejected(kinds)
      PROVE  StageInv' /\ Follows(master, master')
  BY <1>3, PublishKeeps DEF PublishJob, RetryRejected
<1>4. ASSUME NEW x \in Identifier, NEW c \in Owner, Link(x, c)
      PROVE  StageInv' /\ Follows(master, master')
  <2>1. /\ master' = [master EXCEPT !.link[x] = c] /\ master.link[x] = None
        /\ now' = now /\ primary' = primary /\ rows' = rows
    BY <1>4 DEF Link
  <2>2. Sound(master', now) /\ Follows(master, master') /\ master'.eod = master.eod
    BY <1>1, <2>1, LinkKeeps
  <2>3. NseStands(master', rows)
    BY <1>1, <2>2, StandsFurther DEF StageInv, Good, Sound, RowsType
  <2> QED
    BY <2>1, <2>2, <2>3 DEF StageInv, Good
<1>5. ASSUME NEW p \in Web \cup {None}, SelectProvider(p)
      PROVE  StageInv' /\ Follows(master, master')
  BY <1>1, <1>5 DEF SelectProvider, StageInv
<1>6. CASE UNCHANGED vars
  BY <1>1, <1>6 DEF vars, StageInv
<1> QED
  BY <1>2, <1>3, <1>4, <1>5, <1>6 DEF Next

-----------------------------------------------------------------------------
\* Types, what is shown as listed, the summaries of a day and NSE's closes: what a
\* publication may find it leaves, and every other step as well.
THEOREM StageInvariant == Spec => []StageInv
<1>1. Init => StageInv
  BY InitGood
<1>2. StageInv /\ [Next]_vars => StageInv'
  BY NextKeeps
<1> QED
  BY <1>1, <1>2, PTL DEF Spec

\* The type invariant of the module.
THEOREM StageTypes == Spec => []TypeOK
<1>1. StageInv => TypeOK
  <2> SUFFICES ASSUME StageInv PROVE TypeOK
    OBVIOUS
  <2>1. \A i \in DOMAIN rows : rows[i] \in StageRow
    BY DEF StageInv, Good, RowsType
  <2>2. \A i \in DOMAIN rows :
          rows[i].status \in {"PENDING", "PUBLISHED", "REJECTED", "FALLBACK_NOT_NEEDED"}
    BY <2>1 DEF StageRow, Entry, StatusOfRow
  <2>3. DOMAIN master.issue = Owner /\ master.link \in [Identifier -> Owner \cup {None}]
    BY DEF StageInv, Good, Sound, Tables
  <2> QED
    BY <2>2, <2>3 DEF StageInv, TypeOK
<1> QED
  BY <1>1, StageInvariant, PTL

\* The summary of a day on an exchange is the latest snapshot its provider gave of
\* that day there: demand that is overdue is known by the latest one (NotOverdue).
THEOREM DaysAreOfSource == Spec => []DayIsOfItsSource
<1>1. StageInv => DayIsOfItsSource
  BY DEF StageInv, Good, Sound, DaysAreOfTheirSource, OfSource, DayIsOfItsSource
<1> QED
  BY <1>1, StageInvariant, PTL

\* Once NSE's close of a day is published it is the close of that day or has given
\* way to a newer one of NSE, whatever of BSE is published, in whatever order; or a
\* close of that day from outside the exchanges that is as new is published as well.
THEOREM NseStandsForItsDay == Spec => []NseCloseStands
<1>1. StageInv => NseCloseStands
  <2> SUFFICES ASSUME StageInv PROVE NseCloseStands
    OBVIOUS
  <2> QED
    BY DEF StageInv, Good, NseStands, Stands, NseClose, OtherClose, Given, OwnerOf,
           NseCloseStands, ClosePublished, ClosesSameDay
<1> QED
  BY <1>1, StageInvariant, PTL

\* An issue that is shown as listed stays listed, whatever is published of it.
THEOREM ListedStays == Spec => ListedStaysListed
<1>1. StageInv /\ [Next]_vars =>
        [\A c \in Owner : master.issue[c].status = "LISTED" => master'.issue[c].status = "LISTED"]_vars
  BY NextKeeps DEF Follows, IssueFollows
<1> QED
  BY <1>1, StageInvariant, PTL DEF Spec, ListedStaysListed

\* The price and the listing date of an issue change only with a newer observation,
\* and neither is forgotten, from whichever provider and in whatever order.
THEOREM TermsAreNewer == Spec => NewerReplaces
<1>1. StageInv /\ [Next]_vars =>
        [\A c \in Companies(master) :
           LET old == master.issue[c]
               new == master'.issue[c] IN
           \A field \in {"price", "listing"} :
             new[field] # old[field] => new.at > old.at /\ new[field] # Missing]_vars
  <2> SUFFICES ASSUME StageInv, [Next]_vars, NEW c \in Companies(master)
               PROVE  LET old == master.issue[c]
                          new == master'.issue[c] IN
                      \A field \in {"price", "listing"} :
                        new[field] # old[field] => new.at > old.at /\ new[field] # Missing
    OBVIOUS
  <2>1. IssueFollows(master.issue[c], master'.issue[c])
    BY NextKeeps DEF Follows, Companies
  <2> QED
    BY <2>1 DEF IssueFollows
<1> QED
  BY <1>1, StageInvariant, PTL DEF Spec, NewerReplaces
=============================================================================
