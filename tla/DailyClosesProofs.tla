------------------------- MODULE DailyClosesProofs -------------------------
(***************************************************************************)
(* Proofs about DailyCloses, for every set of companies, exchanges, days,  *)
(* prices and files.  The summary needs that the last day with a close     *)
(* exists (Largest); the originals need that a name is used once, by one   *)
(* process, so that the clean-up of the other leaves its file (Working).   *)
(***************************************************************************)
EXTENDS DailyCloses, FiniteSetTheorems, WellFoundedInduction, TLAPS

USE NoneAssumption, NoWorkAssumption, DaysAssumption

\* The original of a process is its own, not named yet, and on disk once saved.
Working(p) ==
  /\ pc[p] \in {"fetched", "saved"} => work[p] # None
  /\ pc[p] = "saved" => work[p].file \in disk
  /\ work[p] # None =>
       /\ work[p].file \notin named
       /\ \A q \in Process \ {p} : work[q] # None => work[q].file # work[p].file

\* Originals go when they are old, and are purged, or about to be, when they are gone.
Originals ==
  /\ named \ disk \subseteq aged
  /\ purged \subseteq named \ disk
  /\ \A p \in Process : gone[p] \subseteq named \ disk

\* The summary of a company with a chart is of a day.
Charted == \A c \in Company : chart[c] # None => summary[c].day \in Day

IInv ==
  /\ TypeOK
  /\ \A p \in Process : Working(p)
  /\ Originals
  /\ SummaryIsLatest
  /\ Charted

-----------------------------------------------------------------------------
\* A set of days that has one has a last one.
LEMMA Largest ==
  ASSUME NEW S \in SUBSET Day, S # {}
  PROVE  \E d \in S : \A e \in S : e <= d
<1> DEFINE T == {Days - d : d \in S}
<1>1. T \subseteq Nat
  <2> SUFFICES ASSUME NEW d \in S PROVE Days - d \in Nat
    OBVIOUS
  <2> QED BY DEF Day
<1>2. T # {}
  <2>1. PICK d \in S : TRUE
    OBVIOUS
  <2> QED BY <2>1
<1> DEFINE R == OpToRel(<, Nat)
<1>3. IsWellFoundedOn(R, Nat)
  BY NatLessThanWellFounded
<1>4. \E x \in T : \A y \in T : ~(<<y, x>> \in R)
  <2> HIDE DEF T, R
  <2> QED BY <1>1, <1>2, <1>3, WFMin
<1>5. PICK x \in T : \A y \in T : ~(y < x)
  BY <1>1, <1>4 DEF OpToRel
<1>6. PICK d \in S : x = Days - d
  OBVIOUS
<1>7. ASSUME NEW e \in S PROVE e <= d
  <2>1. ~(Days - e < Days - d)
    BY <1>5, <1>6
  <2> QED BY <2>1 DEF Day
<1> QED BY <1>7

\* The closes of one company.
Closes == [Exchange -> [Day -> Price \cup {None}]]

LEMMA Latest ==
  ASSUME NEW cl \in Closes, NEW x \in Exchange, HasClose(cl, x)
  PROVE  /\ LatestDay(cl, x) \in Day
         /\ cl[x][LatestDay(cl, x)] \in Price
         /\ \A d \in Day : cl[x][d] # None => d <= LatestDay(cl, x)
<1> DEFINE S == {d \in Day : cl[x][d] # None}
<1>1. \E d \in S : \A e \in S : e <= d
  BY Largest DEF HasClose
<1>2. \E d \in Day : cl[x][d] # None /\ \A e \in Day : cl[x][e] # None => e <= d
  BY <1>1
<1>3. /\ LatestDay(cl, x) \in Day /\ cl[x][LatestDay(cl, x)] # None
      /\ \A e \in Day : cl[x][e] # None => e <= LatestDay(cl, x)
  BY <1>2 DEF LatestDay
<1> QED
  BY <1>3 DEF Closes

\* A file gives every company a price or none.
LEMMA ContentType ==
  ASSUME NEW content \in Content
  PROVE  content \in [Company -> Price \cup {None}]
<1>1. PICK rows \in SUBSET Row : content = preview(rows)
  BY DEF Content
<1>2. ASSUME NEW c \in Company PROVE content[c] \in Price \cup {None}
  <2> DEFINE of == {r \in parse(rows) : Matches(r, c)}
  <2>1. content[c] = IF Cardinality(of) = 1 THEN (CHOOSE r \in of : TRUE).close ELSE None
    BY <1>1 DEF preview
  <2>2. CASE Cardinality(of) = 1
    <3>1. of # {}
      BY <2>2, FS_EmptySet
    <3>2. (CHOOSE r \in of : TRUE) \in of
      BY <3>1
    <3>3. (CHOOSE r \in of : TRUE) \in Row
      BY <3>2 DEF parse
    <3> QED
      BY <2>1, <2>2, <3>3 DEF Row
  <2> QED
    BY <2>1, <2>2
<1>3. content = [c \in Company |-> content[c]]
  BY <1>1 DEF preview
<1> QED
  BY <1>2, <1>3

-----------------------------------------------------------------------------
\* What an import makes of the prices.
PricesOK ==
  /\ close \in [Company -> Closes]
  /\ revised \subseteq Company \X Exchange \X Day \X Price
  /\ chart \in [Company -> Exchange \cup {None}]
  /\ summary \in [Company -> [day : Day \cup {None}, price : Price] \cup {None}]
  /\ listing \in [Company -> [day : Day, exchange : Exchange, price : Price] \cup {None}]

LEMMA ListingType ==
  ASSUME NEW cl \in Closes, NEW x \in Exchange \cup {None}, NEW c \in Company, TypeOK
  PROVE  /\ ListingOf(c, cl, x) \in [day : Day, exchange : Exchange, price : Price] \cup {None}
         /\ ListingOf(c, cl, x) # None =>
              /\ x \in Exchange
              /\ ListingOf(c, cl, x).exchange = x
              /\ ListingOf(c, cl, x).price = cl[x][ListingOf(c, cl, x).day]
<1>1. listingDate[c] \in Day
  BY DEF TypeOK
<1>2. CASE x # None /\ cl[x][listingDate[c]] # None
  <2>1. x \in Exchange /\ cl[x][listingDate[c]] \in Price
    BY <1>1, <1>2 DEF Closes
  <2> QED
    BY <1>1, <1>2, <2>1 DEF ListingOf
<1>3. CASE ~(x # None /\ cl[x][listingDate[c]] # None)
  BY <1>3 DEF ListingOf
<1> QED
  BY <1>2, <1>3

\* The summary of one company after an import.
LEMMA ImportOf ==
  ASSUME TypeOK, SummaryIsLatest, Charted, NEW x \in Exchange, NEW d \in Day, NEW content \in Content,
         import_file(x, d, content), NEW c \in Company
  PROVE  /\ close'[c] \in Closes
         /\ \A y \in Exchange, e \in Day :
              /\ close'[c][y][e] # close[c][y][e] =>
                   y = x /\ e = d /\ content[c] \notin {None, close[c][x][d]}
              /\ close[c][y][e] # None => close'[c][y][e] # None
         /\ chart'[c] \in Exchange \cup {None}
         /\ chart[c] # None => chart'[c] = chart[c]
         /\ summary'[c] \in [day : Day \cup {None}, price : Price] \cup {None}
         /\ chart'[c] = None <=> \A y \in Exchange : ~HasClose(close'[c], y)
         /\ chart'[c] # None =>
              LET cl == close'[c][chart'[c]] IN
              /\ summary'[c].day \in Day /\ summary'[c].price = cl[summary'[c].day]
              /\ \A e \in Day : cl[e] # None => e <= summary'[c].day
<1> DEFINE hit == content[c] \notin {None, close[c][x][d]}
<1>1. content[c] \in Price \cup {None} /\ close[c] \in Closes /\ chart[c] \in Exchange \cup {None}
  BY ContentType DEF TypeOK, Closes
<1>2. /\ close'[c] = IF hit THEN [close[c] EXCEPT ![x][d] = content[c]] ELSE close[c]
      /\ chart'[c] = IF hit /\ OwnsChart(c, x) THEN x ELSE chart[c]
      /\ summary'[c] = IF hit /\ OwnsChart(c, x) THEN Summary(close'[c], x) ELSE summary[c]
  BY DEF import_file
<1>3. close'[c] \in Closes
  BY <1>1, <1>2 DEF Closes
<1>4. \A y \in Exchange, e \in Day :
        close'[c][y][e] = IF hit /\ y = x /\ e = d THEN content[c] ELSE close[c][y][e]
  BY <1>1, <1>2 DEF Closes
<1>5. /\ chart[c] = None <=> \A y \in Exchange : ~HasClose(close[c], y)
      /\ chart[c] # None =>
           LET cl == close[c][chart[c]] IN
           /\ summary[c].day \in Day /\ summary[c].price = cl[summary[c].day]
           /\ \A e \in Day : cl[e] # None => e <= summary[c].day
  BY DEF SummaryIsLatest, Charted
<1>6. summary[c] \in [day : Day \cup {None}, price : Price] \cup {None}
  BY DEF TypeOK
<1> HIDE DEF hit
<1>7. CASE ~hit
  BY <1>1, <1>2, <1>5, <1>6, <1>7
<1>8. CASE hit /\ OwnsChart(c, x)
  <2>1. HasClose(close'[c], x)
    BY <1>4, <1>8 DEF HasClose, hit
  <2>2. /\ LatestDay(close'[c], x) \in Day
        /\ close'[c][x][LatestDay(close'[c], x)] \in Price
        /\ \A e \in Day : close'[c][x][e] # None => e <= LatestDay(close'[c], x)
    BY <1>3, <2>1, Latest
  <2>3. chart'[c] = x /\ summary'[c] = Summary(close'[c], x)
    BY <1>2, <1>8
  <2>4. /\ summary'[c].day = LatestDay(close'[c], x)
        /\ summary'[c].price = close'[c][x][LatestDay(close'[c], x)]
        /\ summary'[c] \in [day : Day \cup {None}, price : Price]
    BY <2>2, <2>3 DEF Summary
  <2> QED
    BY <1>3, <1>4, <1>8, <2>1, <2>2, <2>3, <2>4 DEF OwnsChart, hit
<1>9. CASE hit /\ ~OwnsChart(c, x)
  <2>1. chart[c] \in Exchange /\ chart[c] # x /\ chart'[c] = chart[c] /\ summary'[c] = summary[c]
    BY <1>1, <1>2, <1>9 DEF OwnsChart
  <2>2. \A e \in Day : close'[c][chart[c]][e] = close[c][chart[c]][e]
    BY <1>4, <2>1
  <2>3. \E y \in Exchange : HasClose(close'[c], y)
    <3>1. PICK y \in Exchange, e \in Day : close[c][y][e] # None
      BY <1>5, <2>1 DEF HasClose
    <3>2. close'[c][y][e] # None
      BY <1>4, <3>1, <1>9 DEF hit
    <3> QED
      BY <3>2 DEF HasClose
  <2>4. \A y \in Exchange, e \in Day :
          /\ close'[c][y][e] # close[c][y][e] => y = x /\ e = d /\ hit
          /\ close[c][y][e] # None => close'[c][y][e] # None
    BY <1>4, <1>9 DEF hit
  <2>5. LET cl == close'[c][chart'[c]] IN
        /\ summary'[c].day \in Day /\ summary'[c].price = cl[summary'[c].day]
        /\ \A e \in Day : cl[e] # None => e <= summary'[c].day
    BY <1>5, <2>1, <2>2
  <2> QED
    BY <1>3, <1>6, <2>1, <2>3, <2>4, <2>5 DEF hit
<1> QED
  BY <1>7, <1>8, <1>9

LEMMA PricesKept ==
  ASSUME IInv, UNCHANGED <<prices, listingDate>>
  PROVE  (SummaryIsLatest /\ Charted)'
BY DEF IInv, SummaryIsLatest, Charted, HasClose, prices

LEMMA InitIInv == Init => IInv
<1> SUFFICES ASSUME Init PROVE IInv
  OBVIOUS
<1>1. TypeOK
  <2>1. 1 \in Day
    BY DEF Day
  <2>2. /\ close \in [Company -> [Exchange -> [Day -> Price \cup {None}]]]
        /\ gone \in [Process -> SUBSET File]
    BY DEF Init
  <2> QED
    BY <2>1, <2>2 DEF Init, TypeOK, Process
<1>2. \A p \in Process : Working(p)
  BY DEF Init, Working
<1>3. Originals
  BY DEF Init, Originals, Process
<1>4. SummaryIsLatest /\ Charted
  BY DEF Init, SummaryIsLatest, Charted, HasClose
<1> QED
  BY <1>1, <1>2, <1>3, <1>4 DEF IInv

-----------------------------------------------------------------------------
LEMMA BeginRunStep ==
  ASSUME IInv, NEW xs \in SUBSET Exchange, NEW d \in Day, NEW f \in File \cup {None},
         BeginRun(xs, d, f)
  PROVE  IInv'
<1>1. TypeOK'
  BY DEF BeginRun, cleanup, Expired, IInv, TypeOK, prices, Process
<1>2. ASSUME NEW p \in Process PROVE Working(p)'
  BY DEF BeginRun, cleanup, Expired, IInv, TypeOK, Working, Process
<1>3. Originals'
  BY DEF BeginRun, cleanup, Expired, OldEnough, IInv, TypeOK, Originals
<1> QED
  BY <1>1, <1>2, <1>3, PricesKept DEF BeginRun, IInv

LEMMA BeginPreviewStep ==
  ASSUME IInv, NEW x \in Exchange, NEW d \in Day, NEW content \in Content, NEW f \in File,
         BeginPreview(x, d, content, f)
  PROVE  IInv'
<1> DEFINE new == [file |-> f, exchange |-> x, day |-> d, content |-> content]
<1>1. new \in Work /\ new # None
  BY DEF Work
<1>2. work' = [work EXCEPT !["preview"] = new]
  BY DEF BeginPreview
<1>3. TypeOK'
  BY <1>1, <1>2 DEF BeginPreview, cleanup, Expired, IInv, TypeOK, prices, task, Process
<1>4. /\ work'["preview"].file = f /\ work'["job"] = work["job"]
      /\ f \notin named /\ (work["job"] # None => work["job"].file # f)
  BY <1>2 DEF BeginPreview, Unused, IInv, TypeOK, Process
<1>5. ASSUME NEW p \in Process PROVE Working(p)'
  <2>1. CASE p = "preview"
    BY <1>1, <1>2, <1>4, <2>1 DEF BeginPreview, IInv, TypeOK, Working, Process
  <2>2. CASE p = "job"
    BY <1>4, <2>2 DEF BeginPreview, cleanup, Expired, IInv, TypeOK, Working, Process
  <2> QED
    BY <2>1, <2>2 DEF Process
<1>6. Originals'
  BY DEF BeginPreview, cleanup, Expired, OldEnough, IInv, TypeOK, Originals
<1> QED
  BY <1>3, <1>5, <1>6, PricesKept DEF BeginPreview, IInv

LEMMA LeaveStep ==
  ASSUME IInv, NEW x \in Exchange, LeaveSource(x)
  PROVE  IInv'
<1>1. TypeOK'
  BY DEF LeaveSource, CommitPurge, IInv, TypeOK, prices, Process
<1>2. \A p \in Process : Working(p)'
  BY DEF LeaveSource, IInv, Working
<1>3. Originals'
  BY DEF LeaveSource, CommitPurge, IInv, TypeOK, Originals, Process
<1> QED
  BY <1>1, <1>2, <1>3, PricesKept DEF LeaveSource, IInv

LEMMA FetchStep ==
  ASSUME IInv, NEW x \in Exchange, NEW f \in File, NEW content \in Content,
         FetchSource(x, f, content)
  PROVE  IInv'
<1> DEFINE new == [file |-> f, exchange |-> x, day |-> day, content |-> content]
<1>1. new \in Work /\ new # None
  BY DEF Work, IInv, TypeOK
<1>2. work' = [work EXCEPT !["job"] = new]
  BY DEF FetchSource
<1>3. TypeOK'
  BY <1>1, <1>2 DEF FetchSource, IInv, TypeOK, files, prices, Process
<1>4. /\ work'["job"].file = f /\ work'["preview"] = work["preview"]
      /\ f \notin named /\ (work["preview"] # None => work["preview"].file # f)
  BY <1>2 DEF FetchSource, Unused, IInv, TypeOK, Process
<1>5. ASSUME NEW p \in Process PROVE Working(p)'
  <2>1. CASE p = "job"
    BY <1>1, <1>2, <1>4, <2>1 DEF FetchSource, IInv, TypeOK, Working, Process, files
  <2>2. CASE p = "preview"
    BY <1>4, <2>2 DEF FetchSource, IInv, TypeOK, Working, Process, files
  <2> QED
    BY <2>1, <2>2 DEF Process
<1>6. Originals'
  BY DEF FetchSource, IInv, Originals, files
<1> QED
  BY <1>3, <1>5, <1>6, PricesKept DEF FetchSource, IInv

LEMMA SaveStep ==
  ASSUME IInv, NEW p \in Process, SaveOriginal(p)
  PROVE  IInv'
<1>1. work[p] \in Work
  BY DEF SaveOriginal, IInv, TypeOK, Working
<1>2. TypeOK'
  BY <1>1 DEF SaveOriginal, IInv, TypeOK, prices, task, Work
<1>3. ASSUME NEW q \in Process PROVE Working(q)'
  BY DEF SaveOriginal, IInv, TypeOK, Working
<1>4. Originals'
  BY DEF SaveOriginal, IInv, TypeOK, Working, Originals
<1> QED
  BY <1>2, <1>3, <1>4, PricesKept DEF SaveOriginal, IInv

\* The files and processes after a commit that names an original.
LEMMA CommitFileStep ==
  ASSUME IInv, NEW p \in Process, NEW next \in {"idle", "source"}, CommitFile(p, next)
  PROVE  /\ work[p] \in Work /\ UNCHANGED <<aged, disk, listingDate, task>>
         /\ named' \subseteq File /\ purged' \subseteq File
         /\ gone' \in [Process -> SUBSET File] /\ work' \in [Process -> Work \cup {None}]
         /\ pc' \in [Process -> {"idle", "source", "fetched", "saved"}]
         /\ (\A q \in Process : Working(q))' /\ Originals'
<1>1. work[p] \in Work /\ work[p].file \in File /\ work[p].file \in disk
  BY DEF CommitFile, IInv, TypeOK, Working, Work
<1>2. /\ UNCHANGED <<aged, disk, listingDate, task>>
      /\ named' = named \cup {work[p].file}
      /\ work' = [work EXCEPT ![p] = None] /\ pc' = [pc EXCEPT ![p] = next]
      /\ purged' = purged \cup gone[p] /\ gone' = [gone EXCEPT ![p] = {}]
  BY DEF CommitFile, CommitPurge
<1>3. ASSUME NEW q \in Process PROVE Working(q)'
  <2>1. CASE q = p
    BY <1>2, <2>1 DEF IInv, TypeOK, Working
  <2>2. CASE q # p
    <3>1. /\ pc'[q] = pc[q] /\ work'[q] = work[q]
          /\ \A o \in Process : work'[o] # None => work'[o] = work[o]
      BY <1>2, <2>2 DEF IInv, TypeOK
    <3>2. work[q] # None => work[q].file \notin named'
      BY <1>1, <1>2, <2>2 DEF IInv, Working
    <3> QED
      BY <1>2, <3>1, <3>2 DEF IInv, Working
  <2> QED
    BY <2>1, <2>2
<1>4. Originals'
  BY <1>1, <1>2 DEF IInv, TypeOK, Originals
<1>5. /\ named' \subseteq File /\ purged' \subseteq File
      /\ gone' \in [Process -> SUBSET File] /\ work' \in [Process -> Work \cup {None}]
      /\ pc' \in [Process -> {"idle", "source", "fetched", "saved"}]
  BY <1>1, <1>2 DEF IInv, TypeOK
<1> QED
  BY <1>1, <1>2, <1>3, <1>4, <1>5

LEMMA ImportStep ==
  ASSUME IInv, CommitImport
  PROVE  IInv'
<1> DEFINE x == work["job"].exchange
           d == work["job"].day
           content == work["job"].content
<1>1. /\ "job" \in Process /\ CommitFile("job", "source") /\ UNCHANGED uploaded
      /\ import_file(x, d, content)
  BY DEF CommitImport, Process
<1>2. x \in Exchange /\ d \in Day /\ content \in Content
  BY <1>1, CommitFileStep DEF Work
<1>3. TypeOK /\ SummaryIsLatest /\ Charted
  BY DEF IInv
<1> HIDE DEF x, d, content
<1>4. \A c \in Company :
        /\ close'[c] \in Closes
        /\ chart'[c] \in Exchange \cup {None}
        /\ summary'[c] \in [day : Day \cup {None}, price : Price] \cup {None}
        /\ chart'[c] = None <=> \A y \in Exchange : ~HasClose(close'[c], y)
        /\ chart'[c] # None =>
             LET cl == close'[c][chart'[c]] IN
             /\ summary'[c].day \in Day /\ summary'[c].price = cl[summary'[c].day]
             /\ \A e \in Day : cl[e] # None => e <= summary'[c].day
  BY <1>1, <1>2, <1>3, ImportOf
<1>5. \A c \in Company : listing'[c] = ListingOf(c, close'[c], chart'[c])
  BY <1>1 DEF import_file
<1>6. \A c \in Company :
        /\ listing'[c] \in [day : Day, exchange : Exchange, price : Price] \cup {None}
        /\ listing'[c] # None => /\ listing'[c].exchange = chart'[c]
                                  /\ listing'[c].price = close'[c][chart'[c]][listing'[c].day]
  BY <1>3, <1>4, <1>5, ListingType
<1>7. revised' \subseteq Company \X Exchange \X Day \X Price
  <2>1. \A c \in Company : close[c][x][d] # None => close[c][x][d] \in Price
    BY <1>2 DEF IInv, TypeOK
  <2> QED
    BY <1>1, <1>2, <2>1 DEF import_file, IInv, TypeOK
<1>8. /\ close' \in [Company -> Closes]
      /\ chart' \in [Company -> Exchange \cup {None}]
      /\ summary' \in [Company -> [day : Day \cup {None}, price : Price] \cup {None}]
      /\ listing' \in [Company -> [day : Day, exchange : Exchange, price : Price] \cup {None}]
  <2>1. /\ close' = [c \in Company |-> close'[c]] /\ chart' = [c \in Company |-> chart'[c]]
        /\ summary' = [c \in Company |-> summary'[c]] /\ listing' = [c \in Company |-> listing'[c]]
    BY <1>1 DEF import_file
  <2> QED
    BY <2>1, <1>4, <1>6
<1>9. TypeOK'
  BY <1>1, <1>7, <1>8, CommitFileStep DEF IInv, TypeOK, Closes, task
<1>10. (SummaryIsLatest /\ Charted)'
  BY <1>4, <1>6 DEF SummaryIsLatest, Charted, HasClose
<1> QED
  BY <1>1, <1>9, <1>10, CommitFileStep DEF IInv

LEMMA FailImportStep ==
  ASSUME IInv, FailImport
  PROVE  IInv'
<1>1. "job" \in Process /\ CommitFile("job", "source") /\ UNCHANGED <<uploaded, prices>>
  BY DEF FailImport, Process
<1>2. TypeOK'
  BY <1>1, CommitFileStep DEF IInv, TypeOK, prices, task
<1> QED
  BY <1>1, <1>2, CommitFileStep, PricesKept DEF IInv

LEMMA CommitPreviewStep ==
  ASSUME IInv, CommitPreview
  PROVE  IInv'
<1>1. /\ "preview" \in Process /\ CommitFile("preview", "idle") /\ UNCHANGED prices
      /\ uploaded' = [uploaded EXCEPT ![work["preview"].file] = work["preview"]]
  BY DEF CommitPreview, Process
<1>2. work["preview"] \in Work
  BY <1>1, CommitFileStep
<1>3. TypeOK'
  BY <1>1, <1>2, CommitFileStep DEF IInv, TypeOK, prices, task
<1> QED
  BY <1>1, <1>3, CommitFileStep, PricesKept DEF IInv

LEMMA FinishStep ==
  ASSUME IInv, FinishRun
  PROVE  IInv'
<1>1. \A c \in Company : listing'[c] = ListingOf(c, close[c], chart[c])
  BY DEF FinishRun
<1>2. \A c \in Company : close[c] \in Closes /\ chart[c] \in Exchange \cup {None}
  BY DEF IInv, TypeOK, Closes
<1>3. \A c \in Company :
        /\ listing'[c] \in [day : Day, exchange : Exchange, price : Price] \cup {None}
        /\ listing'[c] # None => /\ listing'[c].exchange = chart[c]
                                  /\ listing'[c].price = close[c][chart[c]][listing'[c].day]
  BY <1>1, <1>2, ListingType DEF IInv
<1>4. listing' \in [Company -> [day : Day, exchange : Exchange, price : Price] \cup {None}]
  <2>1. listing' = [c \in Company |-> listing'[c]]
    BY DEF FinishRun
  <2> QED
    BY <2>1, <1>3
<1>5. TypeOK'
  <2>1. day' \in Day
    BY DEF FinishRun, Day
  <2> QED
    BY <1>4, <2>1 DEF FinishRun, CommitPurge, IInv, TypeOK, Process
<1>6. (SummaryIsLatest /\ Charted)'
  BY <1>3 DEF FinishRun, IInv, SummaryIsLatest, Charted, HasClose
<1>7. (\A p \in Process : Working(p))' /\ Originals'
  BY DEF FinishRun, CommitPurge, IInv, TypeOK, Working, Originals, Process
<1> QED
  BY <1>5, <1>6, <1>7 DEF IInv

LEMMA KilledStep ==
  ASSUME IInv, NEW p \in Process, Killed(p)
  PROVE  IInv'
<1>1. TypeOK'
  <2>1. todo' \subseteq Exchange /\ day' \in Day /\ upload' \in File \cup {None}
    BY DEF Killed, IInv, TypeOK, task, Day
  <2> QED
    BY <2>1 DEF Killed, IInv, TypeOK, files, prices, Process
<1>2. ASSUME NEW q \in Process PROVE Working(q)'
  BY DEF Killed, IInv, TypeOK, Working, files
<1>3. Originals'
  BY DEF Killed, IInv, TypeOK, Originals, files
<1> QED
  BY <1>1, <1>2, <1>3, PricesKept DEF Killed, IInv

LEMMA OutsideStep ==
  ASSUME IInv,
         \/ \E c \in Company : \E p \in Price : ImportQuote(c, p)
         \/ \E c \in Company : \E d \in Day : ChangeListingDate(c, d)
         \/ \E f \in File : Age(f)
         \/ UNCHANGED vars
  PROVE  IInv'
<1>1. ASSUME NEW c \in Company, NEW p \in Price, ImportQuote(c, p) PROVE IInv'
  <2>1. summary' \in [Company -> [day : Day \cup {None}, price : Price] \cup {None}]
    BY <1>1 DEF ImportQuote, IInv, TypeOK
  <2>2. TypeOK'
    BY <1>1, <2>1 DEF ImportQuote, IInv, TypeOK, files, task
  <2>3. \A b \in Company : chart[b] # None => summary'[b] = summary[b]
    BY <1>1 DEF ImportQuote, IInv, TypeOK
  <2>4. (SummaryIsLatest /\ Charted)'
    BY <1>1, <2>3 DEF ImportQuote, IInv, SummaryIsLatest, Charted, HasClose
  <2>5. (\A q \in Process : Working(q))' /\ Originals'
    BY <1>1 DEF ImportQuote, IInv, Working, Originals, files
  <2> QED
    BY <2>2, <2>4, <2>5 DEF IInv
<1>2. ASSUME NEW c \in Company, NEW d \in Day, ChangeListingDate(c, d) PROVE IInv'
  <2>1. TypeOK'
    BY <1>2 DEF ChangeListingDate, IInv, TypeOK, files, prices, task
  <2>2. (SummaryIsLatest /\ Charted)'
    BY <1>2 DEF ChangeListingDate, IInv, SummaryIsLatest, Charted, HasClose, prices
  <2>3. (\A q \in Process : Working(q))' /\ Originals'
    BY <1>2 DEF ChangeListingDate, IInv, Working, Originals, files
  <2> QED
    BY <2>1, <2>2, <2>3 DEF IInv
<1>3. ASSUME NEW f \in File, Age(f) PROVE IInv'
  <2>1. TypeOK'
    BY <1>3 DEF Age, IInv, TypeOK, prices, task
  <2>2. (\A q \in Process : Working(q))' /\ Originals'
    BY <1>3 DEF Age, IInv, Working, Originals
  <2> QED
    BY <1>3, <2>1, <2>2, PricesKept DEF Age, IInv
<1>4. ASSUME UNCHANGED vars PROVE IInv'
  <2>1. TypeOK'
    BY <1>4 DEF vars, IInv, TypeOK
  <2>2. (\A q \in Process : Working(q))' /\ Originals'
    BY <1>4 DEF vars, IInv, Working, Originals
  <2> QED
    BY <1>4, <2>1, <2>2, PricesKept DEF vars, prices, IInv
<1> QED
  BY <1>1, <1>2, <1>3, <1>4

LEMMA NextIInv == IInv /\ [Next]_vars => IInv'
<1> SUFFICES ASSUME IInv, [Next]_vars PROVE IInv'
  OBVIOUS
<1>1. CASE Job
  <2>1. ASSUME NEW xs \in SUBSET Exchange, NEW d \in Day, NEW f \in File \cup {None},
               BeginRun(xs, d, f)
        PROVE  IInv'
    BY <2>1, BeginRunStep
  <2>2. ASSUME NEW x \in Exchange, LeaveSource(x) PROVE IInv'
    BY <2>2, LeaveStep
  <2>3. ASSUME NEW x \in Exchange, NEW f \in File, NEW content \in Content, FetchSource(x, f, content)
        PROVE  IInv'
    BY <2>3, FetchStep
  <2> QED
    BY <1>1, <2>1, <2>2, <2>3, ImportStep, FailImportStep, FinishStep DEF Job
<1>2. CASE Preview
  <2>1. ASSUME NEW x \in Exchange, NEW d \in Day, NEW content \in Content, NEW f \in File,
               BeginPreview(x, d, content, f)
        PROVE  IInv'
    BY <2>1, BeginPreviewStep
  <2> QED
    BY <1>2, <2>1, CommitPreviewStep DEF Preview
<1>3. ASSUME NEW p \in Process, SaveOriginal(p) \/ Killed(p) PROVE IInv'
  BY <1>3, SaveStep, KilledStep
<1> QED
  BY <1>1, <1>2, <1>3, OutsideStep DEF Next

-----------------------------------------------------------------------------
\* Types, the originals of processes, and what prices are derived from, hold in
\* every reachable state.
THEOREM Invariant == Spec => []IInv
<1>1. Init => IInv
  BY InitIInv
<1>2. IInv /\ [Next]_vars => IInv'
  BY NextIInv
<1> QED
  BY <1>1, <1>2, PTL DEF Spec

\* What the rows say of the originals is true, whenever a job or a preview dies
\* between the disk and the database or cleans up.
THEOREM OriginalsAreKept == Spec => []OriginalsExist
<1>1. IInv => OriginalsExist
  <2> SUFFICES ASSUME IInv PROVE OriginalsExist
    OBVIOUS
  <2>1. \A f \in named \ disk : f \in aged /\ f \in purged \cup Expired
    BY DEF IInv, Originals, Expired, OldEnough
  <2>2. \A p \in Process : pc[p] = "saved" => work[p].file \in disk \ named
    BY DEF IInv, Working
  <2> QED
    BY <2>1, <2>2 DEF IInv, Originals, OriginalsExist
<1> QED
  BY <1>1, Invariant, PTL

\* The summary of a company is the latest close of the exchange of its chart, and
\* the listing price a close of that exchange as it is now.
THEOREM SummariesAreLatest == Spec => []SummaryIsLatest
<1>1. IInv => SummaryIsLatest
  BY DEF IInv
<1> QED
  BY <1>1, Invariant, PTL

\* What one step does to closes, revisions and charts.
HistoryStep ==
  /\ revised \subseteq revised'
  /\ \A c \in Company, x \in Exchange, d \in Day :
       close[c][x][d] \notin {None, close'[c][x][d]} =>
         <<c, x, d, close[c][x][d]>> \in revised' /\ close'[c][x][d] # None
  /\ \A c \in Company : chart[c] # None => chart'[c] = chart[c]

LEMMA ImportKeepsHistory ==
  ASSUME IInv, CommitImport
  PROVE  HistoryStep
<1> DEFINE x == work["job"].exchange
           d == work["job"].day
           content == work["job"].content
<1>1. /\ "job" \in Process /\ CommitFile("job", "source")
      /\ import_file(x, d, content)
  BY DEF CommitImport, Process
<1>2. x \in Exchange /\ d \in Day /\ content \in Content
  BY <1>1, CommitFileStep DEF Work
<1> HIDE DEF x, d, content
<1>3. TypeOK /\ SummaryIsLatest /\ Charted
  BY DEF IInv
<1>4. \A c \in Company :
        /\ \A y \in Exchange, e \in Day :
             /\ close'[c][y][e] # close[c][y][e] =>
                  y = x /\ e = d /\ content[c] \notin {None, close[c][x][d]}
             /\ close[c][y][e] # None => close'[c][y][e] # None
        /\ chart[c] # None => chart'[c] = chart[c]
  BY <1>1, <1>2, <1>3, ImportOf
<1>5. \A c \in Company : content[c] \notin {None, close[c][x][d]} /\ close[c][x][d] # None =>
        <<c, x, d, close[c][x][d]>> \in revised'
  BY <1>1 DEF import_file
<1>6. revised \subseteq revised'
  BY <1>1 DEF import_file
<1> QED
  BY <1>4, <1>5, <1>6 DEF HistoryStep

LEMMA OthersKeepHistory ==
  ASSUME Next, ~CommitImport
  PROVE  UNCHANGED <<close, revised, chart>>
BY DEF Next, Job, Preview, BeginRun, LeaveSource, FetchSource, FailImport, FinishRun, BeginPreview,
       CommitPreview, SaveOriginal, Killed, ImportQuote, ChangeListingDate, Age, prices

\* No price is lost: a close that changes is kept as a revision, none disappears,
\* and a chart stays on its exchange.
THEOREM PricesAreKept == Spec => HistoryIsKept
<1>1. IInv /\ [Next]_vars =>
        [/\ revised \subseteq revised'
         /\ \A c \in Company, x \in Exchange, d \in Day :
              close[c][x][d] \notin {None, close'[c][x][d]} =>
                <<c, x, d, close[c][x][d]>> \in revised' /\ close'[c][x][d] # None
         /\ \A c \in Company : chart[c] # None => chart'[c] = chart[c]]_vars
  BY ImportKeepsHistory, OthersKeepHistory DEF HistoryStep
<1> QED
  BY <1>1, Invariant, PTL DEF Spec, HistoryIsKept
=============================================================================
