---------------------------- MODULE DailyCloses ----------------------------
(***************************************************************************)
(* Daily closing prices: the import of one file per exchange and day, its  *)
(* original on disk, the closes and their revisions, the summary and the   *)
(* listing price derived from them, and the retention of originals.        *)
(*                                                                         *)
(* The database rolls back what a dead process had not committed; the disk *)
(* does not.  Jobs run one at a time (MarketQueue); an administrator's     *)
(* preview runs beside them and cleans up the same directory.  Rows of     *)
(* bhavcopy_files without a path say why there is no file and are left out.*)
(***************************************************************************)
EXTENDS Naturals, FiniteSets

CONSTANTS
  Company,      \* listed companies
  Isin, Symbol, \* what identifies a security in a file
  isinOf,       \* the ISIN of a company, or None
  symbolOf,     \* the symbol of a company on both exchanges
  Exchange,     \* NSE and BSE
  Days,         \* trading days of the model: 1 .. Days, all in the past
  Price,        \* closing prices
  File,         \* identifiers of bhavcopy_files rows with a path
  None          \* nothing: no exchange, ISIN, file, work, price

ASSUME IdentityAssumption ==
  /\ isinOf \in [Company -> Isin \cup {None}] /\ symbolOf \in [Company -> Symbol]
ASSUME DaysAssumption == Days \in Nat \ {0}

Day == 1 .. Days

ASSUME NoneAssumption == None \notin Exchange \cup File \cup Price \cup Isin /\ None \notin Day

-----------------------------------------------------------------------------
\* The rows of a file that parse reads: ok is a valid row with a close.
Row == [isin : Isin, symbol : Symbol, ok : BOOLEAN, close : Price]

\* parse: a security on several rows, an invalid one included, has no price.
parse(rows) == {r \in rows : r.ok /\ \A q \in rows \ {r} : q.isin # r.isin}

\* mappings and preview: the company of a row, by its ISIN or by its symbol,
\* when it is one and has no other ISIN.
Candidates(r) == {c \in Company : isinOf[c] = r.isin \/ symbolOf[c] = r.symbol}
Matches(r, c) == Candidates(r) = {c} /\ isinOf[c] \in {None, r.isin}

\* The closes of a file: a company that two rows match has none.
preview(rows) ==
  [c \in Company |->
     LET of == {r \in parse(rows) : Matches(r, c)} IN
     IF Cardinality(of) = 1 THEN (CHOOSE r \in of : TRUE).close ELSE None]

Content == {preview(rows) : rows \in SUBSET Row}

-----------------------------------------------------------------------------
VARIABLES
  named,        \* rows with a path
  purged,       \* rows with purged_at
  aged,         \* files made more than seven days ago
  disk,         \* originals in the directory
  uploaded,     \* PREVIEW rows: exchange, day and content of the original
  close,        \* equity_daily_closes: close[c][x][d], or None
  revised,      \* equity_close_revisions: the closes that were replaced
  chart,        \* closing_exchange
  summary,      \* price_date and cmp
  listingDate,  \* ipo_dates.listing_date
  listing,      \* listing_price_date, _exchange and listing_price
  pc, work, gone,     \* per process: its row and content, the rows it purges
  todo, day, upload   \* of the job

files == <<named, purged, aged, disk, uploaded>>
prices == <<close, revised, chart, summary, listing>>
task == <<todo, day, upload>>
vars == <<named, purged, aged, disk, uploaded, close, revised, chart, summary, listingDate,
          listing, pc, work, gone, todo, day, upload>>

\* The job under the writer lease, and an administrator's preview.
Process == {"job", "preview"}
Work == [file : File, exchange : Exchange, day : Day, content : Content]
ASSUME NoWorkAssumption == None \notin Work

TypeOK ==
  /\ named \subseteq File /\ purged \subseteq File /\ aged \subseteq File /\ disk \subseteq File
  /\ uploaded \in [File -> Work \cup {None}]
  /\ close \in [Company -> [Exchange -> [Day -> Price \cup {None}]]]
  /\ revised \subseteq Company \X Exchange \X Day \X Price
  /\ chart \in [Company -> Exchange \cup {None}]
  /\ summary \in [Company -> [day : Day \cup {None}, price : Price] \cup {None}]
  /\ listingDate \in [Company -> Day]
  /\ listing \in [Company -> [day : Day, exchange : Exchange, price : Price] \cup {None}]
  /\ pc \in [Process -> {"idle", "source", "fetched", "saved"}]
  /\ work \in [Process -> Work \cup {None}]
  /\ gone \in [Process -> SUBSET File]
  /\ todo \subseteq Exchange /\ day \in Day /\ upload \in File \cup {None}

Init ==
  /\ named = {} /\ purged = {} /\ aged = {} /\ disk = {}
  /\ uploaded = [f \in File |-> None]
  /\ close = [c \in Company |-> [x \in Exchange |-> [d \in Day |-> None]]]
  /\ revised = {}
  /\ chart = [c \in Company |-> None]
  /\ summary = [c \in Company |-> None]
  /\ listingDate \in [Company -> Day]
  /\ listing = [c \in Company |-> None]
  /\ pc = [p \in Process |-> "idle"]
  /\ work = [p \in Process |-> None]
  /\ gone = [p \in Process |-> {}]
  /\ todo = {} /\ day = 1 /\ upload = None

-----------------------------------------------------------------------------
\* cleanup: the originals of old rows are unlinked now, purged_at is set by the
\* commit that follows.
OldEnough(f) == f \in aged

\* Faulty: rows whose file is gone are passed over.
ExpiredOnDisk == {f \in (named \ purged) \cap disk : OldEnough(f)}

Expired == {f \in named \ purged : OldEnough(f)}

cleanup(p) ==
  /\ disk' = disk \ Expired
  /\ gone' = [gone EXCEPT ![p] = Expired]

\* A commit of p, with the purges it holds.
CommitPurge(p) ==
  /\ purged' = purged \cup gone[p]
  /\ gone' = [gone EXCEPT ![p] = {}]

\* A name for an original: generated, so never used before.
Unused(f) == f \notin named \cup disk /\ \A p \in Process : work[p] # None => work[p].file # f

-----------------------------------------------------------------------------
\* Faulty: the ascending order.
FirstDay(cl, x) == CHOOSE d \in Day : cl[x][d] # None /\ \A e \in Day : cl[x][e] # None => d <= e

\* refresh_summary, for the closes cl of a company.
HasClose(cl, x) == \E d \in Day : cl[x][d] # None
LatestDay(cl, x) == CHOOSE d \in Day : cl[x][d] # None /\ \A e \in Day : cl[x][e] # None => e <= d
Summary(cl, x) == [day |-> LatestDay(cl, x), price |-> cl[x][LatestDay(cl, x)]]

\* refresh_listing_prices: the close of the listing date on the chart's exchange.
ListingOf(c, cl, x) ==
  IF x # None /\ cl[x][listingDate[c]] # None
  THEN [day |-> listingDate[c], exchange |-> x, price |-> cl[x][listingDate[c]]]
  ELSE None

\* Faulty: the last import owns the chart.
AnyOwner(c, x) == TRUE

\* A chart stays on one exchange, also when the other file arrives later.
OwnsChart(c, x) == chart[c] \in {None, x}

\* import_file: the rows that differ replace the closes of the day, the previous
\* values are kept; the companies affected get their summary from the exchange
\* of their chart, which the first import fixes; every listing price is renewed.
import_file(x, d, content) ==
  LET affected == {c \in Company : content[c] \notin {None, close[c][x][d]}}
      charted == {c \in affected : OwnsChart(c, x)} IN
  /\ close' = [c \in Company |-> IF c \in affected
                 THEN [close[c] EXCEPT ![x][d] = content[c]] ELSE close[c]]
  /\ revised' = revised \cup {<<c, x, d, close[c][x][d]>> : c \in {b \in affected : close[b][x][d] # None}}
  /\ chart' = [c \in Company |-> IF c \in charted THEN x ELSE chart[c]]
  /\ summary' = [c \in Company |-> IF c \in charted THEN Summary(close'[c], x) ELSE summary[c]]
  /\ listing' = [c \in Company |-> ListingOf(c, close'[c], chart'[c])]

-----------------------------------------------------------------------------
\* sync: a run for a day and one or both exchanges, or for an original that was
\* previewed and had not been purged when the run was requested.
BeginRun(xs, d, f) ==
  /\ pc["job"] = "idle"
  /\ f # None => uploaded[f] # None /\ xs = {uploaded[f].exchange} /\ d = uploaded[f].day
  /\ cleanup("job")
  /\ pc' = [pc EXCEPT !["job"] = "source"]
  /\ todo' = xs /\ day' = d /\ upload' = f
  /\ UNCHANGED <<named, purged, aged, uploaded, prices, listingDate, work>>

\* The exchange whose turn it is: NSE before BSE.
Current(x) == pc["job"] = "source" /\ x \in todo /\ (x = "NSE" \/ "NSE" \notin todo)

\* The original of an upload is still there.
Available(f) == f \notin purged \cup gone["job"] /\ f \in disk

\* No file: the source is disabled, told us to wait, has no session that day, or
\* a scheduled run finds it imported or blocked; or it fails, refuses, or sends
\* something else.  An upload fails when it is no longer available.
LeaveSource(x) ==
  /\ Current(x)
  /\ upload # None => ~Available(upload)
  /\ todo' = todo \ {x}
  /\ CommitPurge("job")
  /\ UNCHANGED <<named, aged, disk, uploaded, prices, listingDate, pc, work, day, upload>>

\* The content arrives and is validated before anything is stored.
FetchSource(x, f, content) ==
  /\ Current(x) /\ Unused(f)
  /\ upload # None => Available(upload) /\ content = uploaded[upload].content
  /\ todo' = todo \ {x}
  /\ work' = [work EXCEPT !["job"] = [file |-> f, exchange |-> x, day |-> day, content |-> content]]
  /\ pc' = [pc EXCEPT !["job"] = "fetched"]
  /\ UNCHANGED <<files, prices, listingDate, gone, day, upload>>

\* upload_preview: the file is matched and the directory cleaned.
BeginPreview(x, d, content, f) ==
  /\ pc["preview"] = "idle" /\ Unused(f)
  /\ cleanup("preview")
  /\ work' = [work EXCEPT !["preview"] = [file |-> f, exchange |-> x, day |-> d, content |-> content]]
  /\ pc' = [pc EXCEPT !["preview"] = "fetched"]
  /\ UNCHANGED <<named, purged, aged, uploaded, prices, listingDate, task>>

\* save_original: written and synced under a temporary name, then renamed, so
\* the name of an original is never seen with half of its bytes.
SaveOriginal(p) ==
  /\ pc[p] = "fetched"
  /\ disk' = disk \cup {work[p].file}
  /\ pc' = [pc EXCEPT ![p] = "saved"]
  /\ UNCHANGED <<named, purged, aged, uploaded, prices, listingDate, work, gone, task>>

\* The commit that names the original.
CommitFile(p, next) ==
  /\ pc[p] = "saved"
  /\ named' = named \cup {work[p].file}
  /\ CommitPurge(p)
  /\ work' = [work EXCEPT ![p] = None]
  /\ pc' = [pc EXCEPT ![p] = next]
  /\ UNCHANGED <<aged, disk, listingDate, task>>

\* The import and its row are one commit, per exchange.
CommitImport ==
  /\ CommitFile("job", "source")
  /\ import_file(work["job"].exchange, work["job"].day, work["job"].content)
  /\ UNCHANGED uploaded

\* The import fails inside its savepoint: earlier prices stay, the row is FAILED.
FailImport ==
  /\ CommitFile("job", "source")
  /\ UNCHANGED <<uploaded, prices>>

CommitPreview ==
  /\ CommitFile("preview", "idle")
  /\ uploaded' = [uploaded EXCEPT ![work["preview"].file] = work["preview"]]
  /\ UNCHANGED prices

\* The end of sync: listing prices once more, and the commit of the run.
FinishRun ==
  /\ pc["job"] = "source" /\ todo = {}
  /\ listing' = [c \in Company |-> ListingOf(c, close[c], chart[c])]
  /\ CommitPurge("job")
  /\ pc' = [pc EXCEPT !["job"] = "idle"]
  /\ day' = 1 /\ upload' = None
  /\ UNCHANGED <<named, aged, disk, uploaded, close, revised, chart, summary, listingDate, work, todo>>

\* The process dies, or its transaction fails: the disk stays as it is.
Killed(p) ==
  /\ pc[p] # "idle"
  /\ pc' = [pc EXCEPT ![p] = "idle"]
  /\ work' = [work EXCEPT ![p] = None]
  /\ gone' = [gone EXCEPT ![p] = {}]
  /\ IF p = "job" THEN todo' = {} /\ day' = 1 /\ upload' = None ELSE UNCHANGED task
  /\ UNCHANGED <<files, prices, listingDate>>

-----------------------------------------------------------------------------
\* A quote of the older price feed writes the summary until a chart owns it.
ImportQuote(c, p) ==
  /\ summary' = IF chart[c] = None THEN [summary EXCEPT ![c] = [day |-> None, price |-> p]]
                ELSE summary
  /\ UNCHANGED <<files, close, revised, chart, listingDate, listing, pc, work, gone, task>>

\* An administrator or an IPO import corrects the listing date.
ChangeListingDate(c, d) ==
  /\ listingDate' = [listingDate EXCEPT ![c] = d]
  /\ UNCHANGED <<files, prices, pc, work, gone, task>>

\* Seven days pass for a file; a process in progress takes minutes.
Age(f) ==
  /\ f \in disk \cup named
  /\ \A p \in Process : work[p] # None => work[p].file # f
  /\ aged' = aged \cup {f}
  /\ UNCHANGED <<named, purged, disk, uploaded, prices, listingDate, pc, work, gone, task>>

Job ==
  \/ \E xs \in SUBSET Exchange \ {{}}, d \in Day, f \in File \cup {None} : BeginRun(xs, d, f)
  \/ \E x \in Exchange :
       LeaveSource(x) \/ \E f \in File, content \in Content : FetchSource(x, f, content)
  \/ CommitImport \/ FailImport \/ FinishRun

Preview ==
  \/ \E x \in Exchange, d \in Day, content \in Content, f \in File : BeginPreview(x, d, content, f)
  \/ CommitPreview

Next ==
  \/ Job
  \/ Preview
  \/ \E p \in Process : SaveOriginal(p) \/ Killed(p)
  \/ \E c \in Company : (\E p \in Price : ImportQuote(c, p)) \/ \E d \in Day : ChangeListingDate(c, d)
  \/ \E f \in File : Age(f)

Spec == Init /\ [][Next]_vars

-----------------------------------------------------------------------------
\* What the rows say of the disk is true, although the disk keeps what a rollback
\* takes back.  The original of a row is there until it is seven days old; one that
\* is gone is recorded, or being recorded, as purged, or the next clean-up finds its
\* row again (the commit after the unlink was rolled back); a purged row has none;
\* and no clean-up takes the original another process is about to name.
OriginalsExist ==
  /\ \A f \in named \ disk :
       f \in aged /\ (f \in purged \cup Expired \/ \E p \in Process : f \in gone[p])
  /\ purged \cap disk = {}
  /\ \A p \in Process : pc[p] = "saved" => work[p].file \in disk \ named

\* The summary is the latest close of the chart's exchange, whatever the order
\* of exchanges, days, corrections, failed imports and quotes; a listing price
\* is a close of the same exchange as it is now, not as it was first imported.
SummaryIsLatest ==
  \A c \in Company :
    /\ chart[c] = None <=> \A x \in Exchange : ~HasClose(close[c], x)
    /\ chart[c] # None =>
         LET cl == close[c][chart[c]] IN
         /\ summary[c].day # None /\ summary[c].price = cl[summary[c].day]
         /\ \A d \in Day : cl[d] # None => d <= summary[c].day
    /\ listing[c] # None =>
         /\ listing[c].exchange = chart[c]
         /\ listing[c].price = close[c][chart[c]][listing[c].day]

\* No import loses a price: a close that changes is kept as a revision, none
\* disappears, and the exchange of a chart stays.
HistoryIsKept ==
  [][/\ revised \subseteq revised'
     /\ \A c \in Company, x \in Exchange, d \in Day :
          close[c][x][d] \notin {None, close'[c][x][d]} =>
            <<c, x, d, close[c][x][d]>> \in revised' /\ close'[c][x][d] # None
     /\ \A c \in Company : chart[c] # None => chart'[c] = chart[c]]_vars
=============================================================================
