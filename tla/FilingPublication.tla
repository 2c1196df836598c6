------------------------- MODULE FilingPublication -------------------------
(***************************************************************************)
(* Financial results of one company and one reporting period: the filings  *)
(* that exchanges announce, the originals kept of them, and the revisions  *)
(* they publish.                                                           *)
(*                                                                         *)
(* A results run holds the writer lease (MarketQueue), works through a     *)
(* batch of pending filings and commits after each original it has stored  *)
(* and at the end of each filing: an action of the run is what happens     *)
(* from one commit to the next.  It keeps the filings as it loaded them    *)
(* (expire_on_commit=False), while administrators upload, map and publish. *)
(***************************************************************************)
EXTENDS Naturals, Sequences, FiniteSets

CONSTANTS
  Filing,
  exchangeOf,   \* the exchange of a filing: "NSE" or "BSE"
  date,         \* when a filing was announced
  docs,         \* the originals behind a filing's links, in order
  uploads,      \* what administrators may upload as an original of it
  Ways,         \* the ways in which the filings may come to be found
  Facts,        \* what a readable original reports for the period
  Batch,        \* pending filings of a run: 15
  MaxFaults     \* runs that crash or run out of time (bounds the model)

Exchange == {"NSE", "BSE"}
\* pdf: kept, never parsed; unreadable: kept, cannot be parsed; refused: not kept.
Document == Facts \cup {"pdf", "unreadable", "refused"}

\* What tells the rows of one period apart is how they were found: announced by the
\* exchange, in BSE's history of a company (detail) or its list of a day (list), on
\* the company's own page; or an administrator registered a link of the exchange
\* (manual) or of that page (official).
Way == {"announced", "detail", "list", "page", "manual", "official", "never"}
Undated == {"detail", "page"}    \* no date comes with them
OwnPage == {"page", "official"}  \* origin OFFICIAL_COMPANY
ByHand == {"manual", "official"} \* the link is the row's source_url as well

WellFormed(f, how) ==
  /\ how = "list" <=> docs[f] = <<>> /\ how # "announced" /\ how # "never"
  /\ how \notin {"announced", "list", "never"} => Len(docs[f]) = 1
  /\ exchangeOf[f] = "BSE" /\ how = "announced" => Len(docs[f]) <= 1
  /\ exchangeOf[f] = "NSE" => how \in {"announced", "manual", "never"}

ASSUME FilingAssumption ==
  /\ exchangeOf \in [Filing -> Exchange]
  /\ date \in [Filing -> Nat \ {0}]
  /\ docs \in [Filing -> Seq(Document)] /\ uploads \in [Filing -> SUBSET Document]
  /\ Ways \subseteq [Filing -> Way] /\ \A w \in Ways : \A f \in Filing : WellFormed(f, w[f])
ASSUME FactsAssumption == Facts \cap {"pdf", "unreadable", "refused", "none"} = {}
ASSUME BoundAssumption == Batch \in Nat /\ MaxFaults \in Nat

VARIABLES
  way,          \* how each filing is found; "never" if there is no such row
  identified,   \* exchanges on which the company has an identifier
  created,      \* result_filings of an exchange by created_at
  owned,        \* filings with a company_id
  status,       \* status[f]; "none" before the filing is found
  deferred,     \* filings with a retry_at in the future
  denied,       \* those BSE denied an original of: the error stays, unless published
  stored,       \* result_attachments: contents, by the link they came from
  results,      \* financial_results of the period, by revision
  pc,           \* the run: idle, or busy with the filing at the head of todo
  todo, seen,   \* the filings left, with their status as the run loaded it
  place,        \* the link that is handled (0: none yet)
  content, any, \* the original it has in hand ("none": no link yet); parsed_any
  faults

filings == <<way, created, owned>>
work == <<pc, todo, seen, place, content, any>>
vars == <<identified, filings, status, deferred, denied, stored, results,
          pc, todo, seen, place, content, any, faults>>

Pending == {"AWAITING_PROCESSING", "DOWNLOAD_RETRY"}
Status == Pending \cup {"none", "UNRESOLVED_MAPPING", "PARSING_REVIEW_REQUIRED", "PUBLISHED"}
Unloaded == [f \in Filing |-> "none"]
Attachment == [link : Nat, content : Document]    \* link 0: uploaded to the row
Result == [filing : Filing, facts : Facts, provenance : SUBSET Filing, current : BOOLEAN]

TypeOK ==
  /\ way \in Ways /\ identified \subseteq Exchange
  /\ created \in [Exchange -> Seq(Filing)]
  /\ owned \subseteq Filing /\ deferred \subseteq Filing /\ denied \subseteq Filing
  /\ status \in [Filing -> Status] /\ seen \in [Filing -> Status]
  /\ stored \in [Filing -> SUBSET Attachment]
  /\ results \in Seq(Result)
  /\ pc \in {"idle", "busy"} /\ todo \in Seq(Filing)
  /\ place \in Nat /\ content \in Document \cup {"none"} /\ any \in BOOLEAN
  /\ faults \in 0 .. MaxFaults

Init ==
  /\ way \in Ways /\ identified \in SUBSET Exchange
  /\ created = [x \in Exchange |-> <<>>]
  /\ owned = {} /\ deferred = {} /\ denied = {}
  /\ status = [f \in Filing |-> "none"]
  /\ stored = [f \in Filing |-> {}]
  /\ results = <<>>
  /\ pc = "idle" /\ todo = <<>> /\ seen = Unloaded
  /\ place = 0 /\ content = "none" /\ any = FALSE
  /\ faults = 0

-----------------------------------------------------------------------------
\* announced_at; 0 when it is not known.
Announced(f) == IF way[f] \in Undated THEN 0 ELSE date[f]

\* store_filing: a filing known already stays as it is.
Store(f) ==
  /\ status[f] = "none"
  /\ created' = [created EXCEPT ![exchangeOf[f]] = Append(@, f)]
  /\ owned' = IF exchangeOf[f] \in identified THEN owned \cup {f} ELSE owned
  /\ status' = [status EXCEPT ![f] = IF exchangeOf[f] \in identified THEN "AWAITING_PROCESSING"
                                     ELSE "UNRESOLVED_MAPPING"]
  /\ UNCHANGED way

\* The run of BSE leaves a company with an NSE identifier alone.
Tracked(x) ==
  /\ x \in identified
  /\ x = "BSE" => "NSE" \notin identified

\* discover_nse: a run pages through what the NSE announced, all of it or nothing.
DiscoverNse(f) ==
  /\ pc = "idle" /\ way[f] = "announced" /\ exchangeOf[f] = "NSE"
  /\ Tracked("NSE")
  /\ Store(f)
  /\ UNCHANGED <<identified, deferred, denied, stored, results, work, faults>>

\* discover: BSE is asked for the announcements of each company in turn, each with
\* one original or none; and discover_bse_history: for the links of its results.
DiscoverBse(f) ==
  /\ pc = "idle" /\ way[f] \in {"announced", "detail"} /\ exchangeOf[f] = "BSE"
  /\ Tracked("BSE")
  /\ Store(f)
  /\ UNCHANGED <<identified, deferred, denied, stored, results, work, faults>>

\* An administrator applies a list of BSE, which has no links, or registers one
\* link, whether the company is tracked or not; one of its own page needs the
\* company's identifier.
Register(f) ==
  /\ way[f] \in {"list", "manual", "official"}
  /\ way[f] = "official" => "BSE" \in identified
  /\ Store(f)
  /\ UNCHANGED <<identified, deferred, denied, stored, results, work, faults>>

\* The company gets an identifier from the daily closes or an IPO import.
Identify(x) ==
  /\ identified' = identified \cup {x}
  /\ UNCHANGED <<filings, status, deferred, denied, stored, results, work, faults>>

-----------------------------------------------------------------------------
\* Faulty: announced_at is not compared.
AtAnyTime(f, g) == TRUE

Later(f, g) == Announced(f) > Announced(g)

\* publish: the current revision that reports the same facts notes the filing;
\* other facts replace it when they come later and from the same exchange.
Current == {i \in DOMAIN results : results[i].current}
Same(i, facts) == results[i].facts = facts
Replaces(f, i) ==
  /\ exchangeOf[f] = exchangeOf[results[i].filing]
  /\ Later(f, results[i].filing)

Publishable(f, facts) ==
  Announced(f) # 0 /\ \A i \in Current : Same(i, facts) \/ Replaces(f, i)

\* Faulty: a filing that reports the same is not noted.
PublishedOnce(f, facts) ==
  IF \E i \in Current : Same(i, facts) THEN results
  ELSE Append([i \in DOMAIN results |-> [results[i] EXCEPT !.current = FALSE]],
              [filing |-> f, facts |-> facts, provenance |-> {f}, current |-> TRUE])

\* Faulty: the revision that reports the same becomes one of the later filing.
PublishedAnew(f, facts) ==
  IF \E i \in Current : Same(i, facts)
  THEN [i \in DOMAIN results |->
          IF i \in Current THEN [results[i] EXCEPT !.filing = f, !.provenance = @ \cup {f}]
          ELSE results[i]]
  ELSE Append([i \in DOMAIN results |-> [results[i] EXCEPT !.current = FALSE]],
              [filing |-> f, facts |-> facts, provenance |-> {f}, current |-> TRUE])

Published(f, facts) ==
  IF \E i \in Current : Same(i, facts)
  THEN [i \in DOMAIN results |->
          IF i \in Current THEN [results[i] EXCEPT !.provenance = @ \cup {f}] ELSE results[i]]
  ELSE Append([i \in DOMAIN results |-> [results[i] EXCEPT !.current = FALSE]],
              [filing |-> f, facts |-> facts, provenance |-> {f}, current |-> TRUE])

\* What the run does with an original: keep it, publish it or fail.
Passes(d) == d \in {"none", "pdf"}
Reads(f, d) == d \in Facts /\ Publishable(f, d)
Fails(f, d) == ~Passes(d) /\ ~Reads(f, d)

-----------------------------------------------------------------------------
\* Faulty: only downloads are tried again.
AwaitedAgain(x) == {f \in owned : exchangeOf[f] = x /\ status[f] = "DOWNLOAD_RETRY"}

\* The filings of exchange x a run selects: the first Batch by creation.
Awaited(x) == {f \in owned : exchangeOf[f] = x /\ status[f] \in Pending}
SelectedBy(x) ==
  LET inOrder == SelectSeq(created[x], LAMBDA f : f \in Awaited(x)) IN
  SubSeq(inOrder, 1, IF Len(inOrder) < Batch THEN Len(inOrder) ELSE Batch)

Begin(files) ==
  /\ files \in Seq(Filing) \ {<<>>}
  /\ pc' = "busy" /\ todo' = files /\ place' = 0 /\ content' = "none" /\ any' = FALSE
  /\ seen' = [f \in Filing |-> IF \E i \in DOMAIN files : files[i] = f THEN status'[f] ELSE "none"]

\* Those that may not be retried yet, and those of a company's page, are skipped.
Skipped(f) == f \in deferred \/ way[f] \in OwnPage

Select(x) ==
  /\ pc = "idle"
  /\ Tracked(x)
  /\ status' = status
  /\ Begin(SelectSeq(SelectedBy(x), LAMBDA f : ~Skipped(f)))
  /\ UNCHANGED <<identified, filings, deferred, denied, stored, results, faults>>

\* A link on the company's own page is a filing, and processed when it is found.
DiscoverOfficial(f) ==
  /\ pc = "idle" /\ way[f] = "page" /\ Tracked("BSE")
  /\ Store(f)
  /\ Begin(<<f>>)
  /\ UNCHANGED <<identified, deferred, denied, stored, results, faults>>

\* It is found again, and tried again.
RetryOfficial(f) ==
  /\ pc = "idle" /\ way[f] = "page" /\ Tracked("BSE")
  /\ f \notin deferred /\ status[f] \in Pending
  /\ status' = status
  /\ Begin(<<f>>)
  /\ UNCHANGED <<identified, filings, deferred, denied, stored, results, faults>>

\* The run writes a status only when it differs from the one it has loaded.
Write(f, s) == status' = IF s = seen[f] THEN status ELSE [status EXCEPT ![f] = s]

\* After the original in hand: its effect on the results, and the status so far.
HandledStatus(f) == IF Reads(f, content) THEN "PUBLISHED" ELSE seen[f]
Handle(f) == results' = IF Reads(f, content) THEN Published(f, content) ELSE results

NextFiling ==
  /\ todo' = Tail(todo) /\ place' = 0 /\ content' = "none" /\ any' = FALSE
  /\ pc' = IF Len(todo) = 1 THEN "idle" ELSE "busy"
  /\ seen' = [seen EXCEPT ![Head(todo)] = "none"]

Abandon ==
  /\ pc' = "idle" /\ todo' = <<>> /\ seen' = Unloaded
  /\ place' = 0 /\ content' = "none" /\ any' = FALSE

\* What is kept of a link; what is not kept yet is asked for.
KeptOf(f, i) == {a \in stored[f] : a.link = i}

\* store_attachment: a content that is kept already is not kept twice.
Keep(f, i, d) ==
  stored' = IF \E a \in stored[f] : a.content = d THEN stored
            ELSE [stored EXCEPT ![f] = @ \cup {[link |-> i, content |-> d]}]

\* The next original is there or arrives, and is committed before it is read.
NextOriginal ==
  /\ pc = "busy"
  /\ LET f == Head(todo)
         i == place + 1 IN
       /\ ~Fails(f, content) /\ place < Len(docs[f])
       /\ Handle(f)
       /\ Write(f, HandledStatus(f))
       /\ seen' = [seen EXCEPT ![f] = HandledStatus(f)]
       /\ any' = (any \/ Reads(f, content))
       /\ IF KeptOf(f, i) # {}
          THEN /\ \E a \in KeptOf(f, i) : content' = a.content
               /\ stored' = stored
          ELSE /\ docs[f][i] # "refused" /\ content' = docs[f][i]
               /\ Keep(f, i, docs[f][i])
  /\ place' = place + 1
  /\ UNCHANGED <<identified, filings, deferred, denied, pc, todo, faults>>

\* It does not arrive, because the source is down, limits or denies it: to be tried
\* again, whatever the first ones published.  A run of BSE leaves the rest of its
\* filings at a denial.
DownloadFails ==
  /\ pc = "busy"
  /\ LET f == Head(todo) IN
       /\ ~Fails(f, content) /\ place < Len(docs[f]) /\ KeptOf(f, place + 1) = {}
       /\ Handle(f)
       /\ Write(f, "DOWNLOAD_RETRY")
       /\ deferred' = deferred \cup {f}
       /\ \/ NextFiling /\ denied' = denied
          \/ /\ exchangeOf[f] = "BSE" /\ way[f] # "page"
             /\ Abandon /\ denied' = denied \cup {f}
  /\ UNCHANGED <<identified, filings, stored, faults>>

\* It arrives and is refused: nothing is kept of it.
Refused ==
  /\ pc = "busy"
  /\ LET f == Head(todo) IN
       /\ ~Fails(f, content) /\ place < Len(docs[f]) /\ KeptOf(f, place + 1) = {}
       /\ docs[f][place + 1] = "refused"
       /\ Handle(f)
       /\ Write(f, "PARSING_REVIEW_REQUIRED")
       /\ deferred' = deferred \cup {f}
  /\ NextFiling
  /\ UNCHANGED <<identified, filings, denied, stored, faults>>

\* It cannot be parsed, conflicts, comes too late, or has no date.
Review ==
  /\ pc = "busy"
  /\ LET f == Head(todo) IN
       /\ Fails(f, content)
       /\ Write(f, "PARSING_REVIEW_REQUIRED")
       /\ deferred' = deferred \cup {f}
  /\ NextFiling
  /\ UNCHANGED <<identified, filings, denied, stored, results, faults>>

\* The last original is handled.  Without a readable one a filing that awaited
\* its processing needs a review; one that was being retried stays as it is.  What
\* is not published keeps its error: an earlier denial ends the run once more.
Outcome(f) ==
  CASE any \/ Reads(f, content) -> HandledStatus(f)
    [] docs[f] = <<>> -> "PARSING_REVIEW_REQUIRED"
    [] seen[f] = "AWAITING_PROCESSING" -> "PARSING_REVIEW_REQUIRED"
    [] OTHER -> seen[f]

FinishFiling ==
  /\ pc = "busy"
  /\ LET f == Head(todo) IN
       /\ ~Fails(f, content) /\ place = Len(docs[f])
       /\ Handle(f)
       /\ Write(f, Outcome(f))
       /\ NextFiling \/ (f \in denied /\ Outcome(f) # "PUBLISHED" /\ Abandon)
  /\ UNCHANGED <<identified, filings, deferred, denied, stored, faults>>

\* Filings of the exchange that were found before f and wait as well.  A company's
\* own page is worked through in an order of its own.
Before(g, f) ==
  LET found == created[exchangeOf[f]] IN
  \E i, j \in DOMAIN found : i < j /\ found[i] = g /\ found[j] = f
Earlier(f) == {g \in Awaited(exchangeOf[f]) : Before(g, f)}
Ahead(f) ==
  IF way[f] = "page" THEN {g \in Awaited("BSE") \ {f} : way[g] = "page"}
  ELSE {g \in Earlier(f) : way[g] \notin OwnPage}

\* A run reaches f after one whose original it has asked for in vain before.
Delayed(f) == \E g \in Ahead(f) : status[g] = "DOWNLOAD_RETRY" \/ g \in denied

\* The time for attachments is over: what was handled is committed, the rest is
\* left to the next run.  It can be over every time if one ahead takes it up.
TimeIsUp ==
  /\ pc = "busy"
  /\ IF Delayed(Head(todo)) THEN faults' = faults ELSE faults < MaxFaults /\ faults' = faults + 1
  /\ LET f == Head(todo) IN
       /\ ~Fails(f, content) /\ Handle(f) /\ Write(f, HandledStatus(f))
  /\ Abandon
  /\ UNCHANGED <<identified, filings, deferred, denied, stored>>

\* The process dies: what was not committed is lost.
Killed ==
  /\ faults < MaxFaults /\ faults' = faults + 1
  /\ pc = "busy"
  /\ Abandon
  /\ UNCHANGED <<identified, filings, status, deferred, denied, stored, results>>

-----------------------------------------------------------------------------
\* POST /filings/{id}/preview: any body is kept as an original, unless it is
\* refused; it stands for the link of a row that was registered with one.
\* A failure is a review.
Upload(f, d) ==
  /\ status[f] # "none"
  /\ IF d = "refused" THEN stored' = stored
     ELSE Keep(f, IF way[f] \in ByHand THEN 1 ELSE 0, d)
  /\ status' = IF f \in owned /\ d \in Facts THEN status
               ELSE [status EXCEPT ![f] = "PARSING_REVIEW_REQUIRED"]
  /\ UNCHANGED <<identified, filings, deferred, denied, results, work, faults>>

\* POST /publish: under the writer lease, or not at all.
Publish(f, a) ==
  /\ pc = "idle"
  /\ f \in owned /\ Reads(f, a.content)
  /\ results' = Published(f, a.content)
  /\ status' = [status EXCEPT ![f] = "PUBLISHED"]
  /\ UNCHANGED <<identified, filings, deferred, denied, stored, work, faults>>

\* POST /filings/{id}/mapping: any filing awaits its processing again.
Map(f) ==
  /\ status[f] # "none"
  /\ identified' = identified \cup {exchangeOf[f]}
  /\ owned' = owned \cup {f}
  /\ status' = [status EXCEPT ![f] = "AWAITING_PROCESSING"]
  /\ UNCHANGED <<way, created, deferred, denied, stored, results, work, faults>>

\* retry_at passes.
Due(f) ==
  /\ f \in deferred
  /\ deferred' = deferred \ {f}
  /\ UNCHANGED <<identified, filings, status, denied, stored, results, work, faults>>

Run == NextOriginal \/ DownloadFails \/ Refused \/ Review \/ FinishFiling

Discover(f) == DiscoverNse(f) \/ DiscoverBse(f) \/ DiscoverOfficial(f) \/ RetryOfficial(f)

Administrator(f) ==
  \/ Register(f) \/ Map(f)
  \/ \E d \in uploads[f] : Upload(f, d)
  \/ \E a \in stored[f] : Publish(f, a)

Next ==
  \/ \E f \in Filing : Discover(f) \/ Due(f) \/ Administrator(f)
  \/ \E x \in Exchange : Identify(x) \/ Select(x)
  \/ Run \/ TimeIsUp \/ Killed

Spec == Init /\ [][Next]_vars

\* What a company's own page may link to.
Linked == {f \in Filing : exchangeOf[f] = "BSE" /\ Len(docs[f]) = 1}

\* The runs of an exchange are enabled and scheduled every day; BSE does not limit
\* every one of them before it takes its filings.  A run that is not broken off goes
\* on, and a link stays on the company's page until it is processed.
FairSpec ==
  /\ Spec
  /\ \A x \in Exchange : SF_vars(Select(x))
  /\ WF_vars(Run)
  /\ \A f \in Filing : WF_vars(Due(f))
  /\ \A f \in Linked : SF_vars(RetryOfficial(f))

-----------------------------------------------------------------------------
\* However filings arrive, are retried, published by hand or left by a run, the
\* latest revision alone is current, and each one comes from a filing that was
\* announced after that of the previous one, on the same exchange.
RevisionsAscend ==
  \A i \in DOMAIN results :
    /\ results[i].current <=> i = Len(results)
    /\ i > 1 => /\ Announced(results[i - 1].filing) < Announced(results[i].filing)
                /\ exchangeOf[results[i - 1].filing] = exchangeOf[results[i].filing]
                /\ results[i - 1].facts # results[i].facts

\* What a revision reports is one of the originals kept of each filing it names,
\* and a filing said to be published is named by one.
PublishedIsKept ==
  /\ \A i \in DOMAIN results : \A f \in results[i].provenance :
       \E a \in stored[f] : a.content = results[i].facts
  /\ \A f \in Filing : status[f] = "PUBLISHED" =>
       \E i \in DOMAIN results : f \in results[i].provenance

\* The period as its readers see it.
historyOf ==
  [i \in DOMAIN results |-> [filing |-> results[i].filing, facts |-> results[i].facts,
                            named |-> results[i].provenance]]

Readers ==
  INSTANCE RevisionHistory
  WITH history <- historyOf,
       Reports <- [f \in Filing |-> ({docs[f][i] : i \in DOMAIN docs[f]} \cup uploads[f]) \cap Facts]

\* Runs that break off, retries, statuses, uploads and publications by hand are
\* invisible: a period's results are a history that grows at its end, in the order
\* of the announcements, and of which only the last revision is ever confirmed
\* (results.py:publish and process, result_routes.py:publish).
ImplementsRevisionHistory == Readers!Spec

\* Filings that were found earlier and wait as well fill the batch of a run, those
\* that it skips included.
BatchIsTaken(f) == way[f] # "page" /\ Cardinality(Earlier(f)) >= Batch

\* A link of the company's page that an administrator registered is processed by no
\* run: one works through a batch without them, the other through what it finds.
Unreached(f) == way[f] = "official"

Waits(f) ==
  /\ status[f] = "AWAITING_PROCESSING" /\ f \in owned
  /\ Tracked(exchangeOf[f])

\* A filing that awaits its processing is processed, unless Batch earlier ones wait
\* as well, whether or not they may be retried yet, or a run that may be denied or
\* held up reaches it after one that is retried for ever.
FilingsAreTried ==
  \A f \in Filing : []<>(~Waits(f) \/ BatchIsTaken(f) \/ Delayed(f) \/ Unreached(f))
=============================================================================
