---------------------------- MODULE EmailDigest ----------------------------
(***************************************************************************)
(* The opening-day digests: a snapshot of the day's IPOs, one campaign per *)
(* GMP band, and batches of deliveries, prepared by every dispatcher tick  *)
(* of the day and sent by the same tick.  Preferences, IPOs and GMP        *)
(* change meanwhile, and a tick may stop at any point.                     *)
(*                                                                         *)
(* One dispatcher: EmailOutbox shows that its ticks do not overlap.  The   *)
(* rows of earlier days play no part (digest_date, scheduled_date), so the *)
(* state is that of one day and NextDay empties it.                        *)
(***************************************************************************)
EXTENDS Naturals, FiniteSets

CONSTANTS
  Subscriber,   \* a set of numbers: the order of email_subscribers.id
  Ipo,
  Bands,        \* length of BANDS: 4, white first
  Batch,        \* subscribers of one band that a tick takes: 200
  MaxLost       \* ticks that stop half-way (bounds the model)

ASSUME SubscriberAssumption == Subscriber \subseteq Nat
ASSUME BoundAssumption == Bands \in Nat /\ Batch \in Nat /\ MaxLost \in Nat

Band == 1 .. Bands
NoBand == 0     \* gmp_band is NULL: a subscriber of the older listing alerts

VARIABLES
  eligible,     \* IPOs with eligible_opening today
  active,       \* subscribers: verified, not unsubscribed, not suppressed
  pref,         \* gmp_band
  snapshot,     \* today's campaigns exist
  items,        \* ipo_ids of the campaign of each band
  digest, category,  \* status of today's digest row, and its campaign
  alert,        \* status of a listing alert scheduled for today
  got,          \* mails SES accepted for the subscriber today
  pc,           \* the tick: idle, or in the transaction of a batch
  left,         \* campaigns this transaction has not visited
  rows,         \* rows it has inserted and not committed
  lost

day == <<snapshot, items, digest, category, alert, got>>
world == <<eligible, active, pref>>
tick == <<pc, left, rows>>
digestVars == <<eligible, active, pref, snapshot, items, digest, category, alert, got,
          pc, left, rows, lost>>

Status == {"none", "PENDING", "SENT", "CANCELLED", "SUPPRESSED"}
NoRows == [s \in Subscriber |-> NoBand]

DigestTypeOK ==
  /\ eligible \subseteq Ipo
  /\ active \subseteq Subscriber /\ pref \in [Subscriber -> Band \cup {NoBand}]
  /\ snapshot \in BOOLEAN /\ items \in [Band -> SUBSET Ipo]
  /\ digest \in [Subscriber -> Status] /\ alert \in [Subscriber -> Status]
  /\ category \in [Subscriber -> Band \cup {NoBand}]
  /\ got \in [Subscriber -> Nat]
  /\ pc \in {"idle", "batch"} /\ left \subseteq Band
  /\ rows \in [Subscriber -> Band \cup {NoBand}]
  /\ lost \in 0 .. MaxLost

DigestInit ==
  /\ eligible \in SUBSET Ipo
  /\ active \in SUBSET Subscriber /\ pref \in [Subscriber -> Band \cup {NoBand}]
  /\ snapshot = FALSE
  /\ items = [c \in Band |-> {}]
  /\ digest = [s \in Subscriber |-> "none"]
  /\ category = NoRows
  /\ alert = [s \in Subscriber |-> "none"]
  /\ got = [s \in Subscriber |-> 0]
  /\ pc = "idle" /\ left = {} /\ rows = NoRows
  /\ lost = 0

-----------------------------------------------------------------------------
\* An IPO in band b is of interest to the preferences up to b; white is all.
matching_preferences(b) == 1 .. b

\* Faulty: only the digests of the day are counted.
ContactedByDigest(s) == digest[s] \notin {"none", "CANCELLED"} \/ rows[s] # NoBand

\* A delivery of today that is not cancelled.
Contacted(s) ==
  \/ digest[s] \notin {"none", "CANCELLED"}
  \/ alert[s] \notin {"none", "CANCELLED"}
  \/ rows[s] # NoBand

\* Faulty: the batch is the same every time.
CandidatesAlways(c) == {s \in active : pref[s] = c}

\* Whom the query of a campaign finds, and the first of them by id.
Candidates(c) == {s \in active : pref[s] = c /\ ~Contacted(s)}
First(S) == {s \in S : Cardinality({t \in S : t < s}) < Batch}

\* The first tick of the day with an IPO opening writes the campaigns of every
\* band, the empty ones too, in one transaction; later ticks keep them.  The
\* band of an IPO (current_band) is what its GMP is at that moment, gmp[i].
TakeSnapshot ==
  /\ pc = "idle" /\ ~snapshot /\ eligible # {}
  /\ snapshot' = TRUE
  /\ \E gmp \in [eligible -> Band] :
       items' = [c \in Band |-> {i \in eligible : c \in matching_preferences(gmp[i])}]
  /\ pc' = "batch" /\ left' = Band
  /\ UNCHANGED <<world, digest, category, alert, got, rows, lost>>

Resume ==
  /\ pc = "idle" /\ snapshot
  /\ pc' = "batch" /\ left' = Band
  /\ UNCHANGED <<world, day, rows, lost>>

\* One campaign: its members, and a row for each of the first candidates unless
\* one of today exists (ON CONFLICT (subscriber_id, digest_date) DO NOTHING).
FillBatch(c) ==
  /\ pc = "batch" /\ c \in left
  /\ left' = left \ {c}
  /\ rows' = IF items[c] = {} THEN rows
             ELSE [s \in Subscriber |->
                     IF s \in First(Candidates(c)) /\ digest[s] = "none" THEN c ELSE rows[s]]
  /\ UNCHANGED <<world, day, pc, lost>>

CommitBatch ==
  /\ pc = "batch" /\ left = {}
  /\ digest' = [s \in Subscriber |-> IF rows[s] # NoBand THEN "PENDING" ELSE digest[s]]
  /\ category' = [s \in Subscriber |-> IF rows[s] # NoBand THEN rows[s] ELSE category[s]]
  /\ pc' = "idle" /\ rows' = NoRows
  /\ UNCHANGED <<world, snapshot, items, alert, got, left, lost>>

\* The tick dies or fails in the transaction of its batch.
LoseTick ==
  /\ pc = "batch" /\ lost < MaxLost
  /\ lost' = lost + 1
  /\ pc' = "idle" /\ left' = {} /\ rows' = NoRows
  /\ UNCHANGED <<world, day>>

\* A listing alert, for those who never chose a band.
PrepareAlert(s) ==
  /\ pc = "idle" /\ s \in active /\ pref[s] = NoBand /\ alert[s] = "none"
  /\ alert' = [alert EXCEPT ![s] = "PENDING"]
  /\ UNCHANGED <<world, snapshot, items, digest, category, got, tick, lost>>

-----------------------------------------------------------------------------
\* digest_is_current: the recipient's band is still the campaign's, and every
\* IPO of the snapshot is still eligible.
digest_is_current(s) == pref[s] = category[s] /\ items[category[s]] \subseteq eligible

Outcome(s, current) ==
  IF s \notin active THEN "SUPPRESSED" ELSE IF current THEN "SENT" ELSE "CANCELLED"

Count(s, status) == [got EXCEPT ![s] = IF status = "SENT" THEN @ + 1 ELSE @]

SendDigest(s) ==
  /\ pc = "idle" /\ digest[s] = "PENDING"
  /\ LET status == Outcome(s, digest_is_current(s)) IN
       /\ digest' = [digest EXCEPT ![s] = status]
       /\ got' = Count(s, status)
  /\ UNCHANGED <<world, snapshot, items, category, alert, tick, lost>>

\* Also cancelled when the listing is no longer eligible or its hours are over.
SendAlert(s) ==
  /\ pc = "idle" /\ alert[s] = "PENDING"
  /\ \E eligibleListing \in BOOLEAN :
       LET status == Outcome(s, pref[s] = NoBand /\ eligibleListing) IN
         /\ alert' = [alert EXCEPT ![s] = status]
         /\ got' = Count(s, status)
  /\ UNCHANGED <<world, snapshot, items, digest, category, tick, lost>>

-----------------------------------------------------------------------------
\* What the requests, the imports and the calendar do meanwhile.
Confirm(s, c) ==
  /\ active' = active \cup {s}
  /\ pref' = [pref EXCEPT ![s] = c]
  /\ UNCHANGED <<eligible, day, tick, lost>>

Leave(s) ==
  /\ active' = active \ {s}
  /\ UNCHANGED <<eligible, pref, day, tick, lost>>

IpoChanges(i) ==
  /\ eligible' = IF i \in eligible THEN eligible \ {i} ELSE eligible \cup {i}
  /\ UNCHANGED <<active, pref, day, tick, lost>>

NextDay ==
  /\ eligible' \in SUBSET Ipo
  /\ snapshot' = FALSE
  /\ items' = [c \in Band |-> {}]
  /\ digest' = [s \in Subscriber |-> "none"]
  /\ category' = NoRows
  /\ alert' = [s \in Subscriber |-> "none"]
  /\ got' = [s \in Subscriber |-> 0]
  /\ pc' = "idle" /\ left' = {} /\ rows' = NoRows
  /\ UNCHANGED <<active, pref, lost>>

Tick ==
  \/ TakeSnapshot \/ Resume \/ CommitBatch
  \/ \E c \in Band : FillBatch(c)
  \/ \E s \in Subscriber : SendDigest(s) \/ SendAlert(s)

DigestNext ==
  \/ Tick
  \/ LoseTick
  \/ \E s \in Subscriber : PrepareAlert(s) \/ Leave(s) \/ \E c \in Band : Confirm(s, c)
  \/ \E i \in Ipo : IpoChanges(i)
  \/ NextDay

DigestSpec == DigestInit /\ [][DigestNext]_digestVars

\* beat sends a tick every minute, and a tick that is not killed goes on.
FairDigestSpec ==
  /\ DigestSpec
  /\ WF_digestVars(TakeSnapshot \/ Resume) /\ WF_digestVars(CommitBatch)
  /\ \A c \in Band : WF_digestVars(FillBatch(c))

-----------------------------------------------------------------------------
\* A subscriber gets one digest a day and none on top of a listing alert (the
\* model has one listing a day), whatever changes of preferences, a repeated
\* tick or a tick that died do.
OneMailADay == \A s \in Subscriber : got[s] <= 1

\* Who waits for the digest of their band.
Waiting(s, c) ==
  /\ s \in active /\ pref[s] = c /\ ~Contacted(s) /\ digest[s] = "none"
  /\ items[c] # {}

\* A batch full of subscribers whose digest of today was cancelled: they are
\* found again by every tick and get no second row.
BatchIsTaken(c) ==
  Cardinality({t \in active : pref[t] = c /\ digest[t] = "CANCELLED"}) >= Batch

\* Everybody who waits is served (or stops waiting), however many are ahead,
\* unless those cancelled earlier fill the whole batch.
EveryoneIsServed ==
  \A s \in Subscriber, c \in Band : Waiting(s, c) ~> (~Waiting(s, c) \/ BatchIsTaken(c))
=============================================================================
