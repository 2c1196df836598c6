---------------------------- MODULE EmailOutbox ----------------------------
(***************************************************************************)
(* The email outbox: email_deliveries rows, the dispatcher that sends them *)
(* through Amazon SES once a minute, and everything that changes a row, a  *)
(* subscriber or a switch meanwhile: sign-up, confirmation, unsubscribing, *)
(* signed SES events, administrators.                                      *)
(*                                                                         *)
(* send-email is not idempotent: a request whose answer is lost may have   *)
(* been accepted, and may still be accepted after its sender is gone.      *)
(* One action is one transaction of the code, or one step of SES.          *)
(***************************************************************************)
EXTENDS Naturals, FiniteSets

CONSTANTS
  Delivery,     \* identifiers of the rows
  Kind,         \* Kind[d]: TEST, VERIFY or ALERT
  Subscriber, Recipient,  \* Recipient[d]: the subscriber of d
  Dispatcher,   \* processes that execute email_tick
  NoOne,        \* no dispatcher, no row
  Batch,        \* capacity of one tick
  MaxTries,     \* email_max_attempts
  TickLimit,    \* time_limit of email_tick
  Lease,        \* lease_until of email_controls
  Stale,        \* age at which a SENDING row is given up
  Faults, MaxFaults  \* kinds and number of faults (bounds the model)

Kinds == {"TEST", "VERIFY", "ALERT"}
FaultKinds == {"timeout", "tick", "killed"}
Switch == {"sending", "feature"}

ASSUME DeliveryAssumption == Kind \in [Delivery -> Kinds] /\ Recipient \in [Delivery -> Subscriber]
ASSUME DispatcherAssumption == NoOne \notin Dispatcher \cup Delivery
ASSUME LimitAssumption ==
  /\ Batch \in Nat /\ MaxTries \in Nat \ {0} /\ MaxFaults \in Nat
  /\ TickLimit \in Nat /\ Lease \in Nat /\ Stale \in Nat
  /\ TickLimit <= Lease /\ TickLimit <= Stale

VARIABLES
  st,           \* email_deliveries.status, "absent" before the insert
  tries,        \* attempt_count
  later,        \* rows whose retry_at is in the future
  throttled,    \* rows whose error_code is SES_THROTTLED
  known,        \* rows whose accepted_at is set
  expired,      \* rows created more than 24 hours ago
  sendAge,      \* time since updated_at of a SENDING row (0 otherwise)
  suppressed, subscribed, \* subscribers with suppressed_at; verified, not unsubscribed
  on,           \* the switches that are on
  holder, leaseAge,       \* lease_owner, time since the lease was taken
  pc, cur, todo, age, approved, answer, \* per dispatcher; answer: its SES request
  lingering,    \* rows with an unanswered request whose sender no longer waits
  accepted,     \* how often SES has accepted the mail of a row
  late,         \* requests begun after a stop (history variable)
  faults

rows == <<st, tries, later, throttled, known, expired, sendAge>>
people == <<suppressed, subscribed>>
lease == <<holder, leaseAge>>
procs == <<pc, cur, todo, age, approved, answer>>
ses == <<lingering, accepted>>
vars == <<st, tries, later, throttled, known, expired, sendAge, suppressed, subscribed, on,
          holder, leaseAge, pc, cur, todo, age, approved, answer, lingering,
          accepted, late, faults>>

Queued == {"PENDING", "RETRY"}
Feedback == {"ACCEPTED", "DELAYED", "SOFT_BOUNCE", "DELIVERED", "REJECTED", "BOUNCED", "COMPLAINT"}
Status == Queued \cup Feedback \cup
  {"absent", "SENDING", "UNCERTAIN", "FAILED", "SUPPRESSED", "EXPIRED", "CANCELLED", "CONFIRMED"}
Point == {"idle", "locked", "maintained", "prepared", "next", "claim", "check", "ready", "waiting"}
Answer == {"none", "open", "accepted", "throttled", "refused"}
Event == {"Send", "DeliveryDelay", "TransientBounce", "Delivery", "Reject", "Bounce",
          "Complaint", "Open"}

\* What a sender must respect: a switch that is off, a suppression, an unsubscription.
Stop == ({"off"} \X Switch) \cup ({"suppressed", "unsubscribed"} \X Subscriber)

TypeOK ==
  /\ st \in [Delivery -> Status]
  /\ tries \in [Delivery -> 0 .. MaxTries]
  /\ later \subseteq Delivery /\ throttled \subseteq Delivery /\ known \subseteq Delivery
  /\ expired \subseteq Delivery
  /\ sendAge \in [Delivery -> 0 .. Stale + 1]
  /\ suppressed \subseteq Subscriber /\ subscribed \subseteq Subscriber
  /\ on \subseteq Switch
  /\ holder \in Dispatcher \cup {NoOne}
  /\ leaseAge \in 0 .. Lease + 1
  /\ pc \in [Dispatcher -> Point]
  /\ cur \in [Dispatcher -> Delivery \cup {NoOne}]
  /\ todo \in [Dispatcher -> SUBSET Delivery]
  /\ age \in [Dispatcher -> 0 .. TickLimit]
  /\ approved \in [Dispatcher -> BOOLEAN]
  /\ answer \in [Dispatcher -> Answer]
  /\ lingering \subseteq Delivery
  /\ accepted \in [Delivery -> 0 .. 2]
  /\ late \in [Stop -> 0 .. 2]
  /\ faults \in 0 .. MaxFaults

Init ==
  /\ st = [d \in Delivery |-> "absent"]
  /\ tries = [d \in Delivery |-> 0]
  /\ later = {} /\ throttled = {} /\ known = {} /\ expired = {}
  /\ sendAge = [d \in Delivery |-> 0]
  /\ suppressed = {} /\ subscribed \in SUBSET Subscriber
  /\ on \in SUBSET Switch
  /\ holder = NoOne /\ leaseAge = 0
  /\ pc = [w \in Dispatcher |-> "idle"]
  /\ cur = [w \in Dispatcher |-> NoOne]
  /\ todo = [w \in Dispatcher |-> {}]
  /\ age = [w \in Dispatcher |-> 0]
  /\ approved = [w \in Dispatcher |-> FALSE]
  /\ answer = [w \in Dispatcher |-> "none"]
  /\ lingering = {}
  /\ accepted = [d \in Delivery |-> 0]
  /\ late = [x \in Stop |-> 0]
  /\ faults = 0

-----------------------------------------------------------------------------
Least(a, b) == IF a <= b THEN a ELSE b
Up(n) == Least(n + 1, 2)   \* saturating count: the properties tell 0, 1 and more apart

Fault(f) == f \in Faults /\ faults < MaxFaults /\ faults' = faults + 1

\* active(subscriber)
Active(s) == s \in subscribed /\ s \notin suppressed

\* send_one's consent check after the claim.
Forbidden(d) ==
  \/ Recipient[d] \in suppressed
  \/ Kind[d] = "ALERT" /\ ~Active(Recipient[d])

\* Faulty: relies on the approval of the whole tick.
GateOfTick(d) == TRUE

\* send_one's gate before the claim.
Gate(d) ==
  /\ Kind[d] = "ALERT" => on = Switch
  /\ Kind[d] = "VERIFY" => "feature" \in on

\* Faulty: a lease of TickLimit from another clock, expired while it is held.
LeaseFreeEarly == holder = NoOne \/ leaseAge >= Lease

\* The update of email_controls finds lease_until null or past.
LeaseFree == holder = NoOne \/ leaseAge > Lease

\* Faulty: one attempt too many.
BudgetOffByOne(d) == tries[d] <= MaxTries

\* attempt_count < email_max_attempts
Budget(d) == tries[d] < MaxTries

\* Faulty: a request that was not answered is tried again.
GiveUpStatusRetry == "RETRY"

\* What a row becomes whose sender did not come back.
GiveUpStatus == "UNCERTAIN"

\* Faulty: reconciles nothing.
LostNone == {}

\* maintain_outbox: SENDING, updated_at more than Stale ago.
Lost == {d \in Delivery : st[d] = "SENDING" /\ sendAge[d] > Stale}

Rank(s) ==
  CASE s = "ACCEPTED" -> 1
    [] s \in {"DELAYED", "SOFT_BOUNCE"} -> 2
    [] s = "DELIVERED" -> 3
    [] s \in {"FAILED", "REJECTED"} -> 4
    [] s = "BOUNCED" -> 5
    [] s \in {"COMPLAINT", "SUPPRESSED"} -> 6
    [] OTHER -> 0

StateOf(e) ==
  CASE e = "Send" -> "ACCEPTED"
    [] e = "DeliveryDelay" -> "DELAYED"
    [] e = "TransientBounce" -> "SOFT_BOUNCE"
    [] e = "Delivery" -> "DELIVERED"
    [] e = "Reject" -> "REJECTED"
    [] e = "Bounce" -> "BOUNCED"
    [] e = "Complaint" -> "COMPLAINT"
    [] OTHER -> "absent"

\* ingest_event replaces the status only by one of higher rank.
Moves(d, e) == st[d] # "CONFIRMED" /\ Rank(StateOf(e)) > Rank(st[d])

\* Faulty: the success of send_email is written whatever the row says by now.
AcceptedStateAlways(s) == "ACCEPTED"

\* The CASE of the success update: events that came first stand.
AcceptedState(s) == IF s \in {"SENDING", "UNCERTAIN"} THEN "ACCEPTED" ELSE s

\* The stops in force, and those that concern a row.
InForce ==
  ({"off"} \X (Switch \ on)) \cup ({"suppressed"} \X suppressed)
    \cup ({"unsubscribed"} \X (Subscriber \ subscribed))

Concerning(d) ==
  {<<"suppressed", Recipient[d]>>} \cup
  (CASE Kind[d] = "ALERT" -> ({"off"} \X Switch) \cup {<<"unsubscribed", Recipient[d]>>}
     [] Kind[d] = "VERIFY" -> {<<"off", "feature">>}
     [] OTHER -> {})

\* The row d takes status s; a SENDING row starts its age, any other has none.
Become(d, s) ==
  /\ st' = [st EXCEPT ![d] = s]
  /\ sendAge' = [sendAge EXCEPT ![d] = 0]

At(w, p) == pc' = [pc EXCEPT ![w] = p]

\* The process is done, or gone; its request, if unanswered, goes on without it.
Gone(w) ==
  /\ At(w, "idle")
  /\ cur' = [cur EXCEPT ![w] = NoOne]
  /\ todo' = [todo EXCEPT ![w] = {}]
  /\ age' = [age EXCEPT ![w] = 0]
  /\ approved' = [approved EXCEPT ![w] = FALSE]
  /\ answer' = [answer EXCEPT ![w] = "none"]
  /\ lingering' = IF answer[w] = "open" THEN lingering \cup {cur[w]} ELSE lingering

\* The finally block: release where lease_owner = owner.
Release(w) ==
  /\ holder' = IF holder = w THEN NoOne ELSE holder
  /\ leaseAge' = IF holder = w THEN 0 ELSE leaseAge

-----------------------------------------------------------------------------
(* One tick *)

Lock(w) ==
  /\ pc[w] = "idle" /\ LeaseFree
  /\ holder' = w /\ leaseAge' = 0
  /\ At(w, "locked")
  /\ UNCHANGED <<rows, people, on, cur, todo, age, approved, answer, ses, late, faults>>

\* maintain_outbox, and the insert of the dispatch run.
Maintain(w) ==
  /\ pc[w] = "locked"
  /\ st' = [d \in Delivery |-> IF d \in Lost THEN GiveUpStatus ELSE st[d]]
  /\ sendAge' = [d \in Delivery |-> IF d \in Lost THEN 0 ELSE sendAge[d]]
  /\ throttled' = throttled \ Lost
  /\ At(w, "maintained")
  /\ UNCHANGED <<tries, later, known, expired, people, on, lease, cur, todo, age, approved,
                 answer, ses, late, faults>>

\* production_checks may fail for reasons of its own (AWS, DNS, heartbeat).
\* prepare inserts alerts for active subscribers only.  It also retires alerts
\* of the kind ipo_opening, of which the code inserts none any more: rows that
\* an older release left are not in the model.
Prepare(w) ==
  /\ pc[w] = "maintained"
  /\ \/ approved' = approved /\ UNCHANGED rows
     \/ /\ on = Switch
        /\ approved' = [approved EXCEPT ![w] = TRUE]
        /\ \E S \in SUBSET {d \in Delivery : st[d] = "absent" /\ Kind[d] = "ALERT"
                                              /\ Active(Recipient[d])} :
             st' = [d \in Delivery |-> IF d \in S THEN "PENDING" ELSE st[d]]
        /\ UNCHANGED <<tries, later, throttled, known, expired, sendAge>>
  /\ At(w, "prepared")
  /\ UNCHANGED <<people, on, lease, cur, todo, age, answer, ses, late, faults>>

Allowed(w) ==
  {"TEST"} \cup (IF "feature" \in on THEN {"VERIFY"} ELSE {})
           \cup (IF approved[w] THEN {"ALERT"} ELSE {})

\* token_expired, of a confirmation
Outdated == {d \in expired : Kind[d] = "VERIFY"}

Ready(d) == st[d] \in Queued /\ d \notin later

\* The query for the rows of a tick, limited by its capacity.
Take(w, capacity) ==
  /\ pc[w] = "prepared"
  /\ LET due == {d \in Delivery : Kind[d] \in Allowed(w) /\ Ready(d)}
     IN  \E S \in SUBSET due :
           /\ Cardinality(S) = Least(capacity, Cardinality(due))
           /\ todo' = [todo EXCEPT ![w] = S]
  /\ At(w, "next")
  /\ UNCHANGED <<rows, people, on, lease, cur, age, approved, answer, ses, late, faults>>

\* remaining_quota is what SES leaves of the day's quota, and 0 where readiness
\* could not be established.
Select(w) == \E capacity \in 0 .. Batch : Take(w, capacity)

\* Back to the loop of email_tick, which ends at a row that is to be retried.
Continue(w, d) ==
  /\ At(w, "next")
  /\ cur' = [cur EXCEPT ![w] = NoOne]
  /\ todo' = [todo EXCEPT ![w] = IF st'[d] = "RETRY" THEN {} ELSE @ \ {d}]

\* send_one reads the switches ...
PassGate(w, d) ==
  /\ pc[w] = "next" /\ d \in todo[w] /\ Gate(d)
  /\ cur' = [cur EXCEPT ![w] = d]
  /\ At(w, "claim")
  /\ UNCHANGED <<rows, people, on, lease, todo, age, approved, answer, ses, late, faults>>

HoldBack(w, d) ==
  /\ pc[w] = "next" /\ d \in todo[w] /\ ~Gate(d)
  /\ UNCHANGED <<rows, people, on, lease, age, approved, answer, ses, late, faults>>
  /\ Continue(w, d)

\* ... claims the row, or finds that it is not to be sent any more ...
Claim(w) ==
  /\ pc[w] = "claim" /\ Ready(cur[w])
  /\ Become(cur[w], "SENDING")
  /\ tries' = [tries EXCEPT ![cur[w]] = @ + 1]
  /\ At(w, "check")
  /\ UNCHANGED <<later, throttled, known, expired, people, on, lease, cur, todo, age, approved,
                 answer, ses, late, faults>>

ClaimLost(w) ==
  /\ pc[w] = "claim" /\ ~Ready(cur[w])
  /\ UNCHANGED <<rows, people, on, lease, age, approved, answer, ses, late, faults>>
  /\ Continue(w, cur[w])

\* ... reads row, subscriber and campaign again ...
Withhold(w) ==
  /\ pc[w] = "check"
  /\ \/ Forbidden(cur[w]) /\ Become(cur[w], "SUPPRESSED")
     \/ ~Forbidden(cur[w]) /\ cur[w] \in Outdated /\ Become(cur[w], "EXPIRED")
     \/ ~Forbidden(cur[w]) /\ Kind[cur[w]] = "ALERT" /\ Become(cur[w], "CANCELLED")
  /\ throttled' = IF Kind[cur[w]] = "ALERT" /\ ~Forbidden(cur[w])
                  THEN throttled \ {cur[w]} ELSE throttled
  /\ Continue(w, cur[w])
  /\ UNCHANGED <<tries, later, known, expired, people, on, lease, age, approved, answer,
                 ses, late, faults>>

\* GMP_BAND_CHANGED: back to the queue for ten minutes, the attempt not counted.
Defer(w) ==
  /\ pc[w] = "check" /\ Kind[cur[w]] = "ALERT" /\ ~Forbidden(cur[w])
  /\ Become(cur[w], "PENDING")
  /\ tries' = [tries EXCEPT ![cur[w]] = @ - 1]
  /\ later' = later \cup {cur[w]}
  /\ throttled' = throttled \ {cur[w]}
  /\ Continue(w, cur[w])
  /\ UNCHANGED <<known, expired, people, on, lease, age, approved, answer, ses, late, faults>>

Compose(w) ==
  /\ pc[w] = "check" /\ ~Forbidden(cur[w]) /\ cur[w] \notin Outdated
  /\ At(w, "ready")
  /\ UNCHANGED <<rows, people, on, lease, cur, todo, age, approved, answer, ses, late, faults>>

\* ... and calls SES, with the SDK's retries off.
Request(w) ==
  /\ pc[w] = "ready"
  /\ At(w, "waiting")
  /\ answer' = [answer EXCEPT ![w] = "open"]
  /\ late' = [x \in Stop |->
        IF x \in InForce \cap Concerning(cur[w]) THEN Up(late[x]) ELSE late[x]]
  /\ UNCHANGED <<rows, people, on, lease, cur, todo, age, approved, ses, faults>>

SesAnswers(w) ==
  /\ pc[w] = "waiting" /\ answer[w] = "open"
  /\ \E a \in {"accepted", "throttled", "refused"} :
       /\ answer' = [answer EXCEPT ![w] = a]
       /\ accepted' = IF a = "accepted" THEN [accepted EXCEPT ![cur[w]] = Up(@)] ELSE accepted
  /\ UNCHANGED <<rows, people, on, lease, pc, cur, todo, age, approved, lingering, late, faults>>

RecordAccepted(w) ==
  /\ pc[w] = "waiting" /\ answer[w] = "accepted"
  /\ LET s == AcceptedState(st[cur[w]])
     IN  /\ Become(cur[w], s)
         /\ throttled' = IF s # st[cur[w]] THEN throttled \ {cur[w]} ELSE throttled
  /\ known' = known \cup {cur[w]}
  /\ answer' = [answer EXCEPT ![w] = "none"]
  /\ Continue(w, cur[w])
  /\ UNCHANGED <<tries, later, expired, people, on, lease, age, approved, ses, late, faults>>

\* Throttling proves that the request was not accepted; another refusal is
\* final.  Both are written only while the row is SENDING.
RecordRefused(w) ==
  /\ pc[w] = "waiting" /\ answer[w] \in {"throttled", "refused"}
  /\ LET d == cur[w]
         retry == answer[w] = "throttled" /\ Budget(d)
     IN  IF st[d] = "SENDING"
         THEN /\ Become(d, IF retry THEN "RETRY" ELSE "FAILED")
              /\ later' = IF retry THEN later \cup {d} ELSE later \ {d}
              /\ throttled' = IF answer[w] = "throttled"
                              THEN throttled \cup {d} ELSE throttled \ {d}
         ELSE UNCHANGED <<st, sendAge, later, throttled>>
  /\ answer' = [answer EXCEPT ![w] = "none"]
  /\ Continue(w, cur[w])
  /\ UNCHANGED <<tries, known, expired, people, on, lease, age, approved, ses, late, faults>>

\* The answer is lost (timeout, HTTP 5xx, soft time limit).
RecordUnknown(w) ==
  /\ pc[w] = "waiting"
  /\ Fault("timeout")
  /\ IF st[cur[w]] = "SENDING"
     THEN Become(cur[w], GiveUpStatus) /\ throttled' = throttled \ {cur[w]}
     ELSE UNCHANGED <<st, sendAge, throttled>>
  /\ lingering' = IF answer[w] = "open" THEN lingering \cup {cur[w]} ELSE lingering
  /\ answer' = [answer EXCEPT ![w] = "none"]
  /\ Continue(w, cur[w])
  /\ UNCHANGED <<tries, later, known, expired, people, on, lease, age, approved, accepted, late>>

FinishTick(w) ==
  /\ pc[w] = "next" /\ todo[w] = {}
  /\ Gone(w) /\ Release(w)
  /\ UNCHANGED <<rows, people, on, accepted, late, faults>>

\* An exception outside the SES call: the lease is given back once the
\* dispatch run exists; a claimed row stays SENDING.
TickFails(w) ==
  /\ pc[w] # "idle"
  /\ Fault("tick")
  /\ Gone(w)
  /\ IF pc[w] = "locked" THEN UNCHANGED lease ELSE Release(w)
  /\ UNCHANGED <<rows, people, on, accepted, late>>

\* The hard time limit (Tick does not pass it), or a crash: the lease stays.
Killed(w) ==
  /\ pc[w] # "idle"
  /\ Fault("killed")
  /\ Gone(w)
  /\ UNCHANGED <<rows, people, on, lease, accepted, late>>

-----------------------------------------------------------------------------
(* SES *)

\* A request whose sender is gone is accepted after all, or is lost.
LateAcceptance(d) ==
  /\ d \in lingering
  /\ lingering' = lingering \ {d}
  /\ accepted' = [accepted EXCEPT ![d] = Up(@)]
  /\ UNCHANGED <<rows, people, on, lease, procs, late, faults>>

RequestLost(d) ==
  /\ d \in lingering
  /\ lingering' = lingering \ {d}
  /\ UNCHANGED <<rows, people, on, lease, procs, accepted, late, faults>>

\* A signed event about an accepted message: in any order, any number of times.
Ingest(d, e) ==
  /\ accepted[d] > 0
  /\ IF Moves(d, e)
     THEN Become(d, StateOf(e)) /\ throttled' = throttled \ {d}
     ELSE UNCHANGED <<st, sendAge, throttled>>
  /\ known' = known \cup {d}
  /\ suppressed' = IF e \in {"Complaint", "Bounce"}
                   THEN suppressed \cup {Recipient[d]} ELSE suppressed
  /\ UNCHANGED <<tries, later, expired, subscribed, on, lease, procs, ses, late, faults>>

-----------------------------------------------------------------------------
(* Subscribers and administrators *)

Insert(d) ==
  /\ st[d] = "absent"
  /\ st' = [st EXCEPT ![d] = "PENDING"]
  /\ UNCHANGED <<tries, later, throttled, known, expired, sendAge, people, on, lease, procs,
                 ses, late, faults>>

\* subscribe: no second confirmation while one of the last 24 hours is open.
Subscribe(d) ==
  /\ Kind[d] = "VERIFY" /\ "feature" \in on /\ Recipient[d] \notin suppressed
  /\ \A e \in Delivery :
       Kind[e] = "VERIFY" /\ Recipient[e] = Recipient[d] =>
         st[e] \in {"absent", "CONFIRMED"} \/ e \in expired
  /\ Insert(d)

RequestTest(d) ==
  /\ Kind[d] = "TEST" /\ Recipient[d] \notin suppressed
  /\ Insert(d)

\* The link of a confirmation that has arrived.  Once CONFIRMED it changes nothing.
Confirm(d) ==
  /\ Kind[d] = "VERIFY" /\ accepted[d] > 0 /\ d \notin expired
  /\ Recipient[d] \notin suppressed /\ st[d] # "CONFIRMED"
  /\ Become(d, "CONFIRMED")
  /\ subscribed' = subscribed \cup {Recipient[d]}
  /\ late' = [late EXCEPT ![<<"unsubscribed", Recipient[d]>>] = 0]
  /\ UNCHANGED <<tries, later, throttled, known, expired, suppressed, on, lease, procs,
                 ses, faults>>

\* The link of any mail that has arrived.
Unsubscribe(d) ==
  /\ accepted[d] > 0 /\ Recipient[d] \in subscribed
  /\ subscribed' = subscribed \ {Recipient[d]}
  /\ UNCHANGED <<rows, suppressed, on, lease, procs, ses, late, faults>>

TurnOff(x) ==
  /\ x \in on /\ on' = on \ {x}
  /\ UNCHANGED <<rows, people, lease, procs, ses, late, faults>>

\* The production switch needs every readiness check, the feature's among them.
TurnOn(x) ==
  /\ x \notin on /\ (x = "sending" => "feature" \in on)
  /\ on' = on \cup {x}
  /\ late' = [late EXCEPT ![<<"off", x>>] = 0]
  /\ UNCHANGED <<rows, people, lease, procs, ses, faults>>

\* retry: throttled, not accepted, within the budget; the back-off stays.
AdminRetry(d) ==
  /\ st[d] \in {"RETRY", "FAILED"} /\ d \in throttled /\ d \notin known /\ Budget(d)
  /\ st' = [st EXCEPT ![d] = "RETRY"]
  /\ later' = later \cup {d}
  /\ UNCHANGED <<tries, throttled, known, expired, sendAge, people, on, lease, procs, ses,
                 late, faults>>

\* retry_at passes.
BecomesDue(d) ==
  /\ d \in later /\ later' = later \ {d}
  /\ UNCHANGED <<st, tries, throttled, known, expired, sendAge, people, on, lease, procs, ses,
                 late, faults>>

\* A day passes; only confirmations have a use for it.
Expires(d) ==
  /\ Kind[d] = "VERIFY" /\ st[d] # "absent" /\ d \notin expired
  /\ expired' = expired \cup {d}
  /\ UNCHANGED <<st, tries, later, throttled, known, sendAge, people, on, lease, procs, ses,
                 late, faults>>

Tick ==
  /\ \A w \in Dispatcher : pc[w] # "idle" => age[w] < TickLimit
  /\ age' = [w \in Dispatcher |-> IF pc[w] = "idle" THEN 0 ELSE age[w] + 1]
  /\ leaseAge' = IF holder = NoOne THEN 0 ELSE Least(leaseAge + 1, Lease + 1)
  /\ sendAge' = [d \in Delivery |->
        IF st[d] = "SENDING" THEN Least(sendAge[d] + 1, Stale + 1) ELSE 0]
  /\ UNCHANGED <<st, tries, later, throttled, known, expired, people, on, holder, pc, cur, todo,
                 approved, answer, ses, late, faults>>

Record(w) == RecordAccepted(w) \/ RecordRefused(w) \/ RecordUnknown(w)

Step(w) ==
  \/ Lock(w) \/ Maintain(w) \/ Prepare(w) \/ Select(w)
  \/ \E d \in Delivery : PassGate(w, d) \/ HoldBack(w, d)
  \/ Claim(w) \/ ClaimLost(w) \/ Withhold(w) \/ Defer(w) \/ Compose(w)
  \/ Request(w) \/ SesAnswers(w) \/ Record(w) \/ FinishTick(w)

Next ==
  \/ \E w \in Dispatcher : Step(w) \/ TickFails(w) \/ Killed(w)
  \/ \E d \in Delivery :
        \/ LateAcceptance(d) \/ RequestLost(d)
        \/ \E e \in Event : Ingest(d, e)
        \/ Subscribe(d) \/ RequestTest(d) \/ Confirm(d) \/ Unsubscribe(d)
        \/ AdminRetry(d) \/ BecomesDue(d) \/ Expires(d)
  \/ \E x \in Switch : TurnOff(x) \/ TurnOn(x)
  \/ Tick

Spec == Init /\ [][Next]_vars

\* About SES and its readiness checks, not the code: the quota is not used up for
\* ever, so that a row which is due at one tick after another is among those taken.
QuotaReturns ==
  \A d \in Delivery :
    SF_vars(\E w \in Dispatcher, n \in 1 .. Batch : Take(w, n) /\ d \in todo'[w])

\* Beat starts a tick every minute and a tick goes on (or meets its limit); SES
\* answers; back-offs and clocks run out although ticks follow each other.
\* Administrators do not postpone a retry for ever.
Fairness ==
  /\ SF_vars(Tick)
  /\ SF_vars(\E w \in Dispatcher : Lock(w))
  /\ \A w \in Dispatcher : WF_vars(pc[w] # "idle" /\ Step(w))
  /\ \A d \in Delivery : WF_vars(BecomesDue(d))
  /\ <>[][\A d \in Delivery : ~AdminRetry(d)]_vars
  /\ QuotaReturns

FairSpec == Spec /\ Fairness
-----------------------------------------------------------------------------
(* Properties *)

\* email-alerts.md:9: "atomic pending-message claims prevent repeat sends": SES
\* accepts the mail of a row at most once, although requests outlive their
\* senders, answers get lost, ticks crash and administrators retry.
AcceptedAtMostOnce == \A d \in Delivery : accepted[d] <= 1

\* A row waits in the queue only while it is certain that SES has not accepted
\* it and will not (email_alerts.py:415, email_admin.py:355).
QueuedIsUnsent ==
  \A d \in Delivery : st[d] \in Queued =>
    accepted[d] = 0 /\ d \notin lingering /\ \A w \in Dispatcher : cur[w] = d => answer[w] = "none"

\* SES feedback is never lost: events come in any order and race the answer
\* that the dispatcher writes, yet a status never gives way to one that says
\* less, and only a confirmation by the recipient replaces it.
FeedbackStands ==
  [][\A d \in Delivery : st[d] \in Feedback \cup {"CONFIRMED"} =>
        \/ st'[d] = "CONFIRMED" /\ st[d] \notin {"BOUNCED", "COMPLAINT"}
        \/ st[d] # "CONFIRMED" /\ st'[d] \in Feedback /\ Rank(st'[d]) >= Rank(st[d])]_vars

\* A stop works at once but for the one request in flight: after a switch is
\* turned off, a complaint, or an unsubscription, at most one more mail that it
\* concerns is requested, batches and lost dispatchers notwithstanding.
StopIsPrompt == \A x \in Stop : late[x] <= 1

\* The lease outlives its tick: never two dispatchers at work.
OneDispatcher ==
  \A v, w \in Dispatcher : pc[v] # "idle" /\ pc[w] # "idle" => v = w

\* Crashed sends are reconciled (test_email_operations.py:371), and a test mail
\* that is queued is decided in the end, through throttling and lost ticks, and
\* ticks without quota, provided the quota comes back (QuotaReturns).
SendsAreReconciled == \A d \in Delivery : st[d] = "SENDING" ~> st[d] # "SENDING"

TestsAreDecided ==
  \A d \in Delivery : Kind[d] = "TEST" =>
    (st[d] \in Queued ~> st[d] \notin Queued \cup {"SENDING"})

=============================================================================
