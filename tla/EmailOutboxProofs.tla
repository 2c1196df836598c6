------------------------- MODULE EmailOutboxProofs -------------------------
(***************************************************************************)
(* Machine-checked proofs about EmailOutbox, for every set of rows,        *)
(* subscribers and dispatchers and all limits that satisfy the assumptions *)
(* of that module.                                                         *)
(***************************************************************************)
EXTENDS EmailOutboxInvariant, TLAPS

\* The steps by which a dispatcher goes on with its tick, ...
Work(w) ==
  \/ Maintain(w) \/ Prepare(w) \/ Select(w)
  \/ \E d \in Delivery : PassGate(w, d) \/ HoldBack(w, d)
  \/ Claim(w) \/ ClaimLost(w) \/ Withhold(w) \/ Defer(w) \/ Compose(w)
  \/ Request(w) \/ SesAnswers(w)
  \/ RecordAccepted(w) \/ RecordRefused(w) \/ RecordUnknown(w)

\* ... those that end it, ...
End(w) == FinishTick(w) \/ TickFails(w) \/ Killed(w)

\* ... and the steps of SES, subscribers and administrators.
Outside ==
  \/ \E d \in Delivery :
        \/ LateAcceptance(d) \/ RequestLost(d)
        \/ \E e \in Event : Ingest(d, e)
        \/ Subscribe(d) \/ RequestTest(d) \/ Confirm(d) \/ Unsubscribe(d)
        \/ AdminRetry(d) \/ BecomesDue(d) \/ Expires(d)
  \/ \E x \in Switch : TurnOff(x) \/ TurnOn(x)

LEMMA NextCases ==
  ASSUME [Next]_vars
  PROVE  \/ \E w \in Dispatcher : Lock(w) \/ Work(w) \/ End(w)
         \/ Outside
         \/ Tick
         \/ UNCHANGED vars
BY DEF Next, Step, Record, Work, End, Outside

-----------------------------------------------------------------------------
(* What the helpers do *)

\* A row that takes a status.
LEMMA BecomeLemma ==
  ASSUME TypeOK, NEW d \in Delivery, NEW s \in Status, Become(d, s)
  PROVE  /\ st' \in [Delivery -> Status]
         /\ sendAge' \in [Delivery -> 0 .. Stale + 1]
         /\ st'[d] = s
         /\ \A e \in Delivery \ {d} : st'[e] = st[e]
<1>1. 0 \in 0 .. Stale + 1
  BY LimitAssumption
<1> QED
  BY <1>1 DEF TypeOK, Become

\* A dispatcher that moves on to another point of its tick.
LEMMA AtLemma ==
  ASSUME TypeOK, NEW w \in Dispatcher, NEW p \in Point, At(w, p)
  PROVE  /\ pc' \in [Dispatcher -> Point]
         /\ pc'[w] = p
         /\ \A v \in Dispatcher \ {w} : pc'[v] = pc[v]
BY DEF TypeOK, At

\* A dispatcher that goes back to its loop.
LEMMA ContinueLemma ==
  ASSUME TypeOK, NEW w \in Dispatcher, NEW d, Continue(w, d)
  PROVE  /\ pc' \in [Dispatcher -> Point]
         /\ cur' \in [Dispatcher -> Delivery \cup {NoOne}]
         /\ todo' \in [Dispatcher -> SUBSET Delivery]
         /\ pc'[w] = "next" /\ cur'[w] = NoOne
         /\ \A v \in Dispatcher \ {w} : pc'[v] = pc[v] /\ cur'[v] = cur[v]
<1>1. "next" \in Point
  BY DEF Point
<1>2. At(w, "next")
  BY DEF Continue
<1>3. todo' \in [Dispatcher -> SUBSET Delivery]
  BY DEF TypeOK, Continue
<1>4. /\ cur' \in [Dispatcher -> Delivery \cup {NoOne}]
      /\ cur'[w] = NoOne
      /\ \A v \in Dispatcher \ {w} : cur'[v] = cur[v]
  BY DEF TypeOK, Continue
<1> QED
  BY <1>1, <1>2, <1>3, <1>4, AtLemma

\* A dispatcher whose tick is over, by whatever end.
LEMMA GoneLemma ==
  ASSUME TypeOK, PointInv, NEW w \in Dispatcher, Gone(w)
  PROVE  /\ pc' \in [Dispatcher -> Point]
         /\ cur' \in [Dispatcher -> Delivery \cup {NoOne}]
         /\ todo' \in [Dispatcher -> SUBSET Delivery]
         /\ age' \in [Dispatcher -> 0 .. TickLimit]
         /\ approved' \in [Dispatcher -> BOOLEAN]
         /\ answer' \in [Dispatcher -> Answer]
         /\ lingering' \subseteq Delivery
         /\ pc'[w] = "idle" /\ cur'[w] = NoOne /\ answer'[w] = "none"
         /\ \A v \in Dispatcher \ {w} :
               /\ pc'[v] = pc[v] /\ cur'[v] = cur[v] /\ answer'[v] = answer[v]
               /\ age'[v] = age[v]
<1>1. "idle" \in Point /\ "none" \in Answer
  BY DEF Point, Answer
<1>2. At(w, "idle")
  BY DEF Gone
<1>3. 0 \in 0 .. TickLimit
  BY LimitAssumption
<1>4. answer[w] = "open" => cur[w] \in Delivery
  BY DEF PointInv
<1>5. lingering' \subseteq Delivery
  BY <1>4 DEF TypeOK, Gone
<1>6. /\ cur' \in [Dispatcher -> Delivery \cup {NoOne}] /\ cur'[w] = NoOne
      /\ todo' \in [Dispatcher -> SUBSET Delivery]
      /\ approved' \in [Dispatcher -> BOOLEAN]
      /\ \A v \in Dispatcher \ {w} : cur'[v] = cur[v]
  BY DEF TypeOK, Gone
<1>7. /\ age' \in [Dispatcher -> 0 .. TickLimit]
      /\ answer' \in [Dispatcher -> Answer] /\ answer'[w] = "none"
      /\ \A v \in Dispatcher \ {w} : answer'[v] = answer[v] /\ age'[v] = age[v]
  BY <1>1, <1>3 DEF TypeOK, Gone
<1> QED
  BY <1>1, <1>2, <1>5, <1>6, <1>7, AtLemma

\* The lease after its release.
LEMMA ReleaseLemma ==
  ASSUME TypeOK, NEW w \in Dispatcher, Release(w)
  PROVE  /\ holder' \in Dispatcher \cup {NoOne}
         /\ leaseAge' \in 0 .. Lease + 1
         /\ holder # w => holder' = holder /\ leaseAge' = leaseAge
<1>1. 0 \in 0 .. Lease + 1
  BY LimitAssumption
<1> QED
  BY <1>1 DEF TypeOK, Release

\* A fault stays within the bound on faults.
LEMMA FaultLemma ==
  ASSUME TypeOK, NEW f, Fault(f)
  PROVE  faults' \in 0 .. MaxFaults
BY LimitAssumption DEF TypeOK, Fault

LEMMA UpLemma == \A n \in 0 .. 2 : Up(n) \in 0 .. 2 /\ (n = 0 => Up(n) = 1)
BY DEF Up, Least

\* A stop that is lifted.
LEMMA LiftLemma ==
  ASSUME TypeOK, NEW x, late' = [late EXCEPT ![x] = 0]
  PROVE  /\ late' \in [Stop -> 0 .. 2]
         /\ x \in Stop => late'[x] = 0
         /\ \A y \in Stop \ {x} : late'[y] = late[y]
<1>1. late \in [Stop -> 0 .. 2]
  BY DEF TypeOK
<1>2. 0 \in 0 .. 2
  OBVIOUS
<1>3. late' \in [Stop -> 0 .. 2]
  BY <1>1, <1>2
<1>4. /\ x \in Stop => late'[x] = 0
      /\ \A y \in Stop \ {x} : late'[y] = late[y]
  BY <1>1
<1> QED
  BY <1>3, <1>4

\* A dispatcher past the gate has a row.
LEMMA CurLemma ==
  ASSUME PointInv, NEW w \in Dispatcher, pc[w] \in {"claim", "check", "ready", "waiting"}
  PROVE  cur[w] \in Delivery
BY DEF PointInv

-----------------------------------------------------------------------------
(* Types *)

LEMMA InitType == Init => TypeOK
<1>1. /\ 0 \in 0 .. MaxTries /\ 0 \in 0 .. Stale + 1 /\ 0 \in 0 .. Lease + 1
      /\ 0 \in 0 .. TickLimit /\ 0 \in 0 .. MaxFaults /\ 0 \in 0 .. 2
  BY LimitAssumption
<1>2. "absent" \in Status /\ "idle" \in Point /\ "none" \in Answer
  BY DEF Status, Point, Answer
<1>3. ASSUME Init
      PROVE  /\ st \in [Delivery -> Status] /\ tries \in [Delivery -> 0 .. MaxTries]
             /\ sendAge \in [Delivery -> 0 .. Stale + 1]
             /\ later \subseteq Delivery /\ throttled \subseteq Delivery
             /\ known \subseteq Delivery /\ expired \subseteq Delivery
             /\ suppressed \subseteq Subscriber /\ subscribed \subseteq Subscriber
             /\ on \subseteq Switch
  BY <1>1, <1>2, <1>3 DEF Init
<1>4. ASSUME Init
      PROVE  /\ pc \in [Dispatcher -> Point] /\ cur \in [Dispatcher -> Delivery \cup {NoOne}]
             /\ todo \in [Dispatcher -> SUBSET Delivery]
             /\ age \in [Dispatcher -> 0 .. TickLimit]
             /\ approved \in [Dispatcher -> BOOLEAN] /\ answer \in [Dispatcher -> Answer]
  BY <1>1, <1>2, <1>4 DEF Init
<1>5. ASSUME Init
      PROVE  /\ holder \in Dispatcher \cup {NoOne} /\ leaseAge \in 0 .. Lease + 1
             /\ lingering \subseteq Delivery /\ accepted \in [Delivery -> 0 .. 2]
             /\ late \in [Stop -> 0 .. 2] /\ faults \in 0 .. MaxFaults
  BY <1>1, <1>5 DEF Init
<1> QED
  BY <1>3, <1>4, <1>5 DEF TypeOK

\* The statuses that steps write are statuses.
LEMMA StatusLemma ==
  /\ {"PENDING", "SENDING", "SUPPRESSED", "EXPIRED", "CANCELLED", "ACCEPTED",
      "RETRY", "FAILED", "CONFIRMED", GiveUpStatus} \subseteq Status
  /\ Feedback \subseteq Status
  /\ \A e \in Event : StateOf(e) \in Feedback \cup {"absent"}
BY DEF Status, Queued, Feedback, GiveUpStatus, Event, StateOf

\* A dispatcher's work keeps the variables in their types.
LEMMA WorkType ==
  ASSUME TypeOK, PointInv, ClaimInv, TryInv, NEW w \in Dispatcher, Work(w)
  PROVE  TypeOK'
<1> USE StatusLemma
<1>1. ASSUME Maintain(w) PROVE TypeOK'
  <2>1. "maintained" \in Point /\ 0 \in 0 .. Stale + 1
    BY LimitAssumption DEF Point
  <2>2. st' \in [Delivery -> Status] /\ sendAge' \in [Delivery -> 0 .. Stale + 1]
    BY <1>1, <2>1 DEF Maintain, TypeOK
  <2>3. throttled' \subseteq Delivery
    BY <1>1 DEF Maintain, TypeOK
  <2>4. pc' \in [Dispatcher -> Point]
    BY <1>1, <2>1, AtLemma DEF Maintain
  <2> QED
    BY <1>1, <2>2, <2>3, <2>4 DEF Maintain, TypeOK, people, lease, ses
<1>2. ASSUME Prepare(w) PROVE TypeOK'
  <2>1. "prepared" \in Point
    BY DEF Point
  <2>2. pc' \in [Dispatcher -> Point]
    BY <1>2, <2>1, AtLemma DEF Prepare
  <2>3. CASE approved' = approved /\ UNCHANGED rows
    BY <1>2, <2>2, <2>3 DEF Prepare, TypeOK, rows, people, lease, ses
  <2>4. CASE ~(approved' = approved /\ UNCHANGED rows)
    <3>1. st' \in [Delivery -> Status] /\ approved' \in [Dispatcher -> BOOLEAN]
      BY <1>2, <2>4 DEF Prepare, TypeOK
    <3>2. UNCHANGED <<tries, later, throttled, known, expired, sendAge>>
      BY <1>2, <2>4 DEF Prepare
    <3> QED
      BY <1>2, <2>2, <3>1, <3>2 DEF Prepare, TypeOK, people, lease, ses
  <2> QED
    BY <2>3, <2>4
<1>3. ASSUME Select(w) PROVE TypeOK'
  <2>1. "next" \in Point
    BY DEF Point
  <2>2. pc' \in [Dispatcher -> Point]
    BY <1>3, <2>1, AtLemma DEF Select, Take
  <2>3. todo' \in [Dispatcher -> SUBSET Delivery]
    BY <1>3 DEF Select, Take, TypeOK
  <2> QED
    BY <1>3, <2>2, <2>3 DEF Select, Take, TypeOK, rows, people, lease, ses
<1>4. ASSUME NEW d \in Delivery, PassGate(w, d) PROVE TypeOK'
  <2>1. "claim" \in Point
    BY DEF Point
  <2>2. pc' \in [Dispatcher -> Point]
    BY <1>4, <2>1, AtLemma DEF PassGate
  <2> QED
    BY <1>4, <2>2 DEF PassGate, TypeOK, rows, people, lease, ses
<1>5. ASSUME NEW d \in Delivery, HoldBack(w, d) PROVE TypeOK'
  BY <1>5, ContinueLemma DEF HoldBack, TypeOK, rows, people, lease, ses
<1>6. ASSUME Claim(w) PROVE TypeOK'
  <2>1. "check" \in Point
    BY DEF Point
  <2>2. pc' \in [Dispatcher -> Point]
    BY <1>6, <2>1, AtLemma DEF Claim
  <2>3. cur[w] \in Delivery
    BY <1>6, CurLemma DEF Claim
  <2>4. st' \in [Delivery -> Status] /\ sendAge' \in [Delivery -> 0 .. Stale + 1]
    BY <1>6, <2>3, BecomeLemma DEF Claim
  <2>5. tries[cur[w]] < MaxTries
    BY <1>6, <2>3 DEF Claim, Ready, TryInv
  <2>6. tries' \in [Delivery -> 0 .. MaxTries]
    BY <1>6, <2>3, <2>5, LimitAssumption DEF Claim, TypeOK
  <2> QED
    BY <1>6, <2>2, <2>4, <2>6 DEF Claim, TypeOK, people, lease, ses
<1>7. ASSUME ClaimLost(w) PROVE TypeOK'
  BY <1>7, ContinueLemma DEF ClaimLost, TypeOK, rows, people, lease, ses
<1>8. ASSUME Withhold(w) PROVE TypeOK'
  <2>1. cur[w] \in Delivery
    BY <1>8, CurLemma DEF Withhold
  <2>2. st' \in [Delivery -> Status] /\ sendAge' \in [Delivery -> 0 .. Stale + 1]
    BY <1>8, <2>1, BecomeLemma DEF Withhold
  <2>3. throttled' \subseteq Delivery
    BY <1>8 DEF Withhold, TypeOK
  <2> QED
    BY <1>8, <2>2, <2>3, ContinueLemma DEF Withhold, TypeOK, people, lease, ses
<1>9. ASSUME Defer(w) PROVE TypeOK'
  <2>1. cur[w] \in Delivery
    BY <1>9, CurLemma DEF Defer
  <2>2. st' \in [Delivery -> Status] /\ sendAge' \in [Delivery -> 0 .. Stale + 1]
    BY <1>9, <2>1, BecomeLemma DEF Defer
  <2>3. later' \subseteq Delivery /\ throttled' \subseteq Delivery
    BY <1>9, <2>1 DEF Defer, TypeOK
  <2>4. st[cur[w]] = "SENDING"
    BY <1>9 DEF Defer, PointInv, ClaimInv
  <2>5. tries[cur[w]] \in 1 .. MaxTries
    BY <2>1, <2>4, LimitAssumption DEF TypeOK, TryInv
  <2>6. tries' \in [Delivery -> 0 .. MaxTries]
    BY <1>9, <2>1, <2>5, LimitAssumption DEF Defer, TypeOK
  <2> QED
    BY <1>9, <2>2, <2>3, <2>6, ContinueLemma DEF Defer, TypeOK, people, lease, ses
<1>10. ASSUME Compose(w) PROVE TypeOK'
  <2>1. "ready" \in Point
    BY DEF Point
  <2>2. pc' \in [Dispatcher -> Point]
    BY <1>10, <2>1, AtLemma DEF Compose
  <2> QED
    BY <1>10, <2>2 DEF Compose, TypeOK, rows, people, lease, ses
<1>11. ASSUME Request(w) PROVE TypeOK'
  <2>1. "waiting" \in Point /\ "open" \in Answer
    BY DEF Point, Answer
  <2>2. pc' \in [Dispatcher -> Point]
    BY <1>11, <2>1, AtLemma DEF Request
  <2>3. answer' \in [Dispatcher -> Answer]
    BY <1>11, <2>1 DEF Request, TypeOK
  <2>4. late' \in [Stop -> 0 .. 2]
    BY <1>11, UpLemma DEF Request, TypeOK
  <2> QED
    BY <1>11, <2>2, <2>3, <2>4 DEF Request, TypeOK, rows, people, lease, ses
<1>12. ASSUME SesAnswers(w) PROVE TypeOK'
  <2>1. answer' \in [Dispatcher -> Answer]
    BY <1>12 DEF SesAnswers, TypeOK, Answer
  <2>2. accepted' \in [Delivery -> 0 .. 2]
    <3>1. cur[w] \in Delivery
      BY <1>12, CurLemma DEF SesAnswers
    <3>2. Up(accepted[cur[w]]) \in 0 .. 2
      BY <3>1, UpLemma DEF TypeOK
    <3> QED
      BY <1>12, <3>1, <3>2 DEF SesAnswers, TypeOK
  <2> QED
    BY <1>12, <2>1, <2>2 DEF SesAnswers, TypeOK, rows, people, lease
<1>13. ASSUME RecordAccepted(w) PROVE TypeOK'
  <2>1. cur[w] \in Delivery
    BY <1>13, CurLemma DEF RecordAccepted
  <2>2. AcceptedState(st[cur[w]]) \in Status
    BY <2>1 DEF AcceptedState, TypeOK
  <2>3. st' \in [Delivery -> Status] /\ sendAge' \in [Delivery -> 0 .. Stale + 1]
    BY <1>13, <2>1, <2>2, BecomeLemma DEF RecordAccepted
  <2>4. throttled' \subseteq Delivery /\ known' \subseteq Delivery
    BY <1>13, <2>1 DEF RecordAccepted, TypeOK
  <2>5. answer' \in [Dispatcher -> Answer]
    BY <1>13 DEF RecordAccepted, TypeOK, Answer
  <2> QED
    BY <1>13, <2>3, <2>4, <2>5, ContinueLemma DEF RecordAccepted, TypeOK, people, lease, ses
<1>14. ASSUME RecordRefused(w) PROVE TypeOK'
  <2>1. cur[w] \in Delivery
    BY <1>14, CurLemma DEF RecordRefused
  <2>2. st' \in [Delivery -> Status] /\ sendAge' \in [Delivery -> 0 .. Stale + 1]
    <3>1. CASE st[cur[w]] = "SENDING"
      BY <1>14, <2>1, <3>1, BecomeLemma DEF RecordRefused
    <3>2. CASE st[cur[w]] # "SENDING"
      BY <1>14, <3>2 DEF RecordRefused, TypeOK
    <3> QED
      BY <3>1, <3>2
  <2>3. later' \subseteq Delivery /\ throttled' \subseteq Delivery
    BY <1>14, <2>1 DEF RecordRefused, TypeOK
  <2>4. answer' \in [Dispatcher -> Answer]
    BY <1>14 DEF RecordRefused, TypeOK, Answer
  <2> QED
    BY <1>14, <2>2, <2>3, <2>4, ContinueLemma DEF RecordRefused, TypeOK, people, lease, ses
<1>15. ASSUME RecordUnknown(w) PROVE TypeOK'
  <2>1. cur[w] \in Delivery
    BY <1>15, CurLemma DEF RecordUnknown
  <2>2. /\ st' \in [Delivery -> Status] /\ sendAge' \in [Delivery -> 0 .. Stale + 1]
        /\ throttled' \subseteq Delivery
    <3>1. CASE st[cur[w]] = "SENDING"
      BY <1>15, <2>1, <3>1, BecomeLemma DEF RecordUnknown, TypeOK
    <3>2. CASE st[cur[w]] # "SENDING"
      BY <1>15, <3>2 DEF RecordUnknown, TypeOK
    <3> QED
      BY <3>1, <3>2
  <2>3. lingering' \subseteq Delivery /\ answer' \in [Dispatcher -> Answer]
    BY <1>15, <2>1 DEF RecordUnknown, TypeOK, Answer
  <2> QED
    BY <1>15, <2>2, <2>3, ContinueLemma, FaultLemma DEF RecordUnknown, TypeOK, people, lease
<1> QED
  BY <1>1, <1>2, <1>3, <1>4, <1>5, <1>6, <1>7, <1>8, <1>9, <1>10, <1>11, <1>12, <1>13,
     <1>14, <1>15 DEF Work

\* So do the steps of SES, subscribers and administrators, ...
LEMMA OutsideType ==
  ASSUME TypeOK, Outside
  PROVE  TypeOK'
<1> USE StatusLemma
<1>1. ASSUME NEW d \in Delivery, LateAcceptance(d) PROVE TypeOK'
  BY <1>1, UpLemma DEF LateAcceptance, TypeOK, rows, people, lease, procs
<1>2. ASSUME NEW d \in Delivery, RequestLost(d) PROVE TypeOK'
  BY <1>2 DEF RequestLost, TypeOK, rows, people, lease, procs
<1>3. ASSUME NEW d \in Delivery, NEW e \in Event, Ingest(d, e) PROVE TypeOK'
  <2>1. /\ st' \in [Delivery -> Status] /\ sendAge' \in [Delivery -> 0 .. Stale + 1]
        /\ throttled' \subseteq Delivery
    <3>1. CASE Moves(d, e)
      <4>1. StateOf(e) \in Status
        BY DEF Status
      <4> QED
        BY <1>3, <3>1, <4>1, BecomeLemma DEF Ingest, TypeOK
    <3>2. CASE ~Moves(d, e)
      BY <1>3, <3>2 DEF Ingest, TypeOK
    <3> QED
      BY <3>1, <3>2
  <2>2. known' \subseteq Delivery /\ suppressed' \subseteq Subscriber
    BY <1>3, DeliveryAssumption DEF Ingest, TypeOK
  <2> QED
    BY <1>3, <2>1, <2>2 DEF Ingest, TypeOK, lease, procs, ses
<1>4. ASSUME NEW d \in Delivery, Insert(d) PROVE TypeOK'
  BY <1>4 DEF Insert, TypeOK, people, lease, procs, ses
<1>5. ASSUME NEW d \in Delivery, Confirm(d) PROVE TypeOK'
  <2>1. st' \in [Delivery -> Status] /\ sendAge' \in [Delivery -> 0 .. Stale + 1]
    BY <1>5, BecomeLemma DEF Confirm
  <2>2. late' \in [Stop -> 0 .. 2]
    BY <1>5, LiftLemma DEF Confirm
  <2>3. subscribed' \subseteq Subscriber
    BY <1>5, DeliveryAssumption DEF Confirm, TypeOK
  <2> QED
    BY <1>5, <2>1, <2>2, <2>3 DEF Confirm, TypeOK, lease, procs, ses
<1>6. ASSUME NEW d \in Delivery, Unsubscribe(d) PROVE TypeOK'
  BY <1>6 DEF Unsubscribe, TypeOK, rows, lease, procs, ses
<1>7. ASSUME NEW d \in Delivery, AdminRetry(d) PROVE TypeOK'
  BY <1>7 DEF AdminRetry, TypeOK, people, lease, procs, ses
<1>8. ASSUME NEW d \in Delivery, BecomesDue(d) PROVE TypeOK'
  BY <1>8 DEF BecomesDue, TypeOK, people, lease, procs, ses
<1>9. ASSUME NEW d \in Delivery, Expires(d) PROVE TypeOK'
  BY <1>9 DEF Expires, TypeOK, people, lease, procs, ses
<1>10. ASSUME NEW x \in Switch, TurnOff(x) PROVE TypeOK'
  BY <1>10 DEF TurnOff, TypeOK, rows, people, lease, procs, ses
<1>11. ASSUME NEW x \in Switch, TurnOn(x) PROVE TypeOK'
  <2>1. late' \in [Stop -> 0 .. 2]
    BY <1>11, LiftLemma DEF TurnOn
  <2> QED
    BY <1>11, <2>1 DEF TurnOn, TypeOK, rows, people, lease, procs, ses
<1> QED
  BY <1>1, <1>2, <1>3, <1>4, <1>5, <1>6, <1>7, <1>8, <1>9, <1>10, <1>11
  DEF Outside, Subscribe, RequestTest

\* ... and every step.
LEMMA NextType ==
  ASSUME TypeOK, PointInv, ClaimInv, TryInv, [Next]_vars
  PROVE  TypeOK'
<1>1. ASSUME NEW w \in Dispatcher, Lock(w) PROVE TypeOK'
  <2>1. "locked" \in Point /\ 0 \in 0 .. Lease + 1
    BY LimitAssumption DEF Point
  <2>2. pc' \in [Dispatcher -> Point]
    BY <1>1, <2>1, AtLemma DEF Lock
  <2> QED
    BY <1>1, <2>1, <2>2 DEF Lock, TypeOK, rows, people, ses
<1>2. ASSUME NEW w \in Dispatcher, Work(w) PROVE TypeOK'
  BY <1>2, WorkType
<1>3. ASSUME NEW w \in Dispatcher, End(w) PROVE TypeOK'
  <2>1. Gone(w) /\ (Release(w) \/ UNCHANGED lease)
    BY <1>3 DEF End, FinishTick, TickFails, Killed
  <2>2. UNCHANGED <<rows, people, on, accepted, late>> /\ faults' \in 0 .. MaxFaults
    BY <1>3, FaultLemma DEF End, FinishTick, TickFails, Killed, TypeOK
  <2>3. holder' \in Dispatcher \cup {NoOne} /\ leaseAge' \in 0 .. Lease + 1
    BY <2>1, ReleaseLemma DEF TypeOK, lease
  <2> QED
    BY <2>1, <2>2, <2>3, GoneLemma DEF TypeOK, rows, people
<1>4. ASSUME Outside PROVE TypeOK'
  BY <1>4, OutsideType
<1>5. ASSUME Tick PROVE TypeOK'
  <2>1. age' \in [Dispatcher -> 0 .. TickLimit]
    BY <1>5, LimitAssumption DEF Tick, TypeOK
  <2>2. leaseAge' \in 0 .. Lease + 1
    BY <1>5, LimitAssumption DEF Tick, TypeOK, Least
  <2>3. sendAge' \in [Delivery -> 0 .. Stale + 1]
    BY <1>5, LimitAssumption DEF Tick, TypeOK, Least
  <2> QED
    BY <1>5, <2>1, <2>2, <2>3 DEF Tick, TypeOK, people, ses
<1>6. ASSUME UNCHANGED vars PROVE TypeOK'
  BY <1>6 DEF TypeOK, vars
<1> QED
  BY <1>1, <1>2, <1>3, <1>4, <1>5, <1>6, NextCases

-----------------------------------------------------------------------------
(* Dispatchers and the lease *)

\* What a dispatcher's work leaves alone, and how its row and request follow
\* its point.
LEMMA WorkLemma ==
  ASSUME TypeOK, PointInv, NEW w \in Dispatcher, Work(w)
  PROVE  /\ UNCHANGED <<lease, age>>
         /\ \A v \in Dispatcher \ {w} :
               pc'[v] = pc[v] /\ cur'[v] = cur[v] /\ answer'[v] = answer[v]
         /\ pc[w] # "idle" /\ pc'[w] # "idle"
         /\ cur'[w] \in Delivery <=> pc'[w] \in {"claim", "check", "ready", "waiting"}
         /\ answer'[w] # "none" <=> pc'[w] = "waiting"
<1> DEFINE Goal ==
       /\ UNCHANGED <<lease, age>>
       /\ \A v \in Dispatcher \ {w} :
             pc'[v] = pc[v] /\ cur'[v] = cur[v] /\ answer'[v] = answer[v]
       /\ pc[w] # "idle" /\ pc'[w] # "idle"
       /\ cur'[w] \in Delivery <=> pc'[w] \in {"claim", "check", "ready", "waiting"}
       /\ answer'[w] # "none" <=> pc'[w] = "waiting"
<1>1. /\ {"maintained", "prepared", "next", "claim", "check", "ready", "waiting"} \subseteq Point
      /\ NoOne \notin Delivery
  BY DispatcherAssumption DEF Point
<1>2. ASSUME Maintain(w) PROVE Goal
  BY <1>2, <1>1, AtLemma DEF Maintain, lease, PointInv
<1>3. ASSUME Prepare(w) PROVE Goal
  BY <1>3, <1>1, AtLemma DEF Prepare, lease, PointInv
<1>4. ASSUME Select(w) PROVE Goal
  BY <1>4, <1>1, AtLemma DEF Select, Take, lease, PointInv
<1>5. ASSUME NEW d \in Delivery, PassGate(w, d) PROVE Goal
  <2>1. cur'[w] = d /\ \A v \in Dispatcher \ {w} : cur'[v] = cur[v]
    BY <1>5 DEF PassGate, TypeOK
  <2> QED
    BY <1>5, <1>1, <2>1, AtLemma DEF PassGate, lease, PointInv
<1>6. ASSUME NEW d \in Delivery, HoldBack(w, d) PROVE Goal
  BY <1>6, <1>1, ContinueLemma DEF HoldBack, lease, PointInv
<1>7. ASSUME Claim(w) PROVE Goal
  BY <1>7, <1>1, AtLemma DEF Claim, lease, PointInv
<1>8. ASSUME ClaimLost(w) PROVE Goal
  BY <1>8, <1>1, ContinueLemma DEF ClaimLost, lease, PointInv
<1>9. ASSUME Withhold(w) PROVE Goal
  BY <1>9, <1>1, ContinueLemma DEF Withhold, lease, PointInv
<1>10. ASSUME Defer(w) PROVE Goal
  BY <1>10, <1>1, ContinueLemma DEF Defer, lease, PointInv
<1>11. ASSUME Compose(w) PROVE Goal
  BY <1>11, <1>1, AtLemma DEF Compose, lease, PointInv
<1>12. ASSUME Request(w) PROVE Goal
  <2>1. answer'[w] = "open" /\ \A v \in Dispatcher \ {w} : answer'[v] = answer[v]
    BY <1>12 DEF Request, TypeOK
  <2> QED
    BY <1>12, <1>1, <2>1, AtLemma DEF Request, lease, PointInv
<1>13. ASSUME SesAnswers(w) PROVE Goal
  <2>1. answer'[w] # "none" /\ \A v \in Dispatcher \ {w} : answer'[v] = answer[v]
    BY <1>13 DEF SesAnswers, TypeOK
  <2> QED
    BY <1>13, <2>1 DEF SesAnswers, lease, PointInv
<1>14. ASSUME RecordAccepted(w) PROVE Goal
  <2>1. answer'[w] = "none" /\ \A v \in Dispatcher \ {w} : answer'[v] = answer[v]
    BY <1>14 DEF RecordAccepted, TypeOK
  <2> QED
    BY <1>14, <1>1, <2>1, ContinueLemma DEF RecordAccepted, lease
<1>15. ASSUME RecordRefused(w) PROVE Goal
  <2>1. answer'[w] = "none" /\ \A v \in Dispatcher \ {w} : answer'[v] = answer[v]
    BY <1>15 DEF RecordRefused, TypeOK
  <2> QED
    BY <1>15, <1>1, <2>1, ContinueLemma DEF RecordRefused, lease
<1>16. ASSUME RecordUnknown(w) PROVE Goal
  <2>1. answer'[w] = "none" /\ \A v \in Dispatcher \ {w} : answer'[v] = answer[v]
    BY <1>16 DEF RecordUnknown, TypeOK
  <2> QED
    BY <1>16, <1>1, <2>1, ContinueLemma DEF RecordUnknown, lease
<1> QED
  BY <1>2, <1>3, <1>4, <1>5, <1>6, <1>7, <1>8, <1>9, <1>10, <1>11, <1>12, <1>13, <1>14,
     <1>15, <1>16 DEF Work

LEMMA OutsideLemma ==
  ASSUME Outside
  PROVE  UNCHANGED <<lease, procs>>
BY DEF Outside, LateAcceptance, RequestLost, Ingest, Subscribe, RequestTest, Insert, Confirm,
       Unsubscribe, AdminRetry, BecomesDue, Expires, TurnOff, TurnOn

\* The end of a tick is Gone, whatever happens to the lease.
LEMMA EndLemma ==
  ASSUME NEW w \in Dispatcher, End(w)
  PROVE  /\ Gone(w) /\ (Release(w) \/ UNCHANGED lease)
         /\ UNCHANGED <<rows, people, on, accepted, late>>
         /\ pc[w] # "idle"
BY DEF End, FinishTick, TickFails, Killed

\* Two dispatchers at work are one.
LEMMA OneAtWork ==
  ASSUME LeaseInv, NEW v \in Dispatcher, NEW w \in Dispatcher, pc[v] # "idle", pc[w] # "idle"
  PROVE  v = w
BY DEF LeaseInv

\* The lease that a tick takes is free only when nobody is at work.
LEMMA LockLemma ==
  ASSUME TypeOK, LeaseInv, NEW w \in Dispatcher, Lock(w)
  PROVE  \A v \in Dispatcher : pc[v] = "idle"
<1> SUFFICES ASSUME NEW v \in Dispatcher, pc[v] # "idle"
             PROVE  FALSE
  OBVIOUS
<1>1. holder = v /\ leaseAge <= age[v] /\ holder # NoOne
  BY DispatcherAssumption DEF LeaseInv
<1>2. age[v] \in 0 .. TickLimit /\ leaseAge \in 0 .. Lease + 1
  BY DEF TypeOK
<1>3. leaseAge > Lease
  BY <1>1 DEF Lock, LeaseFree
<1> QED
  BY <1>1, <1>2, <1>3, LimitAssumption

LEMMA LeaseStep ==
  ASSUME TypeOK, PointInv, LeaseInv, [Next]_vars
  PROVE  LeaseInv'
<1>1. ASSUME NEW w \in Dispatcher, Lock(w) PROVE LeaseInv'
  <2>1. \A v \in Dispatcher : pc[v] = "idle"
    BY <1>1, LockLemma
  <2>2. \A v \in Dispatcher \ {w} : pc'[v] = pc[v]
    BY <1>1 DEF Lock, At, TypeOK
  <2>3. age[w] \in 0 .. TickLimit
    BY DEF TypeOK
  <2> QED
    BY <1>1, <2>1, <2>2, <2>3, LimitAssumption DEF Lock, LeaseInv
<1>2. ASSUME NEW w \in Dispatcher, Work(w) PROVE LeaseInv'
  BY <1>2, WorkLemma DEF LeaseInv, lease
<1>3. ASSUME NEW w \in Dispatcher, End(w) PROVE LeaseInv'
  <2>1. /\ Gone(w) /\ pc[w] # "idle"
        /\ Release(w) \/ UNCHANGED lease
    BY <1>3, EndLemma
  <2>2. \A v \in Dispatcher : pc'[v] = "idle"
    BY <2>1, GoneLemma, OneAtWork
  <2> QED
    BY <2>2 DEF LeaseInv
<1>4. ASSUME Outside PROVE LeaseInv'
  BY <1>4, OutsideLemma DEF LeaseInv, lease, procs
<1>5. ASSUME Tick PROVE LeaseInv'
  <2> SUFFICES ASSUME NEW v \in Dispatcher, pc'[v] # "idle"
               PROVE  holder' = v /\ leaseAge' <= age'[v]
    BY DEF LeaseInv
  <2>1. pc[v] # "idle" /\ holder' = v /\ leaseAge <= age[v] /\ holder # NoOne
    BY <1>5, DispatcherAssumption DEF Tick, LeaseInv
  <2>2. age'[v] = age[v] + 1 /\ leaseAge' = Least(leaseAge + 1, Lease + 1)
    BY <1>5, <2>1 DEF Tick
  <2>3. age[v] \in Nat /\ leaseAge \in Nat
    BY LimitAssumption DEF TypeOK
  <2> QED
    BY <2>1, <2>2, <2>3, LimitAssumption DEF Least
<1>6. ASSUME UNCHANGED vars PROVE LeaseInv'
  BY <1>6 DEF LeaseInv, vars
<1> QED
  BY <1>1, <1>2, <1>3, <1>4, <1>5, <1>6, NextCases

LEMMA PointStep ==
  ASSUME TypeOK, PointInv, LeaseInv, [Next]_vars
  PROVE  PointInv'
<1>1. ASSUME NEW w \in Dispatcher, Lock(w) PROVE PointInv'
  <2>1. "locked" \in Point
    BY DEF Point
  <2>2. pc'[w] = "locked" /\ pc[w] = "idle"
        /\ \A v \in Dispatcher \ {w} : pc'[v] = pc[v]
    BY <1>1, <2>1, AtLemma DEF Lock
  <2> QED
    BY <1>1, <2>2 DEF Lock, PointInv
<1>2. ASSUME NEW w \in Dispatcher, Work(w) PROVE PointInv'
  BY <1>2, WorkLemma DEF PointInv
<1>3. ASSUME NEW w \in Dispatcher, End(w) PROVE PointInv'
  BY <1>3, EndLemma, GoneLemma, DispatcherAssumption DEF PointInv
<1>4. ASSUME Outside PROVE PointInv'
  BY <1>4, OutsideLemma DEF PointInv, procs
<1>5. ASSUME Tick PROVE PointInv'
  BY <1>5 DEF Tick, PointInv
<1>6. ASSUME UNCHANGED vars PROVE PointInv'
  BY <1>6 DEF PointInv, vars
<1> QED
  BY <1>1, <1>2, <1>3, <1>4, <1>5, <1>6, NextCases

-----------------------------------------------------------------------------
(* Rows, claims and requests *)

\* The statuses outside Sent, and those inside.
LEMMA SentLemma ==
  /\ \A s \in Queued \cup {"absent", "FAILED"} : s \notin Sent
  /\ {"SENDING", "UNCERTAIN", "CONFIRMED"} \cup Feedback \subseteq Sent
  /\ \A s \in Status : s \in Sent => AcceptedState(s) \in Sent
  /\ "SENDING" \notin Queued /\ "UNCERTAIN" \notin Queued
BY DEF Sent, Queued, Feedback, AcceptedState

\* An event moves a row to a status that tells more.
LEMMA MoveLemma ==
  ASSUME NEW d \in Delivery, NEW e \in Event, Moves(d, e)
  PROVE  StateOf(e) \in Feedback /\ Rank(StateOf(e)) > Rank(st[d])
<1>1. Rank("absent") = 0 /\ Rank(st[d]) \in Nat
  BY DEF Rank
<1> QED
  BY <1>1, StatusLemma DEF Moves

\* What is known of the row a dispatcher has claimed.
LEMMA ClaimedLemma ==
  ASSUME TypeOK, PointInv, ClaimInv, NEW w \in Dispatcher, pc[w] \in {"check", "ready", "waiting"}
  PROVE  /\ cur[w] \in Delivery /\ cur[w] \notin lingering
         /\ answer[w] = "accepted" => accepted[cur[w]] = 1
         /\ answer[w] # "accepted" => accepted[cur[w]] = 0 /\ st[cur[w]] = "SENDING"
         /\ pc[w] # "waiting" => answer[w] = "none"
BY DEF PointInv, ClaimInv

\* A row that SES has not accepted and cannot accept.
Unsent(d) == accepted[d] = 0 /\ d \notin lingering

LEMMA UnsentLemma ==
  ASSUME TypeOK, RowInv, NEW d \in Delivery, st[d] \in Queued \cup {"absent", "FAILED"}
  PROVE  Unsent(d)
<1>1. st[d] \notin Sent /\ st[d] # "SENDING" /\ st[d] # "UNCERTAIN"
  BY SentLemma
<1>2. accepted[d] \in 0 .. 2
  BY DEF TypeOK
<1> QED
  BY <1>1, <1>2 DEF RowInv, Unsent

\* When only unsent rows change their status, and SES does nothing, RowInv stays.
LEMMA UnsentRows ==
  ASSUME TypeOK, RowInv, UNCHANGED ses,
         \A d \in Delivery : st'[d] = st[d] \/ Unsent(d)
  PROVE  RowInv'
BY DEF RowInv, Unsent, ses

LEMMA WorkRows ==
  ASSUME TypeOK, PointInv, LeaseInv, ClaimInv, RowInv, NEW w \in Dispatcher, Work(w)
  PROVE  ClaimInv' /\ RowInv'
<1>1. /\ pc[w] # "idle"
      /\ \A v \in Dispatcher \ {w} : pc'[v] = "idle"
  BY WorkLemma, OneAtWork
\* Nobody holds a claim after a step that leads w to another point.
<1>2. ASSUME pc'[w] \in {"maintained", "prepared", "next", "claim"}
      PROVE  ClaimInv'
  BY <1>1, <1>2 DEF ClaimInv
<1>3. /\ {"maintained", "prepared", "next", "claim", "check", "ready", "waiting"} \subseteq Point
      /\ "SENDING" \in Status
  BY DEF Point, Status
<1>4. ASSUME Maintain(w) PROVE ClaimInv' /\ RowInv'
  <2>1. pc'[w] = "maintained"
    BY <1>4, <1>3, AtLemma DEF Maintain
  <2>2. \A d \in Delivery : st'[d] = st[d] \/ (st[d] = "SENDING" /\ st'[d] = "UNCERTAIN")
    BY <1>4 DEF Maintain, Lost, GiveUpStatus
  <2>3. RowInv'
    BY <1>4, <2>2, SentLemma DEF Maintain, RowInv, ses
  <2> QED
    BY <1>2, <2>1, <2>3
<1>5. ASSUME Prepare(w) PROVE ClaimInv' /\ RowInv'
  <2>1. pc'[w] = "prepared" /\ UNCHANGED ses
    BY <1>5, <1>3, AtLemma DEF Prepare
  <2>2. \A d \in Delivery : st'[d] = st[d] \/ st[d] = "absent"
    BY <1>5 DEF Prepare, rows
  <2>3. \A d \in Delivery : st'[d] = st[d] \/ Unsent(d)
    BY <2>2, UnsentLemma
  <2> QED
    BY <1>2, <2>1, <2>3, UnsentRows
<1>6. ASSUME UNCHANGED <<rows, ses>>, pc'[w] \in {"next", "claim"}
      PROVE  ClaimInv' /\ RowInv'
  BY <1>2, <1>6 DEF RowInv, rows, ses
<1>7. ASSUME Select(w) PROVE ClaimInv' /\ RowInv'
  BY <1>3, <1>6, <1>7, AtLemma DEF Select, Take
<1>8. ASSUME NEW d \in Delivery, PassGate(w, d) PROVE ClaimInv' /\ RowInv'
  BY <1>3, <1>6, <1>8, AtLemma DEF PassGate
<1>9. ASSUME NEW d \in Delivery, HoldBack(w, d) PROVE ClaimInv' /\ RowInv'
  BY <1>6, <1>9, ContinueLemma DEF HoldBack
<1>10. ASSUME ClaimLost(w) PROVE ClaimInv' /\ RowInv'
  BY <1>6, <1>10, ContinueLemma DEF ClaimLost
<1>11. ASSUME Claim(w) PROVE ClaimInv' /\ RowInv'
  <2>1. cur[w] \in Delivery /\ answer[w] = "none" /\ Unsent(cur[w])
    BY <1>11, UnsentLemma DEF Claim, PointInv, Ready
  <2>2. /\ st'[cur[w]] = "SENDING"
        /\ \A d \in Delivery \ {cur[w]} : st'[d] = st[d]
    BY <1>11, <1>3, <2>1, BecomeLemma DEF Claim
  <2>3. UNCHANGED <<ses, cur, answer>>
    BY <1>11 DEF Claim
  <2>4. RowInv'
    BY <2>1, <2>2, <2>3, UnsentRows
  <2>5. ClaimInv'
    BY <1>1, <2>1, <2>2, <2>3 DEF ClaimInv, Unsent, ses
  <2> QED
    BY <2>4, <2>5
\* A claimed row that no request has been made for, or SES has refused.
<1>12. ASSUME pc[w] \in {"check", "ready", "waiting"}, answer[w] # "accepted",
              pc'[w] = "next", UNCHANGED ses,
              \A d \in Delivery \ {cur[w]} : st'[d] = st[d]
       PROVE  ClaimInv' /\ RowInv'
  <2>1. \A d \in Delivery : st'[d] = st[d] \/ Unsent(d)
    BY <1>12, ClaimedLemma DEF Unsent
  <2> QED
    BY <1>2, <1>12, <2>1, UnsentRows
<1>13. ASSUME Withhold(w) PROVE ClaimInv' /\ RowInv'
  <2>1. cur[w] \in Delivery /\ answer[w] # "accepted"
    BY <1>13, ClaimedLemma DEF Withhold
  <2>2. \A d \in Delivery \ {cur[w]} : st'[d] = st[d]
    BY <1>13, <2>1, StatusLemma, BecomeLemma DEF Withhold
  <2> QED
    BY <1>12, <1>13, <2>1, <2>2, ContinueLemma DEF Withhold
<1>14. ASSUME Defer(w) PROVE ClaimInv' /\ RowInv'
  <2>1. cur[w] \in Delivery /\ answer[w] # "accepted"
    BY <1>14, ClaimedLemma DEF Defer
  <2>2. \A d \in Delivery \ {cur[w]} : st'[d] = st[d]
    BY <1>14, <2>1, StatusLemma, BecomeLemma DEF Defer
  <2> QED
    BY <1>12, <1>14, <2>1, <2>2, ContinueLemma DEF Defer
<1>15. ASSUME RecordRefused(w) PROVE ClaimInv' /\ RowInv'
  <2>1. cur[w] \in Delivery /\ answer[w] # "accepted"
    BY <1>15, ClaimedLemma DEF RecordRefused
  <2>2. st[cur[w]] = "SENDING"
    BY <1>15, <2>1, ClaimedLemma DEF RecordRefused
  <2>3. \A d \in Delivery \ {cur[w]} : st'[d] = st[d]
    BY <1>15, <2>1, <2>2, StatusLemma, BecomeLemma DEF RecordRefused
  <2> QED
    BY <1>12, <1>15, <2>1, <2>3, ContinueLemma DEF RecordRefused
<1>16. ASSUME Compose(w) PROVE ClaimInv' /\ RowInv'
  <2>1. pc[w] = "check" /\ pc'[w] = "ready" /\ UNCHANGED <<rows, ses, cur, answer>>
    BY <1>16, <1>3, AtLemma DEF Compose
  <2> QED
    BY <1>1, <2>1, ClaimedLemma DEF ClaimInv, RowInv, rows, ses
<1>17. ASSUME Request(w) PROVE ClaimInv' /\ RowInv'
  <2>1. pc[w] = "ready" /\ UNCHANGED <<rows, ses, cur>>
    BY <1>17 DEF Request
  <2>2. answer[w] = "none" /\ answer'[w] = "open"
    BY <1>17, <2>1, ClaimedLemma DEF Request, TypeOK
  <2> QED
    BY <1>1, <2>1, <2>2, ClaimedLemma DEF ClaimInv, RowInv, rows, ses
<1>18. ASSUME SesAnswers(w) PROVE ClaimInv' /\ RowInv'
  <2>1. /\ pc[w] = "waiting" /\ answer[w] = "open"
        /\ UNCHANGED <<rows, pc, cur, lingering>>
    BY <1>18 DEF SesAnswers
  <2>2. /\ cur[w] \in Delivery /\ cur[w] \notin lingering
        /\ accepted[cur[w]] = 0 /\ st[cur[w]] = "SENDING"
    BY <2>1, ClaimedLemma
  <2>3. CASE answer'[w] = "accepted"
    <3>1. /\ accepted'[cur[w]] = 1
          /\ \A d \in Delivery \ {cur[w]} : accepted'[d] = accepted[d]
      BY <1>18, <2>2, <2>3, UpLemma DEF SesAnswers, TypeOK
    <3> QED
      BY <1>1, <2>1, <2>2, <2>3, <3>1, SentLemma DEF ClaimInv, RowInv, rows
  <2>4. CASE answer'[w] # "accepted"
    <3>1. UNCHANGED accepted
      BY <1>18, <2>4 DEF SesAnswers, TypeOK
    <3> QED
      BY <1>1, <2>1, <2>2, <2>4, <3>1 DEF ClaimInv, RowInv, rows
  <2> QED
    BY <2>3, <2>4
<1>19. ASSUME RecordAccepted(w) PROVE ClaimInv' /\ RowInv'
  <2>1. /\ cur[w] \in Delivery /\ accepted[cur[w]] = 1 /\ cur[w] \notin lingering
        /\ UNCHANGED ses /\ pc'[w] = "next"
    BY <1>19, ClaimedLemma, ContinueLemma DEF RecordAccepted
  <2>2. st[cur[w]] \in Sent /\ st[cur[w]] \in Status
    BY <2>1 DEF RowInv, TypeOK
  <2>3. AcceptedState(st[cur[w]]) \in Sent /\ AcceptedState(st[cur[w]]) \in Status
    BY <2>2, SentLemma, StatusLemma DEF AcceptedState
  <2>4. /\ st'[cur[w]] \in Sent
        /\ \A d \in Delivery \ {cur[w]} : st'[d] = st[d]
    BY <1>19, <2>1, <2>3, BecomeLemma DEF RecordAccepted
  <2> QED
    BY <1>2, <2>1, <2>4 DEF RowInv, ses
<1>20. ASSUME RecordUnknown(w) PROVE ClaimInv' /\ RowInv'
  <2>1. pc[w] = "waiting" /\ pc'[w] = "next" /\ UNCHANGED accepted
    BY <1>20, ContinueLemma DEF RecordUnknown
  <2>2. cur[w] \in Delivery /\ cur[w] \notin lingering
    BY <2>1, ClaimedLemma
  <2>3. /\ st'[cur[w]] = IF st[cur[w]] = "SENDING" THEN "UNCERTAIN" ELSE st[cur[w]]
        /\ \A d \in Delivery \ {cur[w]} : st'[d] = st[d]
    BY <1>20, <2>2, StatusLemma, BecomeLemma DEF RecordUnknown, GiveUpStatus
  <2>4. CASE answer[w] = "open"
    <3>1. accepted[cur[w]] = 0 /\ st[cur[w]] = "SENDING"
      BY <2>1, <2>4, ClaimedLemma
    <3>2. lingering' = lingering \cup {cur[w]}
      BY <1>20, <2>4 DEF RecordUnknown
    <3> QED
      BY <1>2, <2>1, <2>2, <2>3, <3>1, <3>2 DEF RowInv
  <2>5. CASE answer[w] # "open"
    <3>1. UNCHANGED lingering
      BY <1>20, <2>5 DEF RecordUnknown
    <3> QED
      BY <1>2, <2>1, <2>2, <2>3, <3>1, SentLemma DEF RowInv
  <2> QED
    BY <2>4, <2>5
<1> QED
  BY <1>4, <1>5, <1>7, <1>8, <1>9, <1>10, <1>11, <1>13, <1>14, <1>15, <1>16, <1>17, <1>18,
     <1>19, <1>20 DEF Work

LEMMA EndRows ==
  ASSUME TypeOK, PointInv, LeaseInv, ClaimInv, RowInv, NEW w \in Dispatcher, End(w)
  PROVE  ClaimInv' /\ RowInv'
<1>1. /\ Gone(w) /\ pc[w] # "idle"
      /\ UNCHANGED <<st, accepted>>
  BY EndLemma DEF rows
<1>2. \A v \in Dispatcher : pc'[v] = "idle"
  BY <1>1, GoneLemma, OneAtWork
<1>3. CASE answer[w] = "open"
  <2>1. pc[w] = "waiting"
    BY <1>3 DEF PointInv
  <2>2. accepted[cur[w]] = 0 /\ st[cur[w]] = "SENDING"
    BY <2>1, <1>3, ClaimedLemma
  <2>3. lingering' = lingering \cup {cur[w]}
    BY <1>1, <1>3 DEF Gone
  <2> QED
    BY <1>1, <1>2, <2>2, <2>3 DEF ClaimInv, RowInv
<1>4. CASE answer[w] # "open"
  BY <1>1, <1>2, <1>4 DEF Gone, ClaimInv, RowInv
<1> QED
  BY <1>3, <1>4

LEMMA OutsideRows ==
  ASSUME TypeOK, PointInv, ClaimInv, RowInv, Outside
  PROVE  ClaimInv' /\ RowInv'
<1>1. UNCHANGED <<pc, cur, answer>>
  BY OutsideLemma DEF procs
\* SES has not accepted, and cannot accept, an unsent row, which nobody holds.
<1>2. ASSUME NEW d \in Delivery, st[d] \in Queued \cup {"absent", "FAILED"}, UNCHANGED ses,
             \A e \in Delivery \ {d} : st'[e] = st[e]
      PROVE  ClaimInv' /\ RowInv'
  <2>1. Unsent(d) /\ st[d] # "SENDING"
    BY <1>2, UnsentLemma, SentLemma
  <2>2. RowInv'
    BY <1>2, <2>1, UnsentRows
  <2>3. ASSUME NEW w \in Dispatcher, pc[w] \in {"check", "ready", "waiting"}
        PROVE  cur[w] \in Delivery \ {d}
    BY <2>1, <2>3, ClaimedLemma DEF Unsent
  <2>4. ClaimInv'
    BY <1>1, <1>2, <2>3 DEF ClaimInv, ses
  <2> QED
    BY <2>2, <2>4
\* A mail that SES has accepted may take any status that says so.
<1>3. ASSUME NEW d \in Delivery, accepted[d] > 0, st'[d] = st[d] \/ st'[d] \in Sent,
             UNCHANGED ses, \A e \in Delivery \ {d} : st'[e] = st[e]
      PROVE  ClaimInv' /\ RowInv'
  <2>1. accepted[d] # 0
    BY <1>3 DEF TypeOK
  <2>2. RowInv'
    BY <1>3, <2>1 DEF RowInv, ses
  <2>3. ClaimInv'
    BY <1>1, <1>3, <2>1 DEF ClaimInv, PointInv, ses
  <2> QED
    BY <2>2, <2>3
<1>4. ASSUME UNCHANGED <<st, ses>> PROVE ClaimInv' /\ RowInv'
  BY <1>1, <1>4 DEF ClaimInv, RowInv, ses
<1>5. ASSUME NEW d \in Delivery, LateAcceptance(d) PROVE ClaimInv' /\ RowInv'
  <2>1. /\ d \in lingering /\ lingering' = lingering \ {d}
        /\ UNCHANGED st
        /\ accepted' = [accepted EXCEPT ![d] = Up(@)]
    BY <1>5 DEF LateAcceptance, rows
  <2>2. accepted[d] = 0 /\ st[d] \in Sent
    BY <2>1, SentLemma DEF RowInv
  <2>3. /\ accepted'[d] = 1
        /\ \A e \in Delivery \ {d} : accepted'[e] = accepted[e]
    BY <2>1, <2>2, UpLemma DEF TypeOK
  <2>4. RowInv'
    BY <2>1, <2>2, <2>3 DEF RowInv
  <2>5. ClaimInv'
    BY <1>1, <2>1, <2>3 DEF ClaimInv, PointInv
  <2> QED
    BY <2>4, <2>5
<1>6. ASSUME NEW d \in Delivery, RequestLost(d) PROVE ClaimInv' /\ RowInv'
  BY <1>1, <1>6 DEF RequestLost, ClaimInv, RowInv, rows
<1>7. ASSUME NEW d \in Delivery, NEW e \in Event, Ingest(d, e) PROVE ClaimInv' /\ RowInv'
  <2>1. CASE Moves(d, e)
    <3>1. StateOf(e) \in Sent /\ StateOf(e) \in Status
      BY <2>1, MoveLemma, SentLemma, StatusLemma
    <3>2. /\ st'[d] \in Sent
          /\ \A f \in Delivery \ {d} : st'[f] = st[f]
      BY <1>7, <2>1, <3>1, BecomeLemma DEF Ingest
    <3> QED
      BY <1>3, <1>7, <3>2 DEF Ingest
  <2>2. CASE ~Moves(d, e)
    BY <1>4, <1>7, <2>2 DEF Ingest
  <2> QED
    BY <2>1, <2>2
<1>8. ASSUME NEW d \in Delivery, Insert(d) PROVE ClaimInv' /\ RowInv'
  BY <1>2, <1>8 DEF Insert, TypeOK
<1>9. ASSUME NEW d \in Delivery, Confirm(d) PROVE ClaimInv' /\ RowInv'
  <2>1. /\ st'[d] \in Sent
        /\ \A f \in Delivery \ {d} : st'[f] = st[f]
    BY <1>9, StatusLemma, SentLemma, BecomeLemma DEF Confirm
  <2> QED
    BY <1>3, <1>9, <2>1 DEF Confirm
<1>10. ASSUME NEW d \in Delivery, AdminRetry(d) PROVE ClaimInv' /\ RowInv'
  <2>1. /\ st[d] \in Queued \cup {"absent", "FAILED"}
        /\ UNCHANGED ses /\ \A f \in Delivery \ {d} : st'[f] = st[f]
    BY <1>10 DEF AdminRetry, Queued, TypeOK
  <2> QED
    BY <1>2, <2>1
<1>11. ASSUME NEW d \in Delivery, Unsubscribe(d) \/ BecomesDue(d) \/ Expires(d)
       PROVE  ClaimInv' /\ RowInv'
  BY <1>4, <1>11 DEF Unsubscribe, BecomesDue, Expires, rows
<1>12. ASSUME NEW x \in Switch, TurnOff(x) \/ TurnOn(x) PROVE ClaimInv' /\ RowInv'
  BY <1>4, <1>12 DEF TurnOff, TurnOn, rows
<1> QED
  BY <1>5, <1>6, <1>7, <1>8, <1>9, <1>10, <1>11, <1>12 DEF Outside, Subscribe, RequestTest

LEMMA RowsStep ==
  ASSUME TypeOK, PointInv, LeaseInv, ClaimInv, RowInv, [Next]_vars
  PROVE  ClaimInv' /\ RowInv'
<1>1. ASSUME NEW w \in Dispatcher, Lock(w) PROVE ClaimInv' /\ RowInv'
  <2>1. "locked" \in Point
    BY DEF Point
  <2>2. \A v \in Dispatcher : pc'[v] \in {"idle", "locked"}
    BY <1>1, <2>1, LockLemma, AtLemma DEF Lock
  <2> QED
    BY <1>1, <2>2 DEF Lock, ClaimInv, RowInv, rows, ses
<1>2. ASSUME NEW w \in Dispatcher, Work(w) PROVE ClaimInv' /\ RowInv'
  BY <1>2, WorkRows
<1>3. ASSUME NEW w \in Dispatcher, End(w) PROVE ClaimInv' /\ RowInv'
  BY <1>3, EndRows
<1>4. ASSUME Outside PROVE ClaimInv' /\ RowInv'
  BY <1>4, OutsideRows
<1>5. ASSUME Tick PROVE ClaimInv' /\ RowInv'
  BY <1>5 DEF Tick, ClaimInv, RowInv, ses
<1>6. ASSUME UNCHANGED vars PROVE ClaimInv' /\ RowInv'
  BY <1>6 DEF ClaimInv, RowInv, vars
<1> QED
  BY <1>1, <1>2, <1>3, <1>4, <1>5, <1>6, NextCases

-----------------------------------------------------------------------------
(* Attempts *)

\* The statuses in which a row takes no further attempt, or has one.
Settled == Status \ (Queued \cup {"absent", "SENDING"})

LEMMA SettledLemma ==
  /\ {"SUPPRESSED", "EXPIRED", "CANCELLED", "FAILED", "UNCERTAIN", "CONFIRMED"} \subseteq Settled
  /\ Feedback \subseteq Settled
  /\ {"PENDING", "RETRY"} \subseteq Queued /\ "SENDING" \notin Queued \cup {"absent"}
BY DEF Settled, Status, Queued, Feedback

\* Without a new attempt, rows may settle, or queue while the budget lasts.
LEMMA TryKept ==
  ASSUME TypeOK, TryInv, UNCHANGED tries,
         \A d \in Delivery : \/ st'[d] = st[d]
                             \/ st'[d] \in Settled
                             \/ st'[d] \in Queued /\ Budget(d)
  PROVE  TryInv'
BY DEF TryInv, Settled, Queued, Budget

\* The same, when one row changes.
LEMMA TryOne ==
  ASSUME TypeOK, TryInv, UNCHANGED tries, NEW d \in Delivery, NEW s \in Status, Become(d, s),
         s \in Settled \/ (s \in Queued /\ Budget(d)) \/ s = st[d]
  PROVE  TryInv'
<1>1. st'[d] = s /\ \A e \in Delivery \ {d} : st'[e] = st[e]
  BY BecomeLemma
<1> QED
  BY <1>1, TryKept

LEMMA WorkTries ==
  ASSUME TypeOK, PointInv, ClaimInv, TryInv, NEW w \in Dispatcher, Work(w)
  PROVE  TryInv'
<1>1. ASSUME Maintain(w) PROVE TryInv'
  <2>1. \A d \in Delivery : st'[d] = st[d] \/ st'[d] \in Settled
    BY <1>1, SettledLemma DEF Maintain, GiveUpStatus
  <2> QED
    BY <1>1, <2>1, TryKept DEF Maintain
<1>2. ASSUME Prepare(w) PROVE TryInv'
  <2>1. \A d \in Delivery : st'[d] = st[d] \/ (st[d] = "absent" /\ st'[d] \in Queued)
    BY <1>2, SettledLemma DEF Prepare, rows
  <2>2. \A d \in Delivery : st'[d] = st[d] \/ (st'[d] \in Queued /\ Budget(d))
    BY <2>1 DEF TryInv, Budget
  <2>3. UNCHANGED tries
    BY <1>2 DEF Prepare, rows
  <2> QED
    BY <2>2, <2>3, TryKept
<1>3. ASSUME UNCHANGED rows PROVE TryInv'
  BY <1>3, TryKept DEF rows
<1>4. ASSUME Claim(w) PROVE TryInv'
  <2>1. cur[w] \in Delivery
    BY <1>4, CurLemma DEF Claim
  <2>2. "SENDING" \in Status
    BY DEF Status
  <2>3. st'[cur[w]] = "SENDING" /\ \A d \in Delivery \ {cur[w]} : st'[d] = st[d]
    BY <1>4, <2>1, <2>2, BecomeLemma DEF Claim
  <2>4. /\ tries'[cur[w]] = tries[cur[w]] + 1
        /\ \A d \in Delivery \ {cur[w]} : tries'[d] = tries[d]
        /\ tries[cur[w]] \in 0 .. MaxTries
    BY <1>4, <2>1 DEF Claim, TypeOK
  <2> QED
    BY <2>1, <2>3, <2>4, SettledLemma, LimitAssumption DEF TryInv
<1>5. ASSUME Withhold(w) PROVE TryInv'
  <2>1. cur[w] \in Delivery
    BY <1>5, CurLemma DEF Withhold
  <2>2. \E s \in {"SUPPRESSED", "EXPIRED", "CANCELLED"} : Become(cur[w], s)
    BY <1>5 DEF Withhold
  <2>3. UNCHANGED tries
    BY <1>5 DEF Withhold
  <2> QED
    BY <2>1, <2>2, <2>3, TryOne, SettledLemma, StatusLemma
<1>6. ASSUME Defer(w) PROVE TryInv'
  <2>1. cur[w] \in Delivery /\ st[cur[w]] = "SENDING"
    BY <1>6, ClaimedLemma DEF Defer
  <2>2. st'[cur[w]] = "PENDING" /\ \A d \in Delivery \ {cur[w]} : st'[d] = st[d]
    BY <1>6, <2>1, StatusLemma, BecomeLemma DEF Defer
  <2>3. /\ tries'[cur[w]] = tries[cur[w]] - 1
        /\ \A d \in Delivery \ {cur[w]} : tries'[d] = tries[d]
        /\ tries[cur[w]] \in 0 .. MaxTries
    BY <1>6, <2>1 DEF Defer, TypeOK
  <2> QED
    BY <2>1, <2>2, <2>3, LimitAssumption DEF TryInv
<1>7. ASSUME RecordAccepted(w) PROVE TryInv'
  <2>1. /\ cur[w] \in Delivery
        /\ Become(cur[w], AcceptedState(st[cur[w]])) /\ UNCHANGED tries
    BY <1>7, CurLemma DEF RecordAccepted
  <2>2. AcceptedState(st[cur[w]]) \in Status
    BY <2>1, StatusLemma DEF AcceptedState, TypeOK
  <2>3. AcceptedState(st[cur[w]]) \in {st[cur[w]], "ACCEPTED"} /\ "ACCEPTED" \in Settled
    BY SettledLemma DEF AcceptedState, Feedback
  <2> QED
    BY <2>1, <2>2, <2>3, TryOne
<1>8. ASSUME RecordRefused(w) PROVE TryInv'
  <2>1. cur[w] \in Delivery /\ UNCHANGED tries
    BY <1>8, CurLemma DEF RecordRefused
  <2>2. CASE st[cur[w]] = "SENDING"
    <3>1. \/ Become(cur[w], "RETRY") /\ Budget(cur[w])
          \/ Become(cur[w], "FAILED")
      BY <1>8, <2>2 DEF RecordRefused
    <3> QED
      BY <2>1, <3>1, TryOne, SettledLemma, StatusLemma
  <2>3. CASE st[cur[w]] # "SENDING"
    BY <1>8, <2>1, <2>3, TryKept DEF RecordRefused
  <2> QED
    BY <2>2, <2>3
<1>9. ASSUME RecordUnknown(w) PROVE TryInv'
  <2>1. cur[w] \in Delivery /\ UNCHANGED tries
    BY <1>9, CurLemma DEF RecordUnknown
  <2>2. CASE st[cur[w]] = "SENDING"
    <3>1. Become(cur[w], "UNCERTAIN")
      BY <1>9, <2>2 DEF RecordUnknown, GiveUpStatus
    <3>2. "UNCERTAIN" \in Status
      BY DEF Status
    <3> QED
      BY <2>1, <3>1, <3>2, TryOne, SettledLemma
  <2>3. CASE st[cur[w]] # "SENDING"
    BY <1>9, <2>1, <2>3, TryKept DEF RecordUnknown
  <2> QED
    BY <2>2, <2>3
<1> QED
  BY <1>1, <1>2, <1>3, <1>4, <1>5, <1>6, <1>7, <1>8, <1>9
  DEF Work, Select, Take, PassGate, HoldBack, ClaimLost, Compose, Request, SesAnswers

LEMMA OutsideTries ==
  ASSUME TypeOK, TryInv, Outside
  PROVE  TryInv'
<1>1. ASSUME UNCHANGED <<st, tries>> PROVE TryInv'
  BY <1>1, TryKept
<1>2. ASSUME NEW d \in Delivery, NEW e \in Event, Ingest(d, e) PROVE TryInv'
  <2>1. CASE Moves(d, e)
    <3>1. StateOf(e) \in Feedback
      BY <2>1, MoveLemma
    <3>2. Become(d, StateOf(e)) /\ UNCHANGED tries
      BY <1>2, <2>1 DEF Ingest
    <3> QED
      BY <3>1, <3>2, TryOne, SettledLemma, StatusLemma
  <2>2. CASE ~Moves(d, e)
    BY <1>1, <1>2, <2>2 DEF Ingest
  <2> QED
    BY <2>1, <2>2
<1>3. ASSUME NEW d \in Delivery, Insert(d) PROVE TryInv'
  <2>1. st'[d] \in Queued /\ \A e \in Delivery \ {d} : st'[e] = st[e]
    BY <1>3, SettledLemma DEF Insert, TypeOK
  <2>2. Budget(d) /\ UNCHANGED tries
    BY <1>3 DEF Insert, TryInv, Budget
  <2> QED
    BY <2>1, <2>2, TryKept
<1>4. ASSUME NEW d \in Delivery, Confirm(d) PROVE TryInv'
  BY <1>4, TryOne, SettledLemma, StatusLemma DEF Confirm
<1>5. ASSUME NEW d \in Delivery, AdminRetry(d) PROVE TryInv'
  <2>1. st'[d] \in Queued /\ \A e \in Delivery \ {d} : st'[e] = st[e]
    BY <1>5, SettledLemma DEF AdminRetry, TypeOK
  <2>2. Budget(d) /\ UNCHANGED tries
    BY <1>5 DEF AdminRetry
  <2> QED
    BY <2>1, <2>2, TryKept
<1> QED
  BY <1>1, <1>2, <1>3, <1>4, <1>5
  DEF Outside, LateAcceptance, RequestLost, Subscribe, RequestTest, Unsubscribe, BecomesDue,
      Expires, TurnOff, TurnOn, rows

LEMMA TryStep ==
  ASSUME TypeOK, PointInv, ClaimInv, TryInv, [Next]_vars
  PROVE  TryInv'
<1>1. ASSUME NEW w \in Dispatcher, Work(w) PROVE TryInv'
  BY <1>1, WorkTries
<1>2. ASSUME Outside PROVE TryInv'
  BY <1>2, OutsideTries
<1>3. ASSUME UNCHANGED <<st, tries>> PROVE TryInv'
  BY <1>3, TryKept
<1> QED
  BY <1>1, <1>2, <1>3, EndLemma, NextCases DEF Lock, Tick, vars, rows

-----------------------------------------------------------------------------
(* Hard failures *)

\* Events alone make a row BOUNCED or COMPLAINT, and they suppress its recipient.
LEMMA BounceStep ==
  ASSUME TypeOK, PointInv, ClaimInv, BounceInv, [Next]_vars
  PROVE  BounceInv'
<1> DEFINE Hard == {"BOUNCED", "COMPLAINT"}
<1>1. ASSUME suppressed \subseteq suppressed',
             \A d \in Delivery : st'[d] = st[d] \/ st'[d] \notin Hard
      PROVE  BounceInv'
  BY <1>1 DEF BounceInv
<1>2. ASSUME NEW d \in Delivery, NEW s \in Status \ Hard, Become(d, s), UNCHANGED suppressed
      PROVE  BounceInv'
  <2>1. st'[d] = s /\ \A e \in Delivery \ {d} : st'[e] = st[e]
    BY <1>2, BecomeLemma
  <2> QED
    BY <1>1, <1>2, <2>1
<1>3. {"PENDING", "SENDING", "SUPPRESSED", "EXPIRED", "CANCELLED", "ACCEPTED",
       "RETRY", "FAILED", "CONFIRMED", GiveUpStatus} \subseteq Status \ Hard
  BY StatusLemma DEF GiveUpStatus
<1>4. ASSUME NEW w \in Dispatcher, Work(w) PROVE BounceInv'
  <2>1. UNCHANGED suppressed
    BY <1>4 DEF Work, Maintain, Prepare, Select, Take, PassGate, HoldBack, Claim, ClaimLost, Withhold,
                Defer, Compose, Request, SesAnswers, RecordAccepted, RecordRefused, RecordUnknown,
                people
  <2>2. ASSUME UNCHANGED st PROVE BounceInv'
    BY <1>1, <2>1, <2>2
  <2>3. ASSUME Maintain(w) \/ Prepare(w) PROVE BounceInv'
    <3>1. \A d \in Delivery : st'[d] = st[d] \/ st'[d] \in {"PENDING", GiveUpStatus}
      BY <2>3 DEF Maintain, Prepare, rows
    <3> QED
      BY <1>1, <1>3, <2>1, <3>1
  <2>4. ASSUME Claim(w) PROVE BounceInv'
    BY <1>2, <1>3, <2>1, <2>4, CurLemma DEF Claim
  <2>5. ASSUME Withhold(w) \/ Defer(w) PROVE BounceInv'
    <3>1. \E s \in {"PENDING", "SUPPRESSED", "EXPIRED", "CANCELLED"} : Become(cur[w], s)
      BY <2>5 DEF Withhold, Defer
    <3>2. cur[w] \in Delivery
      BY <2>5, CurLemma DEF Withhold, Defer
    <3> QED
      BY <1>2, <1>3, <2>1, <3>1, <3>2
  <2>6. ASSUME RecordAccepted(w) PROVE BounceInv'
    <3>1. cur[w] \in Delivery /\ Become(cur[w], AcceptedState(st[cur[w]]))
      BY <2>6, CurLemma DEF RecordAccepted
    <3>2. AcceptedState(st[cur[w]]) \in {st[cur[w]], "ACCEPTED"} \cap Status
      BY <1>3, <3>1 DEF AcceptedState, TypeOK
    <3>3. /\ st'[cur[w]] \in {st[cur[w]], "ACCEPTED"}
          /\ \A e \in Delivery \ {cur[w]} : st'[e] = st[e]
      BY <3>1, <3>2, BecomeLemma
    <3> QED
      BY <1>1, <2>1, <3>3
  <2>7. ASSUME RecordRefused(w) \/ RecordUnknown(w) PROVE BounceInv'
    <3>1. \/ UNCHANGED st
          \/ \E s \in {"RETRY", "FAILED", GiveUpStatus} : Become(cur[w], s)
      BY <2>7 DEF RecordRefused, RecordUnknown
    <3>2. cur[w] \in Delivery
      BY <2>7, CurLemma DEF RecordRefused, RecordUnknown
    <3> QED
      BY <1>2, <1>3, <2>1, <2>2, <3>1, <3>2
  <2> QED
    BY <1>4, <2>2, <2>3, <2>4, <2>5, <2>6, <2>7
    DEF Work, Select, Take, PassGate, HoldBack, ClaimLost, Compose, Request, SesAnswers, rows
<1>5. ASSUME NEW d \in Delivery, NEW e \in Event, Ingest(d, e) PROVE BounceInv'
  <2>1. CASE ~Moves(d, e)
    BY <1>1, <1>5, <2>1 DEF Ingest
  <2>2. CASE Moves(d, e)
    <3>1. StateOf(e) \in Status /\ Become(d, StateOf(e))
      BY <1>5, <2>2, MoveLemma, StatusLemma DEF Ingest
    <3>2. st'[d] = StateOf(e) /\ \A f \in Delivery \ {d} : st'[f] = st[f]
      BY <3>1, BecomeLemma
    <3>3. StateOf(e) \in Hard => e \in {"Bounce", "Complaint"}
      BY DEF StateOf
    <3>4. suppressed \subseteq suppressed' /\ (StateOf(e) \in Hard => Recipient[d] \in suppressed')
      BY <1>5, <3>3 DEF Ingest
    <3> QED
      BY <3>2, <3>4 DEF BounceInv
  <2> QED
    BY <2>1, <2>2
<1>6. ASSUME NEW d \in Delivery, Confirm(d) PROVE BounceInv'
  BY <1>2, <1>3, <1>6 DEF Confirm
<1>7. ASSUME NEW d \in Delivery, Insert(d) \/ AdminRetry(d) PROVE BounceInv'
  BY <1>1, <1>7 DEF Insert, AdminRetry, people, TypeOK
<1>8. ASSUME UNCHANGED <<st, suppressed>> PROVE BounceInv'
  BY <1>1, <1>8
<1>9. ASSUME Outside PROVE BounceInv'
  BY <1>5, <1>6, <1>7, <1>8, <1>9
  DEF Outside, LateAcceptance, RequestLost, Subscribe, RequestTest, Unsubscribe, BecomesDue,
      Expires, TurnOff, TurnOn, rows, people
<1> QED
  BY <1>4, <1>8, <1>9, EndLemma, NextCases DEF Lock, Tick, vars, rows, people

-----------------------------------------------------------------------------
(* Stops *)

\* What concerns a row: its recipient, and the switches of its kind.
LEMMA ConcernLemma ==
  ASSUME NEW d \in Delivery, NEW x \in Concerning(d)
  PROVE  \/ x = <<"suppressed", Recipient[d]>>
         \/ Kind[d] = "ALERT" /\ x = <<"unsubscribed", Recipient[d]>>
         \/ Kind[d] = "ALERT" /\ \E s \in Switch : x = <<"off", s>>
         \/ Kind[d] = "VERIFY" /\ x = <<"off", "feature">>
BY DEF Concerning

\* A stop in force is a switch off, a suppression or a missing subscription.
LEMMA ForceLemma ==
  /\ \A s : <<"off", s>> \in InForce => s \notin on
  /\ \A r : <<"suppressed", r>> \in InForce => r \in suppressed
  /\ \A r : <<"unsubscribed", r>> \in InForce => r \notin subscribed
BY DEF InForce

\* When no request is made, stops may come into force, and a dispatcher may
\* get past reading those under which nothing has been requested.
LEMMA StopKept ==
  ASSUME TypeOK, StopInv, UNCHANGED late,
         \A x \in Stop : x \in InForce => x \in InForce',
         \A w \in Dispatcher : \A x \in Stop : Past(w, x)' => Past(w, x) \/ late[x] # 1
  PROVE  StopInv'
BY DEF StopInv

\* The gate: no dispatcher passes a switch that is off.
LEMMA GateStep ==
  ASSUME TypeOK, StopInv, NEW w \in Dispatcher, NEW d \in Delivery, PassGate(w, d)
  PROVE  StopInv'
<1>1. "claim" \in Point
  BY DEF Point
<1>2. /\ pc'[w] = "claim" /\ cur'[w] = d
      /\ \A v \in Dispatcher \ {w} : pc'[v] = pc[v] /\ cur'[v] = cur[v]
  BY <1>1, AtLemma DEF PassGate, TypeOK
<1>3. ASSUME NEW x \in Stop, Past(w, x)'
      PROVE  late[x] # 1
  <2>1. x[1] = "off" /\ x \in Concerning(d)
    BY <1>2, <1>3 DEF Past, Concerning
  <2>2. \E s \in Switch : x = <<"off", s>> /\ s \in on
    BY <2>1, ConcernLemma DEF PassGate, Gate, Switch
  <2>3. x \notin InForce
    BY <2>2, ForceLemma
  <2> QED
    BY <2>3 DEF StopInv
<1>4. ASSUME NEW v \in Dispatcher \ {w}, NEW x \in Stop, Past(v, x)'
      PROVE  Past(v, x)
  BY <1>2, <1>4 DEF Past, Concerning
<1> QED
  BY <1>3, <1>4, StopKept DEF PassGate, InForce, people

\* The second reading: no dispatcher composes a mail its recipient has stopped.
LEMMA ComposeStep ==
  ASSUME TypeOK, PointInv, StopInv, NEW w \in Dispatcher, Compose(w)
  PROVE  StopInv'
<1>1. "ready" \in Point
  BY DEF Point
<1>2. /\ pc[w] = "check" /\ pc'[w] = "ready" /\ cur[w] \in Delivery /\ UNCHANGED cur
      /\ \A v \in Dispatcher \ {w} : pc'[v] = pc[v]
  BY <1>1, AtLemma, CurLemma DEF Compose
<1>3. ASSUME NEW x \in Stop, Past(w, x)', ~Past(w, x)
      PROVE  late[x] # 1
  <2>1. x[1] # "off" /\ x \in Concerning(cur[w])
    BY <1>2, <1>3 DEF Past, Concerning
  <2>2. \/ x = <<"suppressed", Recipient[cur[w]]>>
        \/ Kind[cur[w]] = "ALERT" /\ x = <<"unsubscribed", Recipient[cur[w]]>>
    BY <1>2, <2>1, ConcernLemma
  <2>3. /\ Recipient[cur[w]] \notin suppressed
        /\ Kind[cur[w]] = "ALERT" => Recipient[cur[w]] \in subscribed
    BY DEF Compose, Forbidden, Active
  <2>4. x \notin InForce
    BY <2>2, <2>3, ForceLemma
  <2> QED
    BY <2>4 DEF StopInv
<1>4. ASSUME NEW v \in Dispatcher \ {w}, NEW x \in Stop, Past(v, x)'
      PROVE  Past(v, x)
  BY <1>2, <1>4 DEF Past, Concerning
<1> QED
  BY <1>3, <1>4, StopKept DEF Compose, InForce, people

\* A request is counted against the stops its sender was past, and nobody else
\* is past anything.
LEMMA RequestStep ==
  ASSUME TypeOK, LeaseInv, PointInv, StopInv, NEW w \in Dispatcher, Request(w)
  PROVE  StopInv'
<1>1. "waiting" \in Point
  BY DEF Point
<1>2. /\ pc[w] = "ready" /\ pc'[w] = "waiting"
      /\ \A v \in Dispatcher \ {w} : pc'[v] = "idle"
  BY <1>1, AtLemma, OneAtWork DEF Request
<1>3. \A v \in Dispatcher : \A x \in Stop : ~Past(v, x)'
  BY <1>2 DEF Past
<1>4. InForce' = InForce
  BY DEF Request, InForce, people
<1>5. ASSUME NEW x \in Stop
      PROVE  late'[x] <= 1 /\ (x \notin InForce => late'[x] = 0)
  <2>1. late[x] \in 0 .. 2 /\ late[x] <= 1
    BY DEF TypeOK, StopInv
  <2>2. CASE x \in InForce \cap Concerning(cur[w])
    <3>1. Past(w, x)
      BY <1>2, <2>2 DEF Past
    <3>2. late[x] = 0
      BY <2>1, <3>1 DEF StopInv
    <3>3. late'[x] = Up(late[x])
      BY <2>2 DEF Request
    <3> QED
      BY <2>2, <3>2, <3>3, UpLemma
  <2>3. CASE x \notin InForce \cap Concerning(cur[w])
    <3>1. late'[x] = late[x]
      BY <2>3 DEF Request
    <3> QED
      BY <2>1, <3>1 DEF StopInv
  <2> QED
    BY <2>2, <2>3
<1> QED
  BY <1>3, <1>4, <1>5 DEF StopInv

LEMMA OutsideStops ==
  ASSUME TypeOK, StopInv, Outside
  PROVE  StopInv'
<1>1. \A w \in Dispatcher : \A x \in Stop : Past(w, x)' <=> Past(w, x)
  BY OutsideLemma DEF Past, Concerning, procs
<1>2. ASSUME UNCHANGED late, suppressed \subseteq suppressed', subscribed' \subseteq subscribed,
             on' \subseteq on
      PROVE  StopInv'
  <2>1. \A x \in Stop : x \in InForce => x \in InForce'
    BY <1>2 DEF InForce
  <2> QED
    BY <1>1, <1>2, <2>1, StopKept
\* A stop that is lifted, and counts afresh.
<1>3. ASSUME NEW y \in Stop, late' = [late EXCEPT ![y] = 0],
             \A x \in Stop \ {y} : x \in InForce => x \in InForce'
      PROVE  StopInv'
  <2>1. late'[y] = 0 /\ \A x \in Stop \ {y} : late'[x] = late[x]
    BY <1>3, LiftLemma
  <2> QED
    BY <1>1, <1>3, <2>1 DEF StopInv
<1>4. ASSUME NEW d \in Delivery, Confirm(d) PROVE StopInv'
  <2> DEFINE y == <<"unsubscribed", Recipient[d]>>
  <2>1. y \in Stop
    BY DeliveryAssumption DEF Stop
  <2>2. \A x \in Stop \ {y} : x \in InForce => x \in InForce'
    BY <1>4 DEF Confirm, InForce
  <2> QED
    BY <1>3, <1>4, <2>1, <2>2 DEF Confirm
<1>5. ASSUME NEW s \in Switch, TurnOn(s) PROVE StopInv'
  <2> DEFINE y == <<"off", s>>
  <2>1. y \in Stop
    BY DEF Stop
  <2>2. \A x \in Stop \ {y} : x \in InForce => x \in InForce'
    BY <1>5 DEF TurnOn, InForce, people
  <2> QED
    BY <1>3, <1>5, <2>1, <2>2 DEF TurnOn
<1>6. ASSUME NEW d \in Delivery, NEW e \in Event, Ingest(d, e) PROVE StopInv'
  BY <1>2, <1>6 DEF Ingest
<1>7. ASSUME NEW d \in Delivery, Unsubscribe(d) PROVE StopInv'
  BY <1>2, <1>7 DEF Unsubscribe
<1>8. ASSUME NEW s \in Switch, TurnOff(s) PROVE StopInv'
  BY <1>2, <1>8 DEF TurnOff, people
<1>9. ASSUME UNCHANGED <<people, on, late>> PROVE StopInv'
  BY <1>2, <1>9 DEF people
<1> QED
  BY <1>4, <1>5, <1>6, <1>7, <1>8, <1>9
  DEF Outside, LateAcceptance, RequestLost, Subscribe, RequestTest, Insert, AdminRetry,
      BecomesDue, Expires

LEMMA StopStep ==
  ASSUME TypeOK, LeaseInv, PointInv, StopInv, [Next]_vars
  PROVE  StopInv'
\* A step after which only those are past a stop who were before.
<1>1. ASSUME UNCHANGED <<people, on, late>>,
             \A w \in Dispatcher :
               \/ pc'[w] = pc[w] /\ cur'[w] = cur[w]
               \/ pc[w] = "claim" /\ pc'[w] = "check" /\ cur'[w] = cur[w]
               \/ pc'[w] \notin {"claim", "check", "ready"}
      PROVE  StopInv'
  <2>1. \A w \in Dispatcher : \A x \in Stop : Past(w, x)' => Past(w, x)
    BY <1>1 DEF Past, Concerning
  <2>2. InForce' = InForce
    BY <1>1 DEF InForce, people
  <2> QED
    BY <1>1, <2>1, <2>2, StopKept
<1>2. {"locked", "maintained", "prepared", "next", "check"} \subseteq Point
  BY DEF Point
<1>3. ASSUME NEW w \in Dispatcher, Lock(w) PROVE StopInv'
  BY <1>1, <1>2, <1>3, AtLemma DEF Lock
<1>4. ASSUME NEW w \in Dispatcher, End(w) PROVE StopInv'
  BY <1>1, <1>4, EndLemma, GoneLemma
<1>5. ASSUME NEW w \in Dispatcher, Work(w) PROVE StopInv'
  <2>1. \A v \in Dispatcher \ {w} : pc'[v] = pc[v] /\ cur'[v] = cur[v]
    BY <1>5, WorkLemma
  <2>2. ASSUME UNCHANGED <<people, on, late>>, pc'[w] \notin {"claim", "check", "ready"}
        PROVE  StopInv'
    BY <1>1, <2>1, <2>2
  <2>3. ASSUME Maintain(w) \/ Prepare(w) \/ Select(w) PROVE StopInv'
    BY <1>2, <2>2, <2>3, AtLemma DEF Maintain, Prepare, Select, Take
  <2>4. ASSUME NEW d \in Delivery, PassGate(w, d) PROVE StopInv'
    BY <2>4, GateStep
  <2>5. ASSUME NEW d \in Delivery, HoldBack(w, d) PROVE StopInv'
    BY <2>2, <2>5, ContinueLemma DEF HoldBack
  <2>6. ASSUME Claim(w) PROVE StopInv'
    <3>1. pc[w] = "claim" /\ pc'[w] = "check" /\ UNCHANGED <<people, on, late, cur>>
      BY <1>2, <2>6, AtLemma DEF Claim
    <3> QED
      BY <1>1, <2>1, <3>1
  <2>7. ASSUME ClaimLost(w) \/ Withhold(w) \/ Defer(w) PROVE StopInv'
    BY <2>2, <2>7, ContinueLemma DEF ClaimLost, Withhold, Defer
  <2>8. ASSUME Compose(w) PROVE StopInv'
    BY <2>8, ComposeStep
  <2>9. ASSUME Request(w) PROVE StopInv'
    BY <2>9, RequestStep
  <2>10. ASSUME SesAnswers(w) PROVE StopInv'
    BY <2>2, <2>10 DEF SesAnswers
  <2>11. ASSUME RecordAccepted(w) \/ RecordRefused(w) \/ RecordUnknown(w) PROVE StopInv'
    BY <2>2, <2>11, ContinueLemma DEF RecordAccepted, RecordRefused, RecordUnknown
  <2> QED
    BY <1>5, <2>3, <2>4, <2>5, <2>6, <2>7, <2>8, <2>9, <2>10, <2>11 DEF Work
<1>6. ASSUME Outside PROVE StopInv'
  BY <1>6, OutsideStops
<1>7. ASSUME UNCHANGED <<people, on, late, pc, cur>> PROVE StopInv'
  BY <1>1, <1>7
<1> QED
  BY <1>3, <1>4, <1>5, <1>6, <1>7, NextCases DEF Tick, vars, people

-----------------------------------------------------------------------------
(* The theorems *)

LEMMA InitInv == Init => IInv
<1> SUFFICES ASSUME Init PROVE IInv
  OBVIOUS
<1>1. TypeOK
  BY InitType
<1>2. LeaseInv /\ ClaimInv
  BY DEF Init, LeaseInv, ClaimInv
<1>3. PointInv
  BY DispatcherAssumption DEF Init, PointInv
<1>4. RowInv /\ BounceInv
  BY DEF Init, RowInv, BounceInv
<1>5. TryInv
  BY LimitAssumption DEF Init, TryInv
<1>6. StopInv
  BY DEF Init, StopInv
<1> QED
  BY <1>1, <1>2, <1>3, <1>4, <1>5, <1>6 DEF IInv

LEMMA NextInv == IInv /\ [Next]_vars => IInv'
<1> SUFFICES ASSUME IInv, [Next]_vars PROVE IInv'
  OBVIOUS
<1>1. TypeOK /\ LeaseInv /\ PointInv /\ ClaimInv /\ RowInv /\ TryInv /\ BounceInv /\ StopInv
  BY DEF IInv
<1>2. TypeOK'
  BY <1>1, NextType
<1>3. LeaseInv' /\ PointInv'
  BY <1>1, LeaseStep, PointStep
<1>4. ClaimInv' /\ RowInv'
  BY <1>1, RowsStep
<1>5. TryInv' /\ BounceInv' /\ StopInv'
  BY <1>1, TryStep, BounceStep, StopStep
<1> QED
  BY <1>2, <1>3, <1>4, <1>5 DEF IInv

\* The inductive invariant of the outbox: what each dispatcher and each request
\* under way imply about the rows, the lease, the attempts and the stops.
THEOREM Invariant == Spec => []IInv
BY InitInv, NextInv, PTL DEF Spec

\* Every variable keeps its type; in particular attempt_count stays within
\* email_max_attempts.
THEOREM TypeCorrect == Spec => []TypeOK
<1>1. IInv => TypeOK
  BY DEF IInv
<1> QED
  BY <1>1, Invariant, PTL

\* One dispatcher at a time, because the time limit of a tick is no longer than
\* the lease of email_controls.
THEOREM DispatcherIsSingle == Spec => []OneDispatcher
<1>1. IInv => OneDispatcher
  BY OneAtWork DEF IInv, OneDispatcher
<1> QED
  BY <1>1, Invariant, PTL

\* SES accepts the mail of a row at most once.
THEOREM AcceptanceIsSingle == Spec => []AcceptedAtMostOnce
<1>1. IInv => AcceptedAtMostOnce
  BY DEF IInv, RowInv, AcceptedAtMostOnce
<1> QED
  BY <1>1, Invariant, PTL

\* A queued row has not been accepted, and no request that SES could still
\* accept is under way for it.
THEOREM QueueIsUnsent == Spec => []QueuedIsUnsent
<1>1. ASSUME IInv PROVE QueuedIsUnsent
  <2> SUFFICES ASSUME NEW d \in Delivery, st[d] \in Queued
               PROVE  /\ accepted[d] = 0 /\ d \notin lingering
                      /\ \A w \in Dispatcher : cur[w] = d => answer[w] = "none"
    BY DEF QueuedIsUnsent
  <2>1. TypeOK /\ PointInv /\ ClaimInv /\ RowInv
    BY <1>1 DEF IInv
  <2>2. Unsent(d) /\ st[d] # "SENDING"
    BY <2>1, UnsentLemma, SentLemma
  <2>3. ASSUME NEW w \in Dispatcher, cur[w] = d, answer[w] # "none"
        PROVE  FALSE
    <3>1. pc[w] = "waiting"
      BY <2>1, <2>3 DEF PointInv
    <3> QED
      BY <2>1, <2>2, <2>3, <3>1, ClaimedLemma DEF Unsent
  <2> QED
    BY <2>2, <2>3 DEF Unsent
<1> QED
  BY <1>1, Invariant, PTL

\* After a switch is turned off, a complaint or an unsubscription, at most one
\* more mail that it concerns is requested from SES.
THEOREM StopsArePrompt == Spec => []StopIsPrompt
<1>1. IInv => StopIsPrompt
  BY DEF IInv, StopInv, StopIsPrompt
<1> QED
  BY <1>1, Invariant, PTL

\* What SES has reported of a mail is never overwritten by something that says
\* less, whatever the order of events, answers and clicks.
THEOREM FeedbackKept == Spec => FeedbackStands
<1> DEFINE Kept(d) ==
             \/ st'[d] = "CONFIRMED" /\ st[d] \notin {"BOUNCED", "COMPLAINT"}
             \/ st[d] # "CONFIRMED" /\ st'[d] \in Feedback /\ Rank(st'[d]) >= Rank(st[d])
           Goal == \A d \in Delivery : st[d] \in Feedback \cup {"CONFIRMED"} => Kept(d)
<1>1. IInv /\ [Next]_vars => [Goal]_vars
  <2> SUFFICES ASSUME IInv, [Next]_vars, NEW d \in Delivery, st[d] \in Feedback \cup {"CONFIRMED"}
               PROVE  Kept(d)
    OBVIOUS
  <2>1. TypeOK /\ PointInv /\ ClaimInv /\ BounceInv
    BY DEF IInv
  <2>2. st[d] \notin Queued \cup {"absent", "SENDING", "FAILED"}
    BY DEF Feedback, Queued
  <2>3. ASSUME st'[d] = st[d] PROVE Kept(d)
    <3>1. Rank(st[d]) >= Rank(st[d])
      BY DEF Rank
    <3>2. "CONFIRMED" \notin {"BOUNCED", "COMPLAINT"}
      OBVIOUS
    <3> QED
      BY <2>3, <3>1, <3>2
  <2>4. ASSUME NEW e \in Delivery \ {d}, NEW s \in Status, Become(e, s) PROVE Kept(d)
    BY <2>1, <2>3, <2>4, BecomeLemma
  <2>5. ASSUME NEW w \in Dispatcher, Work(w) PROVE Kept(d)
    <3>1. ASSUME Maintain(w) \/ Prepare(w) PROVE Kept(d)
      BY <2>2, <2>3, <3>1 DEF Maintain, Prepare, Lost, rows
    <3>2. ASSUME Claim(w) PROVE Kept(d)
      BY <2>1, <2>2, <2>4, <3>2, CurLemma, StatusLemma DEF Claim, Ready
    <3>3. ASSUME Withhold(w) \/ Defer(w) PROVE Kept(d)
      <4>1. \E s \in {"PENDING", "SUPPRESSED", "EXPIRED", "CANCELLED"} : Become(cur[w], s)
        BY <3>3 DEF Withhold, Defer
      <4>2. cur[w] \in Delivery /\ st[cur[w]] = "SENDING"
        BY <2>1, <3>3, ClaimedLemma DEF Withhold, Defer
      <4> QED
        BY <2>2, <2>4, <4>1, <4>2, StatusLemma
    <3>4. ASSUME RecordAccepted(w) PROVE Kept(d)
      <4>1. cur[w] \in Delivery /\ Become(cur[w], AcceptedState(st[cur[w]]))
        BY <2>1, <3>4, CurLemma DEF RecordAccepted
      <4>2. AcceptedState(st[cur[w]]) \in Status
        BY <2>1, <4>1, StatusLemma DEF AcceptedState, TypeOK
      <4>3. CASE cur[w] = d
        <5>1. AcceptedState(st[d]) = st[d]
          BY DEF AcceptedState, Feedback
        <5> QED
          BY <2>1, <2>3, <4>1, <4>2, <4>3, <5>1, BecomeLemma
      <4> QED
        BY <2>4, <4>1, <4>2, <4>3
    <3>5. ASSUME RecordRefused(w) \/ RecordUnknown(w) PROVE Kept(d)
      <4>1. \/ UNCHANGED st
            \/ /\ st[cur[w]] = "SENDING"
               /\ \E s \in {"RETRY", "FAILED", GiveUpStatus} : Become(cur[w], s)
        BY <3>5 DEF RecordRefused, RecordUnknown
      <4>2. cur[w] \in Delivery
        BY <2>1, <3>5, CurLemma DEF RecordRefused, RecordUnknown
      <4> QED
        BY <2>2, <2>3, <2>4, <4>1, <4>2, StatusLemma
    <3> QED
      BY <2>3, <2>5, <3>1, <3>2, <3>3, <3>4, <3>5
      DEF Work, Select, Take, PassGate, HoldBack, ClaimLost, Compose, Request, SesAnswers, rows
  <2>6. ASSUME NEW f \in Delivery, NEW e \in Event, Ingest(f, e) PROVE Kept(d)
    <3>1. CASE ~Moves(f, e)
      BY <2>3, <2>6, <3>1 DEF Ingest
    <3>2. CASE Moves(f, e)
      <4>1. /\ StateOf(e) \in Feedback /\ StateOf(e) \in Status
            /\ Rank(StateOf(e)) > Rank(st[f]) /\ st[f] # "CONFIRMED"
            /\ Become(f, StateOf(e))
        BY <2>6, <3>2, MoveLemma, StatusLemma DEF Ingest, Moves
      <4>2. CASE f = d
        <5>1. st'[d] = StateOf(e)
          BY <2>1, <4>1, <4>2, BecomeLemma
        <5>2. Rank(StateOf(e)) \in Nat /\ Rank(st[d]) \in Nat
          BY DEF Rank
        <5> QED
          BY <4>1, <4>2, <5>1, <5>2
      <4> QED
        BY <2>4, <4>1, <4>2
    <3> QED
      BY <3>1, <3>2
  <2>7. ASSUME NEW f \in Delivery, Confirm(f) PROVE Kept(d)
    <3>1. CASE f = d
      <4>1. st'[d] = "CONFIRMED"
        BY <2>1, <2>7, <3>1, StatusLemma, BecomeLemma DEF Confirm
      <4>2. st[d] \notin {"BOUNCED", "COMPLAINT"}
        BY <2>1, <2>7, <3>1 DEF Confirm, BounceInv
      <4> QED
        BY <4>1, <4>2
    <3>2. CASE f # d
      BY <2>4, <2>7, <3>2, StatusLemma DEF Confirm
    <3> QED
      BY <3>1, <3>2
  <2>8. ASSUME NEW f \in Delivery, Insert(f) \/ AdminRetry(f) PROVE Kept(d)
    <3>1. f # d
      BY <2>2, <2>8 DEF Insert, AdminRetry, Queued
    <3> QED
      BY <2>1, <2>3, <2>8, <3>1 DEF Insert, AdminRetry, TypeOK
  <2>9. ASSUME UNCHANGED st PROVE Kept(d)
    BY <2>3, <2>9
  <2>10. ASSUME Outside PROVE Kept(d)
    BY <2>6, <2>7, <2>8, <2>9, <2>10
    DEF Outside, LateAcceptance, RequestLost, Subscribe, RequestTest, Unsubscribe, BecomesDue,
        Expires, TurnOff, TurnOn, rows
  <2> QED
    BY <2>5, <2>9, <2>10, EndLemma, NextCases DEF Lock, Tick, vars, rows
<1>2. FeedbackStands <=> [][Goal]_vars
  BY DEF FeedbackStands
<1> HIDE DEF Goal
<1> QED
  BY <1>1, <1>2, Invariant, PTL DEF Spec
=============================================================================
