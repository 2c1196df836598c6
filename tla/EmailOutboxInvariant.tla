------------------------ MODULE EmailOutboxInvariant ------------------------
(***************************************************************************)
(* The inductive invariant of EmailOutbox.  None of its safety properties  *)
(* is inductive alone: that a queued row is unsent rests on what each      *)
(* dispatcher and each unanswered request can still do to it, and that     *)
(* rests on there being one dispatcher.                                    *)
(***************************************************************************)
EXTENDS EmailOutbox

\* The states of a row whose mail SES has accepted, or may accept yet.
Sent == {"SENDING", "UNCERTAIN", "CONFIRMED"} \cup Feedback

\* A dispatcher at work holds the lease, which is no older than its tick.
LeaseInv ==
  \A w \in Dispatcher : pc[w] # "idle" => holder = w /\ leaseAge <= age[w]

\* A dispatcher has a row from the gate to the answer, and an SES request only
\* while it waits.
PointInv ==
  \A w \in Dispatcher :
    /\ cur[w] \in Delivery <=> pc[w] \in {"claim", "check", "ready", "waiting"}
    /\ answer[w] # "none" <=> pc[w] = "waiting"

\* The claim, and the request until SES accepts it, are visible in the row, and
\* no earlier request for the row is under way.
ClaimInv ==
  \A w \in Dispatcher :
    pc[w] \in {"check", "ready", "waiting"} =>
      /\ cur[w] \notin lingering
      /\ IF answer[w] = "accepted" THEN accepted[cur[w]] = 1
         ELSE accepted[cur[w]] = 0 /\ st[cur[w]] = "SENDING"

\* A request is under way, or was accepted, only for a row whose status says so.
RowInv ==
  \A d \in Delivery :
    /\ accepted[d] <= 1
    /\ accepted[d] = 1 => st[d] \in Sent
    /\ d \in lingering => accepted[d] = 0 /\ st[d] \in {"SENDING", "UNCERTAIN"}

\* Attempts are counted before they are made, and never beyond the budget.
TryInv ==
  \A d \in Delivery :
    /\ st[d] \in Queued \cup {"absent"} => tries[d] < MaxTries
    /\ st[d] = "SENDING" => tries[d] > 0

\* A hard failure has suppressed its recipient.
BounceInv ==
  \A d \in Delivery : st[d] \in {"BOUNCED", "COMPLAINT"} => Recipient[d] \in suppressed

\* The dispatchers that have passed the reading of a switch or a subscriber.
Past(w, x) ==
  /\ pc[w] = "ready" \/ (x[1] = "off" /\ pc[w] \in {"claim", "check"})
  /\ x \in Concerning(cur[w])

\* A mail is requested after a stop only by a dispatcher that was past reading
\* it, and none is left once one has.
StopInv ==
  \A x \in Stop :
    /\ late[x] <= 1
    /\ x \notin InForce => late[x] = 0
    /\ late[x] = 1 => \A w \in Dispatcher : ~Past(w, x)

IInv ==
  /\ TypeOK
  /\ LeaseInv
  /\ PointInv
  /\ ClaimInv
  /\ RowInv
  /\ TryInv
  /\ BounceInv
  /\ StopInv
=============================================================================
