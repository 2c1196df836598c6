---------------------------- MODULE Subscription ----------------------------
(***************************************************************************)
(* Double opt-in: the requests that change an email subscriber, as the     *)
(* transactions they are, with PostgreSQL's row locks.                     *)
(*                                                                         *)
(* subscribe locks the subscriber and then updates the row of a mail it    *)
(* has already sent; the link requests (confirm, unsubscribe, SES events)  *)
(* lock the row of the mail and then the subscriber.  Two of them can wait *)
(* for each other, and PostgreSQL then aborts one.  A transaction shows    *)
(* nothing before its commit, so its writes are those of its last step.    *)
(***************************************************************************)
EXTENDS Naturals

CONSTANTS
  Request,      \* connections, each with one HTTP request at a time
  Address,      \* subscribers, by the hash of their address
  Mail,         \* identifiers of email_deliveries rows
  Profile,      \* profiles that can be submitted
  None          \* no request, mail, address or profile

ASSUME NoneAssumption == None \notin Request \cup Address \cup Mail \cup Profile

LinkKind == {"confirm", "unsubscribe", "hard", "soft"}  \* hard: bounce or complaint
ReqKind == LinkKind \cup {"subscribe"}

VARIABLES
  verified, unsubscribed, suppressed,  \* subscribers whose column is set
  profile,      \* the confirmed profile
  kind,         \* kind[m]: VERIFY, ALERT; "none" before the insert
  owner,        \* owner[m]: subscriber_id
  confirmed,    \* mails whose status is CONFIRMED
  staged,       \* requested_profile_encrypted
  old,          \* mails created more than 24 hours ago
  subLock, mailLock,      \* the request that holds the row lock
  pc, req, about, asked,  \* per request: kind, address or mail, profile
  found         \* per subscribe: the outstanding mail it read

rows == <<kind, owner, confirmed, staged, old>>
people == <<verified, unsubscribed, suppressed, profile>>
local == <<req, about, asked>>
vars == <<verified, unsubscribed, suppressed, profile, kind, owner, confirmed, staged, old,
          subLock, mailLock, pc, req, about, asked, found>>

\* subscribe: locked, read; a link request: row (the mail's lock), both (locks)
Point == {"idle", "begun", "locked", "read", "row", "both"}

TypeOK ==
  /\ verified \subseteq Address /\ unsubscribed \subseteq Address /\ suppressed \subseteq Address
  /\ profile \in [Address -> Profile \cup {None}]
  /\ kind \in [Mail -> {"none", "VERIFY", "ALERT"}]
  /\ owner \in [Mail -> Address \cup {None}]
  /\ confirmed \subseteq Mail /\ old \subseteq Mail
  /\ staged \in [Mail -> Profile \cup {None}]
  /\ subLock \in [Address -> Request \cup {None}]
  /\ mailLock \in [Mail -> Request \cup {None}]
  /\ pc \in [Request -> Point]
  /\ req \in [Request -> ReqKind \cup {None}]
  /\ about \in [Request -> Address \cup Mail \cup {None}]
  /\ asked \in [Request -> Profile \cup {None}]
  /\ found \in [Request -> Mail \cup {None}]

Init ==
  /\ verified = {} /\ unsubscribed = {} /\ suppressed = {}
  /\ profile = [a \in Address |-> None]
  /\ kind = [m \in Mail |-> "none"]
  /\ owner = [m \in Mail |-> None]
  /\ confirmed = {} /\ old = {}
  /\ staged = [m \in Mail |-> None]
  /\ subLock = [a \in Address |-> None]
  /\ mailLock = [m \in Mail |-> None]
  /\ pc = [r \in Request |-> "idle"]
  /\ req = [r \in Request |-> None]
  /\ about = [r \in Request |-> None]
  /\ asked = [r \in Request |-> None]
  /\ found = [r \in Request |-> None]

Active(a) == a \in verified /\ a \notin unsubscribed \cup suppressed

\* A confirmation that subscribe does not repeat: its link can still be used.
Outstanding(m, a) == kind[m] = "VERIFY" /\ owner[m] = a /\ m \notin confirmed \cup old

\* The end of a transaction: its locks are released, the request is answered.
Finish(r) ==
  /\ pc' = [pc EXCEPT ![r] = "idle"]
  /\ req' = [req EXCEPT ![r] = None]
  /\ about' = [about EXCEPT ![r] = None]
  /\ asked' = [asked EXCEPT ![r] = None]
  /\ found' = [found EXCEPT ![r] = None]
  /\ subLock' = [a \in Address |-> IF subLock[a] = r THEN None ELSE subLock[a]]
  /\ mailLock' = [m \in Mail |-> IF mailLock[m] = r THEN None ELSE mailLock[m]]

Refuse(r) == Finish(r) /\ UNCHANGED <<rows, people>>

-----------------------------------------------------------------------------
\* A visitor submits the form; the throttles have let the request pass.
AskSubscribe(r, a, p) ==
  /\ pc[r] = "idle"
  /\ pc' = [pc EXCEPT ![r] = "begun"]
  /\ req' = [req EXCEPT ![r] = "subscribe"]
  /\ about' = [about EXCEPT ![r] = a]
  /\ asked' = [asked EXCEPT ![r] = p]
  /\ UNCHANGED <<rows, people, subLock, mailLock, found>>

\* A link of a mail is used, or SES tells what became of it (again, perhaps).
AskLink(r, m, k) ==
  /\ pc[r] = "idle"
  /\ kind[m] # "none"
  /\ pc' = [pc EXCEPT ![r] = "begun"]
  /\ req' = [req EXCEPT ![r] = k]
  /\ about' = [about EXCEPT ![r] = m]
  /\ UNCHANGED <<rows, people, subLock, mailLock, asked, found>>

\* Faulty: SELECT without FOR UPDATE.
FreeAlways(a) == TRUE

\* The row of the subscriber can be locked.
Free(a) == subLock[a] = None

\* INSERT .. ON CONFLICT DO NOTHING and SELECT .. FOR UPDATE: both wait for
\* whoever is inserting or has locked this address.
LockSubscriber(r) ==
  /\ pc[r] = "begun" /\ req[r] = "subscribe"
  /\ Free(about[r])
  /\ subLock' = [subLock EXCEPT ![about[r]] = r]
  /\ pc' = [pc EXCEPT ![r] = "locked"]
  /\ UNCHANGED <<rows, people, mailLock, local, found>>

\* The confirmation of the last 24 hours, read without a lock on its row.
ReadRecent(r) ==
  /\ pc[r] = "locked"
  /\ LET recent == {m \in Mail : Outstanding(m, about[r])} IN
     \/ \E m \in recent : found' = [found EXCEPT ![r] = m]
     \/ recent = {} /\ found' = [found EXCEPT ![r] = None]
  /\ pc' = [pc EXCEPT ![r] = "read"]
  /\ UNCHANGED <<rows, people, subLock, mailLock, local>>

\* The profile replaces the one that waits in the mail already sent: an UPDATE,
\* which waits for whoever has locked that row.
Restage(r) ==
  /\ pc[r] = "read" /\ found[r] # None /\ about[r] \notin suppressed
  /\ mailLock[found[r]] = None
  /\ staged' = [staged EXCEPT ![found[r]] = asked[r]]
  /\ Finish(r)
  /\ UNCHANGED <<people, kind, owner, confirmed, old>>

\* No mail is outstanding: a new one, with the profile.
Enlist(r) ==
  /\ pc[r] = "read" /\ found[r] = None /\ about[r] \notin suppressed
  /\ \E m \in Mail :
       /\ kind[m] = "none"
       /\ kind' = [kind EXCEPT ![m] = "VERIFY"]
       /\ owner' = [owner EXCEPT ![m] = about[r]]
       /\ staged' = [staged EXCEPT ![m] = asked[r]]
  /\ Finish(r)
  /\ UNCHANGED <<people, confirmed, old>>

\* A suppressed address gets the same answer and nothing else; so does one the
\* model has no identifier left for.
Ignore(r) ==
  /\ pc[r] = "read"
  /\ \/ about[r] \in suppressed
     \/ found[r] = None /\ \A m \in Mail : kind[m] # "none"
  /\ Refuse(r)

-----------------------------------------------------------------------------
\* action_row, and the message of an SES event: the row FOR UPDATE.
LockMail(r) ==
  /\ pc[r] = "begun" /\ req[r] \in LinkKind
  /\ mailLock[about[r]] = None
  /\ mailLock' = [mailLock EXCEPT ![about[r]] = r]
  /\ pc' = [pc EXCEPT ![r] = "row"]
  /\ UNCHANGED <<rows, people, subLock, local, found>>

\* What is refused, or complete, with the mail's row alone: a link that is not
\* a confirmation's or has expired, an event that suppresses nobody.
EndsWithoutSubscriber(r) ==
  \/ req[r] = "confirm" /\ (kind[about[r]] # "VERIFY" \/ about[r] \in old)
  \/ req[r] = "soft"

\* An event that SES has delivered before is not recorded again: the insert of
\* its identifier conflicts.
Repeated(r) == req[r] = "hard" /\ owner[about[r]] \in suppressed

EndEarly(r) ==
  /\ pc[r] = "row"
  /\ EndsWithoutSubscriber(r) \/ Repeated(r)
  /\ Refuse(r)

\* The subscriber FOR UPDATE, after the mail's row.
ThenLockSubscriber(r) ==
  /\ pc[r] = "row"
  /\ ~EndsWithoutSubscriber(r)
  /\ Free(owner[about[r]])
  /\ subLock' = [subLock EXCEPT ![owner[about[r]]] = r]
  /\ pc' = [pc EXCEPT ![r] = "both"]
  /\ UNCHANGED <<rows, people, mailLock, local, found>>

\* Faulty: the status of the mail is not looked at.
ConsumedNever(m) == FALSE

Consumed(m) == m \in confirmed

\* An address that is suppressed by now is refused; a link used before changes
\* nothing; otherwise the subscriber becomes active with the profile that waits.
Confirm(r) ==
  /\ pc[r] = "both" /\ req[r] = "confirm"
  /\ LET m == about[r]
         a == owner[m] IN
     IF a \in suppressed \/ Consumed(m) THEN UNCHANGED <<rows, people>>
     ELSE /\ verified' = verified \cup {a}
          /\ unsubscribed' = unsubscribed \ {a}
          /\ profile' = [profile EXCEPT ![a] = IF staged[m] = None THEN @ ELSE staged[m]]
          /\ staged' = [staged EXCEPT ![m] = None]
          /\ confirmed' = confirmed \cup {m}
          /\ UNCHANGED <<suppressed, kind, owner, old>>
  /\ Finish(r)

Unsubscribe(r) ==
  /\ pc[r] = "both" /\ req[r] = "unsubscribe"
  /\ unsubscribed' = unsubscribed \cup {owner[about[r]]}
  /\ Finish(r)
  /\ UNCHANGED <<rows, verified, suppressed, profile>>

\* A hard bounce or a complaint.
Suppress(r) ==
  /\ pc[r] = "both" /\ req[r] = "hard"
  /\ suppressed' = suppressed \cup {owner[about[r]]}
  /\ Finish(r)
  /\ UNCHANGED <<rows, verified, unsubscribed, profile>>

-----------------------------------------------------------------------------
\* The dispatcher inserts an alert: the foreign key waits for the subscriber.
Alert(a, m) ==
  /\ kind[m] = "none" /\ Active(a) /\ subLock[a] = None
  /\ kind' = [kind EXCEPT ![m] = "ALERT"]
  /\ owner' = [owner EXCEPT ![m] = a]
  /\ UNCHANGED <<people, confirmed, staged, old, subLock, mailLock, pc, local, found>>

\* 24 hours have passed since the mail was created.
Age(m) ==
  /\ kind[m] # "none" /\ m \notin old
  /\ old' = old \cup {m}
  /\ UNCHANGED <<people, kind, owner, confirmed, staged, subLock, mailLock, pc, local, found>>

\* The request whose lock r waits for.
WaitsFor(r) ==
  CASE pc[r] = "begun" /\ req[r] = "subscribe" -> subLock[about[r]]
    [] pc[r] = "begun" /\ req[r] \in LinkKind -> mailLock[about[r]]
    [] pc[r] = "row" /\ ~EndsWithoutSubscriber(r) ->
         subLock[owner[about[r]]]
    [] pc[r] = "read" /\ found[r] # None /\ about[r] \notin suppressed -> mailLock[found[r]]
    [] OTHER -> None

\* No transaction holds more than two of these locks, so the cycles are pairs.
Deadlocked(r) == WaitsFor(r) # None /\ WaitsFor(WaitsFor(r)) = r

\* PostgreSQL aborts one of the two; the request answers 500.
DeadlockVictim(r) == Deadlocked(r) /\ Refuse(r)

\* The client or the process goes away: the transaction is rolled back.
Killed(r) == pc[r] # "idle" /\ Refuse(r)

Step(r) ==
  \/ LockSubscriber(r) \/ ReadRecent(r) \/ Restage(r) \/ Enlist(r) \/ Ignore(r)
  \/ LockMail(r) \/ EndEarly(r) \/ ThenLockSubscriber(r)
  \/ Confirm(r) \/ Unsubscribe(r) \/ Suppress(r)
  \/ DeadlockVictim(r)

Next ==
  \/ \E r \in Request :
       \/ \E a \in Address, p \in Profile : AskSubscribe(r, a, p)
       \/ \E m \in Mail, k \in LinkKind : AskLink(r, m, k)
       \/ Step(r)
       \/ Killed(r)
  \/ \E m \in Mail : Age(m) \/ \E a \in Address : Alert(a, m)

Spec == Init /\ [][Next]_vars

-----------------------------------------------------------------------------
\* However requests overlap, an address never has two confirmations that can
\* still be used: the subscriber's lock covers the read of the last one and
\* the insert of the next.
OneOutstanding ==
  \A m, n \in Mail, a \in Address : Outstanding(m, a) /\ Outstanding(n, a) => m = n

\* "A consumed confirmation cannot reactivate a later unsubscribe", and nothing
\* else activates or changes a profile: each time, a link is consumed that the
\* address was sent, and the profile is the one that waited in it.
OnlyALinkActivates ==
  [][\A a \in Address :
       ((Active(a)' /\ ~Active(a)) \/ profile'[a] # profile[a]) =>
          \E m \in Mail :
            /\ owner[m] = a /\ kind[m] = "VERIFY"
            /\ m \in confirmed' \ confirmed
            /\ profile'[a] \in {staged[m], profile[a]}]_vars
=============================================================================
