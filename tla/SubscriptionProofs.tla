------------------------- MODULE SubscriptionProofs -------------------------
(***************************************************************************)
(* Proofs about Subscription, for every number of requests, addresses and  *)
(* mails.  That an address never has two confirmations that can be used    *)
(* rests on one fact of the request that is about to insert one: it holds  *)
(* the subscriber's lock since before it looked for another, so nobody has *)
(* inserted one meanwhile (Working).                                       *)
(***************************************************************************)
EXTENDS Subscription, TLAPS

USE NoneAssumption

Owned == \A m \in Mail : kind[m] # "none" => owner[m] \in Address

\* What a request is about, and what it has found out under which locks.
Working(r) ==
  /\ pc[r] # "idle" => req[r] \in ReqKind
  /\ pc[r] # "idle" /\ req[r] = "subscribe" => about[r] \in Address
  /\ pc[r] # "idle" /\ req[r] \in LinkKind => about[r] \in Mail /\ kind[about[r]] # "none"
  /\ pc[r] \in {"locked", "read"} => req[r] = "subscribe" /\ subLock[about[r]] = r
  /\ pc[r] \in {"row", "both"} => req[r] \in LinkKind
  /\ pc[r] = "both" /\ req[r] = "confirm" => kind[about[r]] = "VERIFY"
  /\ pc[r] = "read" /\ found[r] = None => \A m \in Mail : ~Outstanding(m, about[r])

IInv == TypeOK /\ Owned /\ (\A r \in Request : Working(r)) /\ OneOutstanding

-----------------------------------------------------------------------------
LEMMA InitIInv == Init => IInv
<1> SUFFICES ASSUME Init PROVE IInv
  OBVIOUS
<1>1. TypeOK
  BY DEF Init, TypeOK, Point, ReqKind, LinkKind
<1>2. Owned /\ (\A r \in Request : Working(r)) /\ OneOutstanding
  BY DEF Init, Owned, Working, OneOutstanding, Outstanding
<1> QED
  BY <1>1, <1>2 DEF IInv

\* What a request knows stays true as long as it stands where it is, keeps its
\* locks and no confirmation is inserted but under the lock of its address.
LEMMA KnowledgeKept ==
  ASSUME IInv, NEW q \in Request,
         pc'[q] = pc[q], req'[q] = req[q], about'[q] = about[q], found'[q] = found[q],
         \A a \in Address : subLock[a] = q => subLock'[a] = q,
         \A m \in Mail : kind[m] # "none" => kind'[m] = kind[m],
         \A m \in Mail, a \in Address :
           Outstanding(m, a)' => Outstanding(m, a) \/ subLock[a] # q
  PROVE  Working(q)'
<1>1. Working(q)
  BY DEF IInv
<1>2. pc[q] \in {"locked", "read"} => about[q] \in Address
  BY <1>1 DEF Working
<1>3. ASSUME pc'[q] = "read", found'[q] = None, NEW m \in Mail
      PROVE  ~(kind'[m] = "VERIFY" /\ owner'[m] = about'[q] /\ m \notin confirmed' \cup old')
  <2>1. ~Outstanding(m, about[q]) /\ about[q] \in Address /\ subLock[about[q]] = q
    BY <1>1, <1>2, <1>3 DEF Working
  <2>2. ~Outstanding(m, about[q])'
    BY <2>1
  <2> QED
    BY <2>2 DEF Outstanding
<1>4. /\ pc'[q] # "idle" => req'[q] \in ReqKind
      /\ pc'[q] # "idle" /\ req'[q] = "subscribe" => about'[q] \in Address
      /\ pc'[q] # "idle" /\ req'[q] \in LinkKind => about'[q] \in Mail /\ kind'[about'[q]] # "none"
      /\ pc'[q] \in {"locked", "read"} => req'[q] = "subscribe" /\ subLock'[about'[q]] = q
      /\ pc'[q] \in {"row", "both"} => req'[q] \in LinkKind
      /\ pc'[q] = "both" /\ req'[q] = "confirm" => kind'[about'[q]] = "VERIFY"
  BY <1>1, <1>2 DEF Working, LinkKind
<1> QED
  BY <1>3, <1>4 DEF Working, Outstanding

LEMMA FinishType ==
  ASSUME TypeOK, NEW r \in Request, Finish(r)
  PROVE  /\ pc' \in [Request -> Point] /\ req' \in [Request -> ReqKind \cup {None}]
         /\ about' \in [Request -> Address \cup Mail \cup {None}]
         /\ asked' \in [Request -> Profile \cup {None}]
         /\ found' \in [Request -> Mail \cup {None}]
         /\ subLock' \in [Address -> Request \cup {None}]
         /\ mailLock' \in [Mail -> Request \cup {None}]
         /\ pc'[r] = "idle"
BY DEF Finish, TypeOK, Point

\* The end of a request that inserts no confirmation but for the address it has
\* locked leaves the others what they know.
LEMMA FinishStep ==
  ASSUME IInv, NEW r \in Request, Finish(r),
         \A m \in Mail : kind[m] # "none" => kind'[m] = kind[m],
         \A m \in Mail, a \in Address : Outstanding(m, a)' => Outstanding(m, a) \/ subLock[a] = r
  PROVE  \A q \in Request : Working(q)'
<1> SUFFICES ASSUME NEW q \in Request PROVE Working(q)'
  OBVIOUS
<1>1. CASE q = r
  BY <1>1, FinishType DEF Working, IInv
<1>2. CASE q # r
  <2>1. /\ pc'[q] = pc[q] /\ req'[q] = req[q] /\ about'[q] = about[q] /\ found'[q] = found[q]
        /\ \A a \in Address : subLock[a] = q => subLock'[a] = q
    BY <1>2 DEF Finish, IInv, TypeOK
  <2>2. \A m \in Mail, a \in Address : Outstanding(m, a)' => Outstanding(m, a) \/ subLock[a] # q
    BY <1>2
  <2> QED
    BY <2>1, <2>2, KnowledgeKept
<1> QED
  BY <1>1, <1>2

\* A step of a request that goes on, and takes no lock that is held.
LEMMA MoveStep ==
  ASSUME IInv, NEW r \in Request, UNCHANGED <<rows, people, mailLock>> \/ UNCHANGED <<rows, people, subLock>>,
         \A q \in Request \ {r} : /\ pc'[q] = pc[q] /\ req'[q] = req[q]
                                  /\ about'[q] = about[q] /\ found'[q] = found[q],
         \A a \in Address : subLock[a] # None => subLock'[a] = subLock[a],
         TypeOK', Working(r)'
  PROVE  IInv'
<1>1. UNCHANGED <<kind, owner, confirmed, old>>
  BY DEF rows
<1>2. \A m \in Mail, a \in Address : Outstanding(m, a)' <=> Outstanding(m, a)
  BY <1>1 DEF Outstanding
<1>3. ASSUME NEW q \in Request \ {r} PROVE Working(q)'
  <2>1. \A a \in Address : subLock[a] = q => subLock'[a] = q
    OBVIOUS
  <2> QED
    BY <1>1, <1>2, <2>1, KnowledgeKept
<1>4. OneOutstanding'
  BY <1>2 DEF OneOutstanding, IInv
<1> QED
  BY <1>1, <1>3, <1>4 DEF IInv, Owned

-----------------------------------------------------------------------------
LEMMA AskStep ==
  ASSUME IInv, NEW r \in Request,
         \/ \E a \in Address, p \in Profile : AskSubscribe(r, a, p)
         \/ \E m \in Mail, k \in LinkKind : AskLink(r, m, k)
  PROVE  IInv'
<1>1. TypeOK'
  <2>1. ASSUME NEW a \in Address, NEW p \in Profile, AskSubscribe(r, a, p) PROVE TypeOK'
    BY <2>1 DEF AskSubscribe, IInv, TypeOK, Point, ReqKind, rows, people
  <2>2. ASSUME NEW m \in Mail, NEW k \in LinkKind, AskLink(r, m, k) PROVE TypeOK'
    BY <2>2 DEF AskLink, IInv, TypeOK, Point, ReqKind, rows, people
  <2> QED
    BY <2>1, <2>2
<1>2. Working(r)'
  <2>1. ASSUME NEW a \in Address, NEW p \in Profile, AskSubscribe(r, a, p) PROVE Working(r)'
    BY <2>1 DEF AskSubscribe, IInv, TypeOK, Working, ReqKind, LinkKind
  <2>2. ASSUME NEW m \in Mail, NEW k \in LinkKind, AskLink(r, m, k) PROVE Working(r)'
    BY <2>2 DEF AskLink, IInv, TypeOK, Working, ReqKind, LinkKind, rows
  <2> QED
    BY <2>1, <2>2
<1>3. UNCHANGED <<rows, people, subLock>>
  BY DEF AskSubscribe, AskLink
<1>4. \A q \in Request \ {r} : /\ pc'[q] = pc[q] /\ req'[q] = req[q]
                               /\ about'[q] = about[q] /\ found'[q] = found[q]
  BY DEF AskSubscribe, AskLink, IInv, TypeOK
<1> QED
  BY <1>1, <1>2, <1>3, <1>4, MoveStep

LEMMA LockSubscriberStep ==
  ASSUME IInv, NEW r \in Request, LockSubscriber(r)
  PROVE  IInv'
<1>1. about[r] \in Address /\ subLock[about[r]] = None /\ pc[r] = "begun" /\ req[r] = "subscribe"
  BY DEF LockSubscriber, Free, IInv, Working
<1>2. TypeOK'
  BY <1>1 DEF LockSubscriber, IInv, TypeOK, Point, rows, people, local
<1>3. Working(r)'
  BY <1>1 DEF LockSubscriber, IInv, TypeOK, Working, ReqKind, LinkKind, local
<1>4. \A a \in Address : subLock[a] # None => subLock'[a] = subLock[a]
  BY <1>1 DEF LockSubscriber, IInv, TypeOK
<1>5. \A q \in Request \ {r} : /\ pc'[q] = pc[q] /\ req'[q] = req[q]
                               /\ about'[q] = about[q] /\ found'[q] = found[q]
  BY DEF LockSubscriber, IInv, TypeOK, local
<1> QED
  BY <1>2, <1>3, <1>4, <1>5, MoveStep DEF LockSubscriber

LEMMA ReadRecentStep ==
  ASSUME IInv, NEW r \in Request, ReadRecent(r)
  PROVE  IInv'
<1>1. about[r] \in Address /\ subLock[about[r]] = r /\ req[r] = "subscribe"
  BY DEF ReadRecent, IInv, Working
<1>2. /\ found' \in [Request -> Mail \cup {None}]
      /\ \A q \in Request \ {r} : found'[q] = found[q]
      /\ found'[r] = None => \A m \in Mail : ~Outstanding(m, about[r])
  BY DEF ReadRecent, IInv, TypeOK
<1>3. TypeOK'
  BY <1>2 DEF ReadRecent, IInv, TypeOK, Point, rows, people, local
<1>4. Working(r)'
  BY <1>1, <1>2 DEF ReadRecent, IInv, TypeOK, Working, Outstanding, ReqKind, LinkKind, rows, local
<1>5. \A q \in Request \ {r} : /\ pc'[q] = pc[q] /\ req'[q] = req[q]
                               /\ about'[q] = about[q] /\ found'[q] = found[q]
  BY <1>2 DEF ReadRecent, IInv, TypeOK, local
<1> QED
  BY <1>3, <1>4, <1>5, MoveStep DEF ReadRecent

LEMMA LockMailStep ==
  ASSUME IInv, NEW r \in Request, LockMail(r)
  PROVE  IInv'
<1>1. about[r] \in Mail /\ req[r] \in LinkKind /\ kind[about[r]] # "none"
  BY DEF LockMail, IInv, Working
<1>2. TypeOK'
  BY <1>1 DEF LockMail, IInv, TypeOK, Point, rows, people, local
<1>3. Working(r)'
  BY <1>1 DEF LockMail, IInv, TypeOK, Working, ReqKind, LinkKind, local, rows
<1>4. \A q \in Request \ {r} : /\ pc'[q] = pc[q] /\ req'[q] = req[q]
                               /\ about'[q] = about[q] /\ found'[q] = found[q]
  BY DEF LockMail, IInv, TypeOK, local
<1> QED
  BY <1>2, <1>3, <1>4, MoveStep DEF LockMail

LEMMA ThenLockStep ==
  ASSUME IInv, NEW r \in Request, ThenLockSubscriber(r)
  PROVE  IInv'
<1>1. /\ about[r] \in Mail /\ req[r] \in LinkKind /\ kind[about[r]] # "none"
      /\ owner[about[r]] \in Address /\ subLock[owner[about[r]]] = None
      /\ req[r] = "confirm" => kind[about[r]] = "VERIFY"
  BY DEF ThenLockSubscriber, Free, EndsWithoutSubscriber, IInv, Working, Owned
<1>2. TypeOK'
  BY <1>1 DEF ThenLockSubscriber, IInv, TypeOK, Point, rows, people, local
<1>3. Working(r)'
  BY <1>1 DEF ThenLockSubscriber, IInv, TypeOK, Working, ReqKind, LinkKind, local, rows
<1>4. \A a \in Address : subLock[a] # None => subLock'[a] = subLock[a]
  BY <1>1 DEF ThenLockSubscriber, IInv, TypeOK
<1>5. \A q \in Request \ {r} : /\ pc'[q] = pc[q] /\ req'[q] = req[q]
                               /\ about'[q] = about[q] /\ found'[q] = found[q]
  BY DEF ThenLockSubscriber, IInv, TypeOK, local
<1> QED
  BY <1>2, <1>3, <1>4, <1>5, MoveStep DEF ThenLockSubscriber

-----------------------------------------------------------------------------
\* A request that ends without a new mail: what can still be used was usable.
LEMMA EndStep ==
  ASSUME IInv, NEW r \in Request, Finish(r), UNCHANGED <<kind, owner, old>>,
         confirmed \subseteq confirmed', TypeOK'
  PROVE  IInv'
<1>1. \A m \in Mail, a \in Address : Outstanding(m, a)' => Outstanding(m, a)
  BY DEF Outstanding
<1>2. \A q \in Request : Working(q)'
  BY <1>1, FinishStep
<1>3. OneOutstanding' /\ Owned'
  BY <1>1 DEF OneOutstanding, Owned, IInv
<1> QED
  BY <1>2, <1>3 DEF IInv

LEMMA RefuseStep ==
  ASSUME IInv, NEW r \in Request, Refuse(r)
  PROVE  IInv'
<1>1. TypeOK'
  BY FinishType DEF Refuse, IInv, TypeOK, rows, people
<1> QED
  BY <1>1, EndStep DEF Refuse, rows

LEMMA RestageStep ==
  ASSUME IInv, NEW r \in Request, Restage(r)
  PROVE  IInv'
<1>1. TypeOK'
  BY FinishType DEF Restage, IInv, TypeOK, people
<1> QED
  BY <1>1, EndStep DEF Restage

LEMMA EnlistStep ==
  ASSUME IInv, NEW r \in Request, Enlist(r)
  PROVE  IInv'
<1>1. /\ about[r] \in Address /\ subLock[about[r]] = r
      /\ \A m \in Mail : ~Outstanding(m, about[r])
  BY DEF Enlist, IInv, Working
<1>2. PICK m \in Mail : /\ kind[m] = "none"
                        /\ kind' = [kind EXCEPT ![m] = "VERIFY"]
                        /\ owner' = [owner EXCEPT ![m] = about[r]]
                        /\ staged' = [staged EXCEPT ![m] = asked[r]]
  BY DEF Enlist
<1>3. TypeOK'
  BY <1>1, <1>2, FinishType DEF Enlist, IInv, TypeOK, people
<1>4. /\ \A n \in Mail \ {m} : kind'[n] = kind[n] /\ owner'[n] = owner[n]
      /\ kind'[m] = "VERIFY" /\ owner'[m] = about[r]
  BY <1>2 DEF IInv, TypeOK
<1>5. \A n \in Mail, a \in Address :
        Outstanding(n, a)' => Outstanding(n, a) \/ (n = m /\ a = about[r])
  BY <1>4 DEF Outstanding, Enlist
<1>6. \A q \in Request : Working(q)'
  <2>1. \A n \in Mail : kind[n] # "none" => kind'[n] = kind[n]
    BY <1>2, <1>4
  <2> QED
    BY <1>1, <1>5, <2>1, FinishStep DEF Enlist
<1>7. OneOutstanding'
  BY <1>1, <1>5 DEF OneOutstanding, IInv
<1>8. Owned'
  BY <1>1, <1>4 DEF Owned, IInv
<1> QED
  BY <1>3, <1>6, <1>7, <1>8 DEF IInv

LEMMA ConfirmStep ==
  ASSUME IInv, NEW r \in Request, Confirm(r)
  PROVE  IInv'
<1>1. about[r] \in Mail /\ owner[about[r]] \in Address
  BY DEF Confirm, IInv, Working, Owned
<1>2. /\ UNCHANGED <<kind, owner, old, suppressed>>
      /\ confirmed \subseteq confirmed' /\ confirmed' \subseteq Mail
      /\ verified' \subseteq Address /\ unsubscribed' \subseteq Address
      /\ profile' \in [Address -> Profile \cup {None}]
      /\ staged' \in [Mail -> Profile \cup {None}]
  <2>1. CASE UNCHANGED <<rows, people>>
    BY <2>1 DEF IInv, TypeOK, rows, people
  <2>2. CASE /\ verified' = verified \cup {owner[about[r]]}
             /\ unsubscribed' = unsubscribed \ {owner[about[r]]}
             /\ profile' = [profile EXCEPT ![owner[about[r]]] =
                              IF staged[about[r]] = None THEN @ ELSE staged[about[r]]]
             /\ staged' = [staged EXCEPT ![about[r]] = None]
             /\ confirmed' = confirmed \cup {about[r]}
             /\ UNCHANGED <<suppressed, kind, owner, old>>
    BY <1>1, <2>2 DEF IInv, TypeOK
  <2> QED
    BY <2>1, <2>2 DEF Confirm
<1>3. TypeOK'
  BY <1>2, FinishType DEF Confirm, IInv, TypeOK
<1> QED
  BY <1>2, <1>3, EndStep DEF Confirm

LEMMA StopStep ==
  ASSUME IInv, NEW r \in Request, Unsubscribe(r) \/ Suppress(r)
  PROVE  IInv'
<1>1. about[r] \in Mail /\ owner[about[r]] \in Address
  BY DEF Unsubscribe, Suppress, IInv, Working, Owned, LinkKind
<1>2. TypeOK'
  BY <1>1, FinishType DEF Unsubscribe, Suppress, IInv, TypeOK, rows
<1> QED
  BY <1>2, EndStep DEF Unsubscribe, Suppress, rows

\* The alerts of the dispatcher and the passing of a day insert no confirmation.
LEMMA OutsideStep ==
  ASSUME IInv, NEW m \in Mail, Age(m) \/ \E a \in Address : Alert(a, m)
  PROVE  IInv'
<1>1. /\ UNCHANGED <<subLock, mailLock, pc, local, found, people, confirmed, staged>>
      /\ TypeOK'
      /\ \A n \in Mail : kind[n] # "none" => kind'[n] = kind[n] /\ owner'[n] = owner[n]
      /\ \A n \in Mail : kind'[n] # kind[n] => kind'[n] = "ALERT" /\ owner'[n] \in Address
      /\ old \subseteq old'
  BY DEF Age, Alert, IInv, TypeOK, local, people
<1>2. \A n \in Mail, a \in Address : Outstanding(n, a)' => Outstanding(n, a)
  BY <1>1 DEF Outstanding
<1>3. ASSUME NEW q \in Request PROVE Working(q)'
  <2>1. /\ pc'[q] = pc[q] /\ req'[q] = req[q] /\ about'[q] = about[q] /\ found'[q] = found[q]
        /\ \A a \in Address : subLock[a] = q => subLock'[a] = q
    BY <1>1 DEF local
  <2> QED
    BY <1>1, <1>2, <2>1, KnowledgeKept
<1>4. Owned' /\ OneOutstanding'
  BY <1>1, <1>2 DEF Owned, OneOutstanding, IInv
<1> QED
  BY <1>1, <1>3, <1>4 DEF IInv

LEMMA Stutter ==
  ASSUME IInv, UNCHANGED vars
  PROVE  IInv'
BY DEF vars, IInv, TypeOK, Owned, Working, OneOutstanding, Outstanding

LEMMA NextIInv == IInv /\ [Next]_vars => IInv'
<1> SUFFICES ASSUME IInv, [Next]_vars PROVE IInv'
  OBVIOUS
<1>1. ASSUME NEW r \in Request, Step(r) PROVE IInv'
  BY <1>1, LockSubscriberStep, ReadRecentStep, RestageStep, EnlistStep, LockMailStep,
     ThenLockStep, ConfirmStep, StopStep, RefuseStep
     DEF Step, Ignore, EndEarly, DeadlockVictim
<1>2. ASSUME NEW r \in Request, Killed(r) PROVE IInv'
  BY <1>2, RefuseStep DEF Killed
<1> QED
  BY <1>1, <1>2, AskStep, OutsideStep, Stutter DEF Next

-----------------------------------------------------------------------------
\* Types, what requests know, and that confirmations are single, hold in every
\* reachable state.
THEOREM Invariant == Spec => []IInv
<1>1. Init => IInv
  BY InitIInv
<1>2. IInv /\ [Next]_vars => IInv'
  BY NextIInv
<1> QED
  BY <1>1, <1>2, PTL DEF Spec

\* However many requests for one address overlap with each other and with links,
\* events and dying connections, it has one confirmation that can be used.
THEOREM ConfirmationIsSingle == Spec => []OneOutstanding
<1>1. IInv => OneOutstanding
  BY DEF IInv
<1> QED
  BY <1>1, Invariant, PTL

LEMMA ConfirmActivates ==
  ASSUME IInv, NEW r \in Request, Confirm(r), NEW a \in Address,
         (Active(a)' /\ ~Active(a)) \/ profile'[a] # profile[a]
  PROVE  \E m \in Mail : /\ owner[m] = a /\ kind[m] = "VERIFY"
                         /\ m \in confirmed' \ confirmed
                         /\ profile'[a] \in {staged[m], profile[a]}
<1> DEFINE m == about[r]
<1>1. m \in Mail /\ kind[m] = "VERIFY" /\ owner[m] \in Address
  BY DEF Confirm, IInv, Working, Owned, LinkKind
<1>2. ~UNCHANGED people
  BY DEF people, Active
<1>3. /\ m \notin confirmed
      /\ verified' = verified \cup {owner[m]}
      /\ unsubscribed' = unsubscribed \ {owner[m]}
      /\ profile' = [profile EXCEPT ![owner[m]] = IF staged[m] = None THEN @ ELSE staged[m]]
      /\ confirmed' = confirmed \cup {m} /\ suppressed' = suppressed
  BY <1>2 DEF Confirm, Consumed
<1>4. a = owner[m] /\ profile'[a] \in {staged[m], profile[a]}
  BY <1>1, <1>3 DEF Active, IInv, TypeOK
<1> QED
  BY <1>1, <1>3, <1>4

\* No step other than a confirmation's makes a subscriber active.
LEMMA OthersActivateNobody ==
  ASSUME IInv, Next, \A r \in Request : ~Confirm(r), NEW a \in Address
  PROVE  profile' = profile /\ (Active(a)' => Active(a))
<1>1. profile' = profile /\ verified' = verified /\ unsubscribed \subseteq unsubscribed'
      /\ suppressed \subseteq suppressed'
  BY DEF Next, Step, AskSubscribe, AskLink, LockSubscriber, ReadRecent, Restage, Enlist, Ignore,
         LockMail, EndEarly, ThenLockSubscriber, Unsubscribe, Suppress, DeadlockVictim, Killed,
         Refuse, Age, Alert, people
<1> QED
  BY <1>1 DEF Active

\* Nothing but the first use of a confirmation's link makes a subscriber active or
\* changes a profile, and the profile is the one that waited in that mail.
THEOREM LinksAloneActivate == Spec => OnlyALinkActivates
<1>1. IInv /\ [Next]_vars =>
        [\A a \in Address :
           ((Active(a)' /\ ~Active(a)) \/ profile'[a] # profile[a]) =>
              \E m \in Mail :
                /\ owner[m] = a /\ kind[m] = "VERIFY"
                /\ m \in confirmed' \ confirmed
                /\ profile'[a] \in {staged[m], profile[a]}]_vars
  BY ConfirmActivates, OthersActivateNobody
<1> QED
  BY <1>1, Invariant, PTL DEF Spec, OnlyALinkActivates
=============================================================================
