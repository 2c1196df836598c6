------------------------- MODULE MarketQueueProofs -------------------------
(***************************************************************************)
(* Machine-checked proofs about MarketQueue, for every set of runs,        *)
(* batches, workers, CLI processes, limits and faults that satisfy the     *)
(* assumptions of that module, and that it implements SerialWriter when     *)
(* every job claims its row and every process has a time limit.            *)
(***************************************************************************)
EXTENDS MarketQueueRefinement, TLAPS

\* The row functions after an update of a set of rows.
LEMMA SetLemma ==
  ASSUME TypeOK, NEW S \in SUBSET Run, NEW s \in Status, Set(S, s)
  PROVE  /\ status' \in [Run -> Status]
         /\ touched' \in [Run -> 0 .. Recovery + 1]
         /\ \A r \in S : status'[r] = s /\ touched'[r] = 0
         /\ \A r \in Run \ S : status'[r] = status[r] /\ touched'[r] = touched[r]
<1>1. 0 \in 0 .. Recovery + 1
  BY TimeAssumption
<1> QED
  BY <1>1 DEF TypeOK, Set

\* Entering and leaving a run keeps the process variables well typed.
LEMMA EnterLemma ==
  ASSUME TypeOK, NEW p \in Proc, NEW r \in Run, Enter(p, r)
  PROVE  /\ pc' \in [Proc -> Point]
         /\ job' \in [Proc -> Run \cup {NoOwner}]
         /\ age' \in [Proc -> 0 .. TaskLimit]
         /\ pc'[p] = FirstPoint(r) /\ job'[p] = r /\ age'[p] = 0
         /\ \A q \in Proc \ {p} : pc'[q] = pc[q] /\ job'[q] = job[q] /\ age'[q] = age[q]
<1>1. 0 \in 0 .. TaskLimit
  BY TimeAssumption
<1> QED
  BY <1>1 DEF TypeOK, Enter, FirstPoint, Point

\* Leaving a run, by every way a task can end, does too.
LEMMA LeaveLemma ==
  ASSUME TypeOK, NEW p \in Proc, Leave(p)
  PROVE  /\ pc' \in [Proc -> Point]
         /\ job' \in [Proc -> Run \cup {NoOwner}]
         /\ age' \in [Proc -> 0 .. TaskLimit]
         /\ pc'[p] = "idle" /\ job'[p] = NoOwner /\ age'[p] = 0
         /\ \A q \in Proc \ {p} : pc'[q] = pc[q] /\ job'[q] = job[q] /\ age'[q] = age[q]
<1>1. 0 \in 0 .. TaskLimit
  BY TimeAssumption
<1> QED
  BY <1>1 DEF TypeOK, Leave, Point

\* The run a busy process works on is a run.
LEMMA JobLemma ==
  ASSUME TypeOK, JobInv, NEW p \in Proc, pc[p] # "idle"
  PROVE  job[p] \in Run
BY DEF TypeOK, JobInv, Busy

\* A fault stays within the bound on faults.
LEMMA FaultLemma ==
  ASSUME TypeOK, NEW f, Fault(f)
  PROVE  faults' \in 0 .. MaxFaults
BY TimeAssumption DEF TypeOK, Fault

-----------------------------------------------------------------------------
\* The initial state is well typed.
LEMMA InitType == Init => TypeOK
<1>1. /\ 0 \in 0 .. Recovery + 1 /\ 0 \in 0 .. TaskLimit
      /\ 0 \in 0 .. LeaseCap /\ 0 \in 0 .. MaxFaults
  BY TimeAssumption DEF LeaseCap
<1>2. "absent" \in Status /\ "idle" \in Point
  BY DEF Status, Point
<1>3. ASSUME Init
      PROVE  /\ status \in [Run -> Status] /\ touched \in [Run -> 0 .. Recovery + 1]
             /\ pc \in [Proc -> Point] /\ job \in [Proc -> Run \cup {NoOwner}]
             /\ age \in [Proc -> 0 .. TaskLimit]
             /\ stage \in [Run -> {"open", "sent", "unsure", "failed", "lost"}]
  BY <1>1, <1>2, <1>3 DEF Init
<1>4. ASSUME Init
      PROVE  /\ owner \in Run \cup {NoOwner} /\ leaseAge \in 0 .. LeaseCap
             /\ publishing \in BOOLEAN
             /\ msgs \subseteq Run /\ began \subseteq Run /\ faults \in 0 .. MaxFaults
  BY <1>1, <1>4 DEF Init
<1> QED
  BY <1>3, <1>4 DEF TypeOK

\* Every step keeps the variables in their types.
LEMMA NextType ==
  ASSUME TypeOK, JobInv, [Next]_vars
  PROVE  TypeOK'
<1> USE DEF TypeOK, NoOwner
<1>1. ASSUME NEW r \in Run, Create(r) PROVE TypeOK'
  <2>1. Inserted(r) \in SUBSET Run /\ "QUEUED" \in Status
    BY DEF Inserted, Members, Status
  <2> QED BY <1>1, <2>1, SetLemma DEF Create, lock, procs
<1>2. ASSUME NEW h \in Run, Publish(h) PROVE TypeOK'
  BY <1>2 DEF Publish, rows, lock, procs
<1>3. ASSUME NEW h \in Run, PublishFails(h) \/ Disown(h) PROVE TypeOK'
  <2>1. Disowned(h) \in SUBSET Run /\ "FAILED" \in Status
    BY DEF Disowned, Members, Status, Terminal, Outcome
  <2>2. CASE PublishFails(h)
    BY <2>2, FaultLemma DEF PublishFails, rows, lock, procs
  <2>3. CASE Disown(h)
    BY <2>1, <2>3, SetLemma DEF Disown, lock, procs
  <2> QED BY <1>3, <2>2, <2>3
<1>4. ASSUME NEW h \in Run, ProducerCrash(h) PROVE TypeOK'
  BY <1>4, FaultLemma DEF ProducerCrash, rows, lock, procs
<1>5. ASSUME NEW p \in Proc, NEW r \in Run, StartCli(p, r) PROVE TypeOK'
  BY <1>5, EnterLemma, BatchAssumption DEF StartCli, rows, lock
<1>6. ASSUME NEW p \in Proc, NEW r \in Run, Deliver(p, r) PROVE TypeOK'
  BY <1>6, EnterLemma DEF Deliver, rows, lock
<1>7. ASSUME NEW p \in Proc, NEW r \in Run, Discard(p, r) PROVE TypeOK'
  BY <1>7 DEF Discard, Successor, Members, rows, lock, procs
<1>8. ASSUME NEW p \in Proc, pc[p] # "idle", Wait(p) PROVE TypeOK'
  <2>1. 0 \in 0 .. Recovery + 1 /\ job[p] \in Run
    BY <1>8, TimeAssumption, JobLemma
  <2> QED BY <1>8, <2>1, LeaveLemma, FaultLemma DEF Wait, lock
<1>9. ASSUME NEW p \in Proc, TakeTurn(p) PROVE TypeOK'
  BY <1>9 DEF TakeTurn, Point, rows, lock
<1>10. ASSUME NEW p \in Proc, Claim(p) PROVE TypeOK'
  <2>1. job[p] \in Run /\ {job[p]} \in SUBSET Run
    BY <1>10, JobLemma DEF Claim, Acquiring
  <2>2. "RUNNING" \in Status
    BY DEF Status
  <2>3. age[p] \in 0 .. LeaseCap
    BY TimeAssumption DEF LeaseCap
  <2> QED BY <1>10, <2>1, <2>2, <2>3, SetLemma DEF Claim, Point
<1>11. ASSUME NEW p \in Proc, ClaimRefused(p) PROVE TypeOK'
  <2>1. 0 \in 0 .. LeaseCap
    BY TimeAssumption DEF LeaseCap
  <2> QED
    BY <1>11, <2>1, LeaveLemma DEF ClaimRefused, Forward, Successor, Members, rows
<1>12. ASSUME NEW p \in Proc, Skip(p) PROVE TypeOK'
  <2>1. job[p] \in Run /\ {job[p]} \in SUBSET Run
    BY <1>12, JobLemma DEF Skip, Acquiring
  <2>2. "SKIPPED" \in Status
    BY DEF Status, Terminal, Outcome
  <2> QED
    BY <1>12, <2>1, <2>2, SetLemma, LeaveLemma DEF Skip, Forward, Successor, Members, lock
<1>13. ASSUME NEW p \in Proc, Finish(p) PROVE TypeOK'
  <2>1. job[p] \in Run /\ {job[p]} \in SUBSET Run
    BY <1>13, JobLemma DEF Finish
  <2>2. Outcome \subseteq Status
    BY DEF Status, Terminal
  <2>3. 0 \in 0 .. LeaseCap
    BY TimeAssumption DEF LeaseCap
  <2>4. status' \in [Run -> Status] /\ touched' \in [Run -> 0 .. Recovery + 1]
    BY <1>13, <2>1, <2>2, SetLemma DEF Finish
  <2>5. owner' \in Run \cup {NoOwner} /\ leaseAge' \in 0 .. LeaseCap
    BY <1>13, <2>3 DEF Finish, Release
  <2>6. msgs' \subseteq Run /\ faults' \in 0 .. MaxFaults
    BY <1>13, FaultLemma DEF Finish, Forward, Successor, Members
  <2> QED BY <1>13, <2>4, <2>5, <2>6, LeaveLemma DEF Finish
<1>14. ASSUME NEW p \in Proc, TaskFails(p) PROVE TypeOK'
  BY <1>14, LeaveLemma, FaultLemma DEF TaskFails, rows, lock
<1>15. ASSUME NEW p \in Proc, TimeLimit(p) PROVE TypeOK'
  BY <1>15, LeaveLemma DEF TimeLimit, rows, lock
<1>16. ASSUME NEW p \in Proc, WorkerLost(p) PROVE TypeOK'
  BY <1>16, LeaveLemma, FaultLemma, JobLemma DEF WorkerLost, rows, lock
<1>17. ASSUME NEW p \in Proc, Redeliver(p) PROVE TypeOK'
  BY <1>17, FaultLemma, JobLemma DEF Redeliver, rows, lock, procs
<1>18. ASSUME NEW r \in Run, Cancel(r) PROVE TypeOK'
  <2>1. {r} \in SUBSET Run /\ "CANCELLED" \in Status
    BY DEF Status, Terminal
  <2> QED BY <1>18, <2>1, SetLemma DEF Cancel, lock, procs
<1>19. CASE Recover
  <2>1. Stuck \in SUBSET Run /\ "FAILED" \in Status
    BY DEF Stuck, Status, Terminal, Outcome
  <2> QED BY <1>19, <2>1, SetLemma DEF Recover, lock, procs
<1>20. CASE BeginPublication
  BY <1>20 DEF BeginPublication, rows, lock, procs
<1>21. CASE EndPublication
  <2>1. 0 \in 0 .. LeaseCap
    BY TimeAssumption DEF LeaseCap
  <2> QED BY <1>21, <2>1 DEF EndPublication, rows, lock, procs
<1>22. CASE Tick
  <2>1. age' \in [Proc -> 0 .. TaskLimit]
    BY <1>22, TimeAssumption DEF Tick, Least
  <2>2. leaseAge' \in 0 .. LeaseCap
    BY <1>22, TimeAssumption DEF Tick, Least, LeaseCap
  <2>3. touched' \in [Run -> 0 .. Recovery + 1]
    BY <1>22, TimeAssumption DEF Tick, Least
  <2> QED BY <1>22, <2>1, <2>2, <2>3 DEF Tick
<1>23. CASE UNCHANGED vars
  BY <1>23 DEF vars
<1> QED
  BY <1>1, <1>2, <1>3, <1>4, <1>5, <1>6, <1>7, <1>8, <1>9, <1>10, <1>11, <1>12,
     <1>13, <1>14, <1>15, <1>16, <1>17, <1>18, <1>19, <1>20, <1>21, <1>22, <1>23
  DEF Next, Attempt, WaitForEarlier, WaitForLease, Acquiring
-----------------------------------------------------------------------------
\* A process of which the code imposes no limit is no Celery worker.
LEMMA ProcLemma ==
  ASSUME NEW w \in Worker
  PROVE  w \in Proc /\ w \notin Cli
BY ProcAssumption DEF Proc

\* A transaction that may take the lease finds no live worker at work: the
\* lease of such a worker is no older than TaskLimit, hence not yet expired.
LEMMA FreeLemma ==
  ASSUME TypeOK, IInv, NEW a \in Nat, LeaseFree(a), NEW w \in Worker
  PROVE  pc[w] # "working"
<1>1. SUFFICES ASSUME pc[w] = "working" PROVE FALSE
  OBVIOUS
<1>2. w \in Proc /\ job[w] \in Run /\ owner = job[w] /\ leaseAge = age[w]
  BY <1>1, ProcLemma, JobLemma DEF IInv, LeaseInv
<1>3. owner # NoOwner
  BY <1>2, RunAssumption DEF NoOwner
<1>4. age[w] \in 0 .. TaskLimit
  BY <1>2 DEF TypeOK
<1> QED
  BY <1>2, <1>3, <1>4, TimeAssumption DEF LeaseFree

\* The run of a live worker and the run of a CLI process differ, and two live
\* workers do not write, so a writer's run is its own.
LEMMA OwnRunLemma ==
  ASSUME TypeOK, IInv, NEW w \in Worker, pc[w] = "working",
         NEW p \in Proc, pc[p] = "working", p # w
  PROVE  job[p] # job[w]
<1>1. w \in Proc /\ w \notin Cli /\ Via[job[w]] # "cli"
  BY ProcLemma DEF IInv, JobInv, Busy
<1>2. CASE p \in Worker
  BY <1>2 DEF IInv, LeaseInv
<1>3. CASE p \in Cli
  BY <1>1, <1>3 DEF IInv, JobInv, Busy
<1> QED
  BY <1>2, <1>3 DEF Proc

\* A batch head is a member of its batch; its members share its producer.
LEMMA BatchLemma ==
  ASSUME NEW r \in Run
  PROVE  /\ \A h \in Run : r \in Members(h) => h = Head[r] /\ h \in Members(h)
         /\ \A s \in Successor(r) : s \in Run /\ Head[s] = Head[r] /\ Via[s] = Via[r]
         /\ Via[r] = "cli" => Successor(r) = {} /\ Members(r) = {r} /\ Head[r] = r
<1>1. \A h \in Run : r \in Members(h) => h = Head[r] /\ h \in Members(h)
  BY BatchAssumption DEF Members
<1>2. \A s \in Successor(r) : s \in Run /\ Head[s] = Head[r] /\ Via[s] = Via[r] /\ s > r
  BY BatchAssumption DEF Successor, Members
<1>3. ASSUME Via[r] = "cli" PROVE Successor(r) = {} /\ Members(r) = {r} /\ Head[r] = r
  <2>1. Head[r] = r
    BY <1>3, BatchAssumption
  <2>2. \A s \in Run : Head[s] = r => s = r
    BY <1>3, BatchAssumption
  <2>3. Members(r) = {r}
    BY <2>1, <2>2 DEF Members
  <2>4. \A s \in Run : s > r => s # r
    BY RunAssumption
  <2> QED
    BY <2>1, <2>3, <2>4 DEF Successor
<1> QED
  BY <1>1, <1>2, <1>3

\* What a producer inserts is new and comes after every row there is.
LEMMA CreateLemma ==
  ASSUME NEW r \in Run, Create(r), NEW q \in Run, status[q] # "absent"
  PROVE  /\ q \notin Inserted(r)
         /\ \A s \in Inserted(r) : q < s
<1>1. \A s \in Inserted(r) : q < s
  BY DEF Create
<1>2. q \in Nat /\ ~(q < q)
  BY RunAssumption
<1> QED
  BY <1>1, <1>2

\* A row, once inserted, never disappears.
LEMMA PresentLemma ==
  ASSUME TypeOK, JobInv, [Next]_vars, NEW r \in Run, status[r] # "absent"
  PROVE  status'[r] # "absent"
<1>1. ASSUME NEW S \in SUBSET Run, NEW s \in Status \ {"absent"}, Set(S, s)
      PROVE  status'[r] # "absent"
  BY <1>1 DEF Set
<1>2. ASSUME NEW q \in Run, Create(q) PROVE status'[r] # "absent"
  BY <1>1, <1>2 DEF Create, Inserted, Members, Status
<1>3. ASSUME NEW h \in Run, Disown(h) PROVE status'[r] # "absent"
  BY <1>1, <1>3 DEF Disown, Disowned, Members, Status, Terminal, Outcome
<1>4. ASSUME NEW p \in Proc, Claim(p) \/ Skip(p) \/ Finish(p) PROVE status'[r] # "absent"
  <2>1. job[p] \in Run
    BY <1>4, JobLemma DEF Claim, Skip, Finish, Acquiring
  <2> QED
    BY <1>1, <1>4, <2>1 DEF Claim, Skip, Finish, Status, Terminal, Outcome
<1>5. ASSUME NEW q \in Run, Cancel(q) PROVE status'[r] # "absent"
  BY <1>1, <1>5 DEF Cancel, Status, Terminal
<1>6. CASE Recover
  BY <1>1, <1>6 DEF Recover, Stuck, Status, Terminal, Outcome
<1>7. ASSUME UNCHANGED status PROVE status'[r] # "absent"
  BY <1>7
<1> QED
  BY <1>2, <1>3, <1>4, <1>5, <1>6, <1>7
  DEF Next, vars, Publish, PublishFails, ProducerCrash, StartCli, Deliver, Discard,
      WaitForEarlier, TakeTurn, Attempt, ClaimRefused, WaitForLease, Wait, TaskFails,
      TimeLimit, WorkerLost, Redeliver, BeginPublication, EndPublication, Tick, rows, lock,
      procs

-----------------------------------------------------------------------------
\* The initial state satisfies every part of the invariant.
LEMMA InitInv == Init => IInv
<1> SUFFICES ASSUME Init PROVE IInv
  OBVIOUS
<1>1. \A p \in Proc : pc[p] = "idle" /\ job[p] = NoOwner
  BY DEF Init
<1>2. \A w \in Worker : w \in Proc
  BY ProcLemma
<1>3. msgs = {} /\ began = {} /\ publishing = FALSE
  BY DEF Init
<1>4. \A r \in Run : status[r] = "absent" /\ stage[r] = "open" /\ Head[r] \in Run
  BY BatchAssumption DEF Init
<1> QED
  BY <1>1, <1>2, <1>3, <1>4
  DEF IInv, JobInv, SentInv, Sent, LeaseInv, RowInv, TurnInv, BeganInv, Busy

\* A process keeps to its run, and takes up only a row that exists.
LEMMA NextJob ==
  ASSUME TypeOK, IInv, [Next]_vars
  PROVE  JobInv'
<1> USE DEF IInv, JobInv, Busy
<1>1. \A r \in Run : status[r] # "absent" => status'[r] # "absent"
  BY PresentLemma
<1>2. \A r \in Run : r # NoOwner
  BY RunAssumption DEF NoOwner
<1>3. \A p \in Proc : pc[p] # "idle" => job[p] \in Run
  BY JobLemma
<1>4. ASSUME NEW p \in Proc, NEW r \in Run, Enter(p, r), status[r] # "absent",
             Via[r] = "cli" <=> p \in Cli
      PROVE  JobInv'
  <2>1. FirstPoint(r) # "idle" /\ (FirstPoint(r) = "read" => Kind[r] = "scheduled")
    BY DEF FirstPoint
  <2> QED
    BY <1>1, <1>2, <1>3, <1>4, <2>1, EnterLemma
<1>5. ASSUME NEW p \in Proc, Leave(p) PROVE JobInv'
  BY <1>1, <1>3, <1>5, LeaveLemma
<1>6. ASSUME NEW p \in Proc, NEW r \in Run, StartCli(p, r) PROVE JobInv'
  BY <1>4, <1>6 DEF StartCli
<1>7. ASSUME NEW p \in Proc, NEW r \in Run, Deliver(p, r) PROVE JobInv'
  BY <1>4, <1>7, ProcLemma DEF Deliver, SentInv
<1>8. ASSUME NEW p \in Proc, TakeTurn(p) PROVE JobInv'
  BY <1>1, <1>3, <1>8 DEF TakeTurn, TypeOK
<1>9. ASSUME NEW p \in Proc, Claim(p) PROVE JobInv'
  BY <1>1, <1>3, <1>9 DEF Claim, Acquiring, TypeOK
<1>10. CASE UNCHANGED <<pc, job>>
  BY <1>1, <1>3, <1>10
<1> QED
  BY <1>5, <1>6, <1>7, <1>8, <1>9, <1>10
  DEF Next, vars, Create, Publish, PublishFails, Disown, ProducerCrash, Discard, WaitForEarlier,
      Attempt, ClaimRefused, WaitForLease, Wait, Skip, Finish, TaskFails, TimeLimit,
      WorkerLost, Redeliver, Cancel, Recover, BeginPublication, EndPublication, Tick, procs

\* The lease follows the live worker: taking it, giving it back and the passing
\* of time keep owner and age in step, and whoever else comes finds it taken.
LEMMA NextLease ==
  ASSUME TypeOK, IInv, [Next]_vars
  PROVE  LeaseInv'
<1>1. \A w \in Worker : w \in Proc
  BY ProcLemma
<1>2. ASSUME NEW p \in Proc, pc'[p] # "working", UNCHANGED <<owner, leaseAge, publishing>>,
             \A q \in Proc \ {p} : pc'[q] = pc[q] /\ job'[q] = job[q] /\ age'[q] = age[q]
      PROVE  LeaseInv'
  BY <1>1, <1>2 DEF IInv, LeaseInv
<1>3. ASSUME NEW p \in Proc, Leave(p), UNCHANGED <<owner, leaseAge, publishing>>
      PROVE  LeaseInv'
  BY <1>2, <1>3, LeaveLemma
<1>4. ASSUME NEW p \in Proc, NEW r \in Run, StartCli(p, r) \/ Deliver(p, r)
      PROVE  LeaseInv'
  <2>1. FirstPoint(r) # "working"
    BY DEF FirstPoint
  <2> QED
    BY <1>2, <1>4, <2>1, EnterLemma DEF StartCli, Deliver, lock
<1>5. ASSUME NEW p \in Proc, TakeTurn(p) PROVE LeaseInv'
  BY <1>2, <1>5 DEF TakeTurn, lock, TypeOK
<1>6. ASSUME NEW p \in Proc, Claim(p) PROVE LeaseInv'
  <2>1. \A w \in Worker : pc[w] # "working"
    BY <1>6, FreeLemma, TimeAssumption DEF Claim, TypeOK
  <2>2. \A w \in Worker : pc'[w] = "working" => w = p
    BY <1>1, <1>6, <2>1 DEF Claim, TypeOK
  <2>3. owner' = job'[p] /\ leaseAge' = age'[p] /\ publishing' = FALSE
    BY <1>6 DEF Claim, Acquiring, TypeOK
  <2> QED
    BY <2>2, <2>3 DEF LeaseInv
<1>7. ASSUME NEW p \in Proc, ClaimRefused(p) PROVE LeaseInv'
  <2>1. \A w \in Worker : pc[w] # "working"
    BY <1>7, FreeLemma, TimeAssumption DEF ClaimRefused, TypeOK
  <2>2. \A w \in Worker : pc'[w] # "working"
    BY <1>1, <1>7, <2>1, LeaveLemma DEF ClaimRefused
  <2> QED
    BY <2>2 DEF LeaseInv
<1>8. ASSUME NEW p \in Proc, Finish(p) PROVE LeaseInv'
  <2>1. ASSUME NEW w \in Worker, pc'[w] = "working"
        PROVE  pc[w] = "working" /\ job'[w] = job[w] /\ age'[w] = age[w] /\ job[p] # job[w]
    BY <1>1, <1>8, <2>1, LeaveLemma, OwnRunLemma DEF Finish
  <2>2. ASSUME NEW w \in Worker, pc'[w] = "working"
        PROVE  owner' = job'[w] /\ leaseAge' = age'[w]
    BY <1>8, <2>1, <2>2 DEF Finish, Release, IInv, LeaseInv
  <2> QED
    BY <1>8, <2>1, <2>2 DEF Finish, IInv, LeaseInv
<1>9. CASE BeginPublication
  <2>1. \A w \in Worker : pc[w] # "working"
    BY <1>9, FreeLemma DEF BeginPublication
  <2> QED
    BY <1>9, <2>1 DEF BeginPublication, LeaseInv, procs, lock
<1>10. CASE EndPublication
  BY <1>10 DEF EndPublication, IInv, LeaseInv, procs
<1>11. CASE Tick
  <2>1. ASSUME NEW w \in Worker, pc'[w] = "working"
        PROVE  owner' = job'[w] /\ leaseAge' = age'[w]
    <3>1. pc[w] = "working" /\ job[w] \in Run /\ owner = job[w] /\ leaseAge = age[w]
      BY <1>1, <1>11, <2>1, JobLemma DEF Tick, IInv, LeaseInv
    <3>2. age[w] \in Nat /\ age[w] < TaskLimit /\ owner # NoOwner
      BY <1>1, <1>11, <3>1, RunAssumption DEF Tick, TypeOK, NoOwner
    <3>3. age'[w] = age[w] + 1
      BY <1>1, <1>11, <3>1, <3>2, TimeAssumption DEF Tick, Least
    <3>4. leaseAge' = leaseAge + 1
      BY <1>11, <3>1, <3>2, TimeAssumption DEF Tick, Least, LeaseCap
    <3> QED
      BY <1>11, <3>1, <3>3, <3>4 DEF Tick
  <2> QED
    BY <1>11, <2>1 DEF Tick, IInv, LeaseInv
<1>12. CASE UNCHANGED <<pc, job, age, owner, leaseAge, publishing>>
  BY <1>12 DEF IInv, LeaseInv
<1> QED
  BY <1>3, <1>4, <1>5, <1>6, <1>7, <1>8, <1>9, <1>10, <1>11, <1>12
  DEF Next, vars, Create, Publish, PublishFails, Disown, ProducerCrash, Discard, WaitForEarlier,
      Attempt, WaitForLease, Wait, Skip, TaskFails, TimeLimit, WorkerLost, Redeliver,
      Cancel, Recover, lock, procs

\* A message leads back to a producer that has sent its batch, whichever of
\* delivery, retry, redelivery, crash or chain put it into the broker.
LEMMA NextSent ==
  ASSUME TypeOK, IInv, [Next]_vars
  PROVE  SentInv'
<1> USE DEF IInv, Sent
<1>1. \A r \in Run : status[r] # "absent" => status'[r] # "absent"
  BY PresentLemma
<1>2. \A p \in Proc : pc[p] # "idle" =>
        /\ job[p] \in Run /\ Sent(job[p]) /\ status[job[p]] # "absent"
        /\ p \in Worker => Via[job[p]] # "cli"
        /\ Kind[job[p]] = "scheduled" => Via[job[p]] # "cli"
  BY JobLemma, ProcLemma, BatchAssumption DEF JobInv, SentInv, Busy
<1>3. \A r \in Run : Head[r] \in Run
  BY BatchAssumption
<1> DEFINE Sendable(r) ==
      r \in Run /\ Via[r] # "cli" /\ Sent(r) /\ status[r] # "absent"
<1>4. ASSUME NEW r \in Run, Sent(r)
      PROVE  \A s \in Successor(r) : Sendable(s)
  <2>1. \A s \in Run : s \in Members(Head[r]) => status[s] # "absent"
    BY <1>4 DEF SentInv
  <2>2. \A s \in Successor(r) : s \in Members(Head[r])
    BY DEF Successor
  <2> QED
    BY <1>4, <2>1, <2>2, BatchLemma DEF Members
<1>5. \A r \in msgs : Sendable(r)
  BY DEF SentInv, TypeOK
<1>6. ASSUME \A r \in Run : Sent(r) => Sent(r)',
             \A r \in Run : Sent(r)' =>
               \/ Sent(r)
               \/ \A s \in Members(Head[r]) : status[s] # "absent",
             \A r \in msgs' :
               r \in Run /\ Via[r] # "cli" /\ Sent(r)' /\ status[r] # "absent",
             \A p \in Proc : pc'[p] # "idle" =>
               (job'[p] \in Run /\ Sent(job[p])'),
             \A r \in began' : r \in Run /\ Sent(r)'
      PROVE  SentInv'
  <2>1. \A r \in Run : \A s \in Members(Head[r]) : s \in Run
    BY DEF Members
  <2> QED
    BY <1>1, <1>6, <2>1 DEF SentInv, Busy, Members
<1>7. \A r \in began : r \in Run /\ Sent(r)
  BY DEF SentInv, TypeOK
<1>8. ASSUME NEW h \in Run, Publish(h) PROVE SentInv'
  <2>1. /\ \A r \in Run : Sent(r) => Sent(r)'
        /\ \A r \in Run : Sent(r)' /\ Head[r] # h => Sent(r)
    BY <1>3, <1>8 DEF Publish, TypeOK
  <2>2. h \in Members(h) /\ Head[h] = h
    BY <1>8, BatchLemma DEF Publish, AllCreated, Members
  <2>3. Via[h] # "cli" /\ status[h] # "absent" /\ Sent(h)'
    BY <1>8, <2>2 DEF Publish, AllCreated, TypeOK
  <2> QED
    BY <1>2, <1>5, <1>6, <1>7, <1>8, <2>1, <2>2, <2>3 DEF Publish, AllCreated, procs
<1>9. ASSUME NEW h \in Run, PublishFails(h) PROVE SentInv'
  <2>1. /\ \A r \in Run : Sent(r) => Sent(r)'
        /\ \A r \in Run : Sent(r)' /\ Head[r] # h => Sent(r)
    BY <1>3, <1>9 DEF PublishFails, TypeOK
  <2>2. h \in Members(h) /\ Head[h] = h
    BY <1>9, BatchLemma DEF PublishFails, AllCreated, Members
  <2>3. Via[h] # "cli" /\ status[h] # "absent" /\ Sent(h)'
    BY <1>9, <2>2 DEF PublishFails, AllCreated, TypeOK
  <2> QED
    BY <1>2, <1>5, <1>6, <1>7, <1>9, <2>1, <2>2, <2>3 DEF PublishFails, AllCreated, procs
<1>22. ASSUME NEW h \in Run, Disown(h) \/ ProducerCrash(h) PROVE SentInv'
  <2>1. \A r \in Run : Sent(r) <=> Sent(r)'
    BY <1>3, <1>22 DEF Disown, ProducerCrash, TypeOK
  <2> QED
    BY <1>2, <1>5, <1>6, <1>7, <1>22, <2>1 DEF Disown, ProducerCrash, procs
<1>10. ASSUME NEW p \in Proc, NEW r \in Run, StartCli(p, r) PROVE SentInv'
  <2>1. Head[r] = r /\ Members(r) = {r} /\ status[r] # "absent"
    BY <1>10, BatchLemma DEF StartCli
  <2>2. /\ \A q \in Run : Sent(q) => Sent(q)'
        /\ \A q \in Run : Sent(q)' /\ Head[q] # r => Sent(q)
        /\ Sent(r)'
    BY <1>3, <1>10, <2>1 DEF StartCli, TypeOK
  <2>3. \A q \in Proc : pc'[q] # "idle" =>
          (job'[q] \in Run /\ Sent(job[q])')
    BY <1>2, <1>10, <2>2, EnterLemma DEF StartCli
  <2> QED
    BY <1>5, <1>6, <1>7, <1>10, <2>1, <2>2, <2>3 DEF StartCli
<1>11. ASSUME NEW p \in Proc, NEW r \in Run, Deliver(p, r) PROVE SentInv'
  <2>1. \A q \in Proc : pc'[q] # "idle" =>
          (job'[q] \in Run /\ Sent(job'[q]))
    BY <1>2, <1>5, <1>11, EnterLemma DEF Deliver
  <2> QED
    BY <1>5, <1>6, <1>7, <1>11, <2>1 DEF Deliver
<1>12. ASSUME NEW p \in Proc, NEW r \in Run, Discard(p, r) PROVE SentInv'
  BY <1>2, <1>4, <1>5, <1>6, <1>7, <1>12 DEF Discard, procs
<1>13. ASSUME NEW p \in Proc, pc[p] # "idle", Leave(p), UNCHANGED stage,
              msgs' \subseteq msgs \cup Successor(job[p]) \cup
                (IF p \in Worker \/ Kind[job[p]] = "scheduled" THEN {job[p]} ELSE {}),
              began' = began
       PROVE  SentInv'
  <2>1. \A q \in Proc : pc'[q] # "idle" =>
          (job'[q] \in Run /\ Sent(job'[q]))
    BY <1>2, <1>13, LeaveLemma
  <2>2. \A s \in Successor(job[p]) : Sendable(s)
    BY <1>2, <1>4, <1>13
  <2>3. \A r \in msgs' : Sendable(r)
    BY <1>2, <1>5, <1>13, <2>2
  <2> QED
    BY <1>6, <1>7, <1>13, <2>1, <2>3
<1>14. ASSUME NEW p \in Proc, Claim(p) PROVE SentInv'
  <2>1. job[p] \in Run /\ Sent(job[p])
    BY <1>2, <1>14 DEF Claim, Acquiring
  <2>2. \A q \in Proc : pc'[q] # "idle" => pc[q] # "idle"
    BY <1>14 DEF Claim, Acquiring, TypeOK
  <2> QED
    BY <1>2, <1>5, <1>6, <1>7, <1>14, <2>1, <2>2 DEF Claim
<1>15. ASSUME NEW p \in Proc, TakeTurn(p) PROVE SentInv'
  <2>1. \A q \in Proc : pc'[q] # "idle" => pc[q] # "idle"
    BY <1>15 DEF TakeTurn, TypeOK
  <2> QED
    BY <1>2, <1>5, <1>6, <1>7, <1>15, <2>1 DEF TakeTurn
<1>16. ASSUME NEW p \in Proc, Redeliver(p) PROVE SentInv'
  BY <1>2, <1>5, <1>6, <1>7, <1>16 DEF Redeliver, procs
<1>17. ASSUME NEW p \in Proc, Wait(p), Kind[job[p]] = "scheduled", pc[p] # "idle"
       PROVE  SentInv'
  BY <1>13, <1>17 DEF Wait
<1>18. ASSUME NEW p \in Proc, WaitForEarlier(p) \/ WaitForLease(p) PROVE SentInv'
  BY <1>17, <1>18 DEF WaitForEarlier, WaitForLease, Acquiring, JobInv
<1>19. ASSUME NEW p \in Proc, ClaimRefused(p) \/ Skip(p) \/ Finish(p) PROVE SentInv'
  BY <1>13, <1>19 DEF ClaimRefused, Skip, Finish, Acquiring, Forward
<1>20. ASSUME NEW p \in Proc, TaskFails(p) \/ TimeLimit(p) \/ WorkerLost(p) PROVE SentInv'
  BY <1>13, <1>20 DEF TaskFails, TimeLimit, WorkerLost
<1>21. CASE UNCHANGED <<pc, job, stage, msgs, began>>
  BY <1>2, <1>5, <1>6, <1>7, <1>21
<1> QED
  BY <1>8, <1>9, <1>10, <1>11, <1>12, <1>14, <1>15, <1>16, <1>18, <1>19, <1>20, <1>21,
     <1>22
  DEF Next, vars, Create, Attempt, Cancel, Recover, BeginPublication, EndPublication,
      Tick, procs

\* What a producer has reported stays reported.
LEMMA ReportedStays ==
  ASSUME TypeOK, [Next]_vars, NEW r \in Run, Reported(r)
  PROVE  Reported(r)'
<1>1. stage[Head[r]] = "failed" /\ Head[r] \in Run
  BY BatchAssumption DEF Reported
<1>2. ASSUME NEW h \in Run, Publish(h) \/ PublishFails(h) \/ Disown(h) \/ ProducerCrash(h)
      PROVE  stage'[Head[r]] = "failed"
  BY <1>1, <1>2 DEF Publish, PublishFails, Disown, ProducerCrash, AllCreated, TypeOK
<1>3. ASSUME NEW p \in Proc, NEW q \in Run, StartCli(p, q)
      PROVE  stage'[Head[r]] = "failed"
  BY <1>1, <1>3 DEF StartCli, TypeOK
<1>4. ASSUME UNCHANGED stage PROVE stage'[Head[r]] = "failed"
  BY <1>1, <1>4
<1>5. stage'[Head[r]] = "failed"
  BY <1>2, <1>3, <1>4
  DEF Next, vars, Create, Deliver, Discard, WaitForEarlier, TakeTurn, Attempt, Claim,
      ClaimRefused, WaitForLease, Wait, Skip, Finish, TaskFails, TimeLimit, WorkerLost,
      Redeliver, Cancel, Recover, BeginPublication, EndPublication, Tick
<1> QED
  BY <1>5 DEF Reported, Disowned, Members

\* No commit but the live worker's own touches its scheduled row, or its producer's
\* report: it is older than what is inserted, not QUEUED, and too young for the
\* recovery since TaskLimit <= Recovery.
LEMMA NextRow ==
  ASSUME TypeOK, IInv, [Next]_vars
  PROVE  RowInv'
<1> DEFINE Live(w) == pc[w] = "working" /\ Kind[job[w]] = "scheduled"
           Fine(w) == status[job[w]] = "RUNNING" /\ touched[job[w]] <= age[w]
           Given(w) == status[job[w]] = "FAILED" /\ Reported(job[w])
<1>1. \A w \in Worker : w \in Proc
  BY ProcLemma
<1>2. ASSUME NEW w \in Worker, Live(w)
      PROVE  /\ job[w] \in Run /\ (Fine(w) \/ Given(w))
             /\ Sent(job[w]) /\ age[w] \in 0 .. TaskLimit
  BY <1>1, <1>2, JobLemma DEF IInv, RowInv, SentInv, Busy, TypeOK
<1>0. \A r \in Run : Reported(r) => Reported(r)'
  BY ReportedStays
<1>3. ASSUME NEW S \in SUBSET Run, NEW s \in Status, Set(S, s),
             \A w \in Worker : pc'[w] = "working" =>
               pc[w] = "working" /\ job'[w] = job[w] /\ age'[w] = age[w],
             \A w \in Worker : pc'[w] = "working" /\ Live(w) => job[w] \notin S
      PROVE  RowInv'
  <2>1. \A r \in Run \ S : status'[r] = status[r] /\ touched'[r] = touched[r]
    BY <1>3, SetLemma
  <2>2. ASSUME NEW w \in Worker, pc'[w] = "working", Kind[job'[w]] = "scheduled"
        PROVE  \/ status'[job'[w]] = "RUNNING" /\ touched'[job'[w]] <= age'[w]
               \/ status'[job'[w]] = "FAILED" /\ Reported(job[w])'
    <3>1. pc[w] = "working" /\ job'[w] = job[w] /\ age'[w] = age[w]
      BY <1>3, <2>2
    <3>2. Live(w) /\ job[w] \in Run \ S
      BY <1>2, <1>3, <2>2, <3>1
    <3> QED
      BY <1>0, <1>2, <2>1, <3>1, <3>2 DEF Reported
  <2> QED
    BY <2>2 DEF RowInv
<1>4. ASSUME NEW r \in Run, Create(r) PROVE RowInv'
  <2>1. Inserted(r) \in SUBSET Run /\ "QUEUED" \in Status
    BY DEF Inserted, Members, Status
  <2>2. \A w \in Worker : Live(w) => status[job[w]] # "absent"
    BY <1>2
  <2>3. \A w \in Worker : Live(w) => job[w] \notin Inserted(r)
    BY <1>2, <1>4, <2>2, CreateLemma
  <2> QED
    BY <1>3, <1>4, <2>1, <2>3 DEF Create, procs
<1>5. ASSUME NEW h \in Run, Disown(h) PROVE RowInv'
  <2>1. Disowned(h) \in SUBSET Run /\ "FAILED" \in Status
    BY DEF Disowned, Members, Status, Terminal, Outcome
  <2>2. \A r \in Disowned(h) : status'[r] = "FAILED" /\ Reported(r)'
    <3>1. \A r \in Disowned(h) : Head[r] = h
      BY DEF Disowned, Members
    <3>2. stage'[h] = "failed"
      BY <1>5 DEF Disown, TypeOK
    <3> QED
      BY <1>5, <2>1, <3>1, <3>2 DEF Disown, Set, Reported
  <2>3. \A r \in Run \ Disowned(h) : status'[r] = status[r] /\ touched'[r] = touched[r]
    BY <1>5, <2>1, SetLemma DEF Disown
  <2> QED
    BY <1>0, <1>2, <1>5, <2>2, <2>3 DEF Disown, procs, RowInv
<1>6. ASSUME NEW p \in Proc, NEW r \in Run, StartCli(p, r) \/ Deliver(p, r)
      PROVE  RowInv'
  <2>1. FirstPoint(r) # "working"
    BY DEF FirstPoint
  <2> QED
    BY <1>0, <1>1, <1>2, <1>6, <2>1, EnterLemma DEF StartCli, Deliver, rows, RowInv
<1>7. ASSUME NEW p \in Proc, Wait(p), pc[p] # "working", pc[p] # "idle" PROVE RowInv'
  <2>1. \A r \in Run : touched'[r] = 0 \/ touched'[r] = touched[r]
    BY <1>7 DEF Wait, TypeOK
  <2>2. \A w \in Worker : pc'[w] = "working" =>
          pc[w] = "working" /\ job'[w] = job[w] /\ age'[w] = age[w]
    BY <1>1, <1>7, LeaveLemma DEF Wait
  <2> QED
    BY <1>0, <1>2, <1>7, <2>1, <2>2 DEF Wait, RowInv
<1>8. ASSUME NEW p \in Proc, TakeTurn(p) PROVE RowInv'
  BY <1>0, <1>1, <1>2, <1>8 DEF TakeTurn, rows, RowInv, TypeOK
<1>9. ASSUME NEW p \in Proc, Claim(p) PROVE RowInv'
  <2>1. \A w \in Worker : pc[w] # "working"
    BY <1>9, FreeLemma, TimeAssumption DEF Claim, TypeOK
  <2>2. \A w \in Worker : pc'[w] = "working" => w = p
    BY <1>1, <1>9, <2>1 DEF Claim, TypeOK
  <2>3. job[p] \in Run /\ "RUNNING" \in Status /\ {job[p]} \in SUBSET Run
    BY <1>9, JobLemma DEF IInv, Claim, Acquiring, Status
  <2>4. status'[job[p]] = "RUNNING" /\ touched'[job[p]] = 0 /\ job'[p] = job[p]
    BY <1>9, <2>3, SetLemma DEF Claim
  <2>5. age'[p] = age[p] /\ age[p] \in Nat
    BY <1>9, TimeAssumption DEF Claim, TypeOK
  <2> QED
    BY <2>2, <2>4, <2>5 DEF RowInv
<1>10. ASSUME NEW p \in Proc, Leave(p), UNCHANGED rows PROVE RowInv'
  BY <1>0, <1>1, <1>2, <1>10, LeaveLemma DEF rows, RowInv
<1>11. ASSUME NEW p \in Proc, Skip(p) PROVE RowInv'
  <2>1. job[p] \in Run /\ "SKIPPED" \in Status /\ {job[p]} \in SUBSET Run
    BY <1>11, JobLemma DEF IInv, Skip, Acquiring, Status, Terminal, Outcome
  <2>2. \A w \in Worker : Live(w) => job[w] # job[p]
    BY <1>11 DEF Skip
  <2> QED
    BY <1>1, <1>3, <1>11, <2>1, <2>2, LeaveLemma DEF Skip
<1>12. ASSUME NEW p \in Proc, Finish(p) PROVE RowInv'
  <2>1. job[p] \in Run /\ {job[p]} \in SUBSET Run
    BY <1>12, JobLemma DEF IInv, Finish
  <2>2. PICK s \in Status : Set({job[p]}, s)
    BY <1>12 DEF Finish, Status, Terminal
  <2>3. \A w \in Worker : pc'[w] = "working" =>
          /\ pc[w] = "working" /\ job'[w] = job[w] /\ age'[w] = age[w]
          /\ job[w] # job[p]
    BY <1>1, <1>12, LeaveLemma, OwnRunLemma DEF Finish
  <2> QED
    BY <1>3, <2>1, <2>2, <2>3
<1>13. ASSUME NEW r \in Run, Cancel(r) PROVE RowInv'
  <2>1. {r} \in SUBSET Run /\ "CANCELLED" \in Status
    BY DEF Status, Terminal
  <2>2. \A w \in Worker : Live(w) => job[w] # r
    BY <1>2, <1>13 DEF Cancel
  <2> QED
    BY <1>3, <1>13, <2>1, <2>2 DEF Cancel, procs
<1>14. CASE Recover
  <2>1. Stuck \in SUBSET Run /\ "FAILED" \in Status
    BY DEF Stuck, Status, Terminal, Outcome
  <2>2. \A w \in Worker : Live(w) => job[w] \notin Stuck
    BY <1>2, TimeAssumption DEF Stuck, TypeOK
  <2> QED
    BY <1>3, <1>14, <2>1, <2>2 DEF Recover, procs
<1>15. CASE Tick
  <2>1. ASSUME NEW w \in Worker, Live(w), Fine(w)
        PROVE  touched'[job[w]] <= age'[w] /\ status'[job[w]] = "RUNNING"
    <3>1. age'[w] = age[w] + 1
      BY <1>1, <1>2, <1>15, <2>1, TimeAssumption DEF Tick, Least, TypeOK
    <3>2. touched[job[w]] \in Nat /\ touched'[job[w]] <= touched[job[w]] + 1
      BY <1>2, <1>15, <2>1, TimeAssumption DEF Tick, Least, TypeOK
    <3>3. touched'[job[w]] \in Nat
      BY <1>2, <1>15, <2>1, <3>2, TimeAssumption DEF Tick, Least
    <3> QED
      BY <1>2, <1>15, <2>1, <3>1, <3>2, <3>3 DEF Tick
  <2> QED
    BY <1>0, <1>2, <1>15, <2>1 DEF Tick, RowInv
<1>16. CASE UNCHANGED <<status, touched, pc, job, age>>
  BY <1>0, <1>2, <1>16 DEF RowInv
<1> QED
  BY <1>4, <1>5, <1>6, <1>7, <1>8, <1>9, <1>10, <1>11, <1>12, <1>13, <1>14, <1>15, <1>16
  DEF Next, vars, Publish, PublishFails, ProducerCrash, Discard, WaitForEarlier, Attempt, ClaimRefused,
      WaitForLease, Acquiring, TaskFails, TimeLimit, WorkerLost, Redeliver,
      BeginPublication, EndPublication, rows, procs

\* No scheduled run can become QUEUED before one that has its turn, since new
\* rows come last and nothing returns to the queue.
LEMMA NextTurn ==
  ASSUME TypeOK, IInv, [Next]_vars
  PROVE  TurnInv'
<1> DEFINE Turn(p) == pc[p] = "turn" /\ Kind[job[p]] = "scheduled"
<1>1. \A p \in Proc : pc[p] # "idle" => job[p] \in Run /\ status[job[p]] # "absent"
  BY JobLemma DEF IInv, JobInv, Busy
<1>2. ASSUME \A p \in Proc : pc'[p] = "turn" /\ Kind[job'[p]] = "scheduled"
                              => Turn(p) /\ job'[p] = job[p],
             \A q \in Run : status'[q] = "QUEUED" => status[q] = "QUEUED"
      PROVE  TurnInv'
  BY <1>2 DEF IInv, TurnInv
<1>3. ASSUME NEW S \in SUBSET Run, NEW s \in Status \ {"QUEUED"}, Set(S, s)
      PROVE  \A q \in Run : status'[q] = "QUEUED" => status[q] = "QUEUED"
  BY <1>3 DEF Set
<1>4. ASSUME NEW r \in Run, Create(r) PROVE TurnInv'
  <2>1. ASSUME NEW p \in Proc, Turn(p), NEW q \in Run, q < job[p]
        PROVE  q \notin Inserted(r)
    <3>1. \A s \in Inserted(r) : job[p] < s
      BY <1>1, <1>4, <2>1, CreateLemma
    <3>2. q \in Nat /\ job[p] \in Nat
      BY <1>1, <2>1, RunAssumption
    <3> QED
      BY <2>1, <3>1, <3>2
  <2>2. \A q \in Run : q \notin Inserted(r) => status'[q] = status[q]
    BY <1>4 DEF Create, Set
  <2> QED
    BY <1>4, <2>1, <2>2 DEF Create, procs, IInv, TurnInv
<1>5. ASSUME NEW h \in Run, Disown(h) PROVE TurnInv'
  <2>1. Disowned(h) \in SUBSET Run /\ "FAILED" \in Status \ {"QUEUED"}
    BY DEF Disowned, Members, Status, Terminal, Outcome
  <2> QED
    BY <1>2, <1>3, <1>5, <2>1 DEF Disown, procs
<1>6. ASSUME NEW p \in Proc, NEW r \in Run, Enter(p, r), UNCHANGED status PROVE TurnInv'
  <2>1. FirstPoint(r) = "turn" => Kind[r] # "scheduled"
    BY DEF FirstPoint
  <2> QED
    BY <1>2, <1>6, <2>1, EnterLemma
<1>7. ASSUME NEW p \in Proc, Leave(p), UNCHANGED status PROVE TurnInv'
  BY <1>2, <1>7, LeaveLemma
<1>8. ASSUME NEW p \in Proc, TakeTurn(p) PROVE TurnInv'
  <2>1. \A q \in Run : Kind[q] = "scheduled" /\ q < job[p] => status[q] # "QUEUED"
    BY <1>8 DEF TakeTurn, Earlier
  <2>2. \A q \in Proc \ {p} : pc'[q] = pc[q]
    BY <1>8 DEF TakeTurn, TypeOK
  <2> QED
    BY <1>8, <2>1, <2>2 DEF TakeTurn, rows, IInv, TurnInv
<1>9. ASSUME NEW p \in Proc, Claim(p) PROVE TurnInv'
  <2>1. {job[p]} \in SUBSET Run /\ "RUNNING" \in Status \ {"QUEUED"}
    BY <1>1, <1>9 DEF Claim, Acquiring, Status
  <2>2. \A q \in Proc : pc'[q] = "turn" => pc[q] = "turn"
    BY <1>9 DEF Claim, TypeOK
  <2> QED
    BY <1>2, <1>3, <1>9, <2>1, <2>2 DEF Claim
<1>10. ASSUME NEW p \in Proc, Skip(p) PROVE TurnInv'
  <2>1. {job[p]} \in SUBSET Run /\ "SKIPPED" \in Status \ {"QUEUED"}
    BY <1>1, <1>10 DEF Skip, Acquiring, Status, Terminal, Outcome
  <2> QED
    BY <1>2, <1>3, <1>10, <2>1, LeaveLemma DEF Skip
<1>11. ASSUME NEW p \in Proc, Finish(p) PROVE TurnInv'
  <2>1. {job[p]} \in SUBSET Run
    BY <1>1, <1>11 DEF Finish
  <2>2. PICK s \in Status \ {"QUEUED"} : Set({job[p]}, s)
    BY <1>11 DEF Finish, Status, Terminal, Outcome
  <2> QED
    BY <1>2, <1>3, <1>11, <2>1, <2>2, LeaveLemma DEF Finish
<1>12. ASSUME NEW r \in Run, Cancel(r) PROVE TurnInv'
  <2>1. {r} \in SUBSET Run /\ "CANCELLED" \in Status \ {"QUEUED"}
    BY DEF Status, Terminal
  <2> QED
    BY <1>2, <1>3, <1>12, <2>1 DEF Cancel, procs
<1>13. CASE Recover
  <2>1. Stuck \in SUBSET Run /\ "FAILED" \in Status \ {"QUEUED"}
    BY DEF Stuck, Status, Terminal, Outcome
  <2> QED
    BY <1>2, <1>3, <1>13, <2>1 DEF Recover, procs
<1>14. CASE UNCHANGED <<status, pc, job>>
  BY <1>2, <1>14
<1> QED
  BY <1>4, <1>5, <1>6, <1>7, <1>8, <1>9, <1>10, <1>11, <1>12, <1>13, <1>14
  DEF Next, vars, Publish, PublishFails, ProducerCrash, StartCli, Deliver, Discard, WaitForEarlier,
      Wait, Attempt, ClaimRefused, WaitForLease, TaskFails, TimeLimit, WorkerLost,
      Redeliver, BeginPublication, EndPublication, Tick, rows, procs

\* What was started never looks unstarted again, and only what was started is
\* ever reported as imported.
LEMMA NextBegan ==
  ASSUME TypeOK, IInv, [Next]_vars
  PROVE  BeganInv'
<1>1. \A p \in Proc : pc[p] # "idle" => job[p] \in Run
  BY JobLemma DEF IInv
<1>2. ASSUME began \subseteq began',
             \A r \in began' : Kind[r] # "legacy" => status'[r] \notin {"absent", "QUEUED"},
             \A r \in Run : status'[r] \in {"SUCCESS", "PARTIAL"} =>
                 status[r] \in {"SUCCESS", "PARTIAL"} \/ r \in began',
             \A p \in Proc : pc'[p] = "working" =>
                 (pc[p] = "working" /\ job'[p] = job[p]) \/ job'[p] \in began'
      PROVE  BeganInv'
  BY <1>2 DEF IInv, BeganInv
<1>3. ASSUME NEW S \in SUBSET Run, Set(S, "FAILED") \/ Set(S, "SKIPPED") \/ Set(S, "CANCELLED"),
             UNCHANGED began,
             \A p \in Proc : pc'[p] = "working" => pc[p] = "working" /\ job'[p] = job[p]
      PROVE  BeganInv'
  <2>1. \A r \in Run : status'[r] \in {status[r], "FAILED", "SKIPPED", "CANCELLED"}
    BY <1>3 DEF Set
  <2>2. began \subseteq Run
    BY DEF TypeOK
  <2> QED
    BY <1>2, <1>3, <2>1, <2>2 DEF IInv, BeganInv
<1>4. ASSUME UNCHANGED <<status, began>>,
             \A p \in Proc : pc'[p] = "working" => pc[p] = "working" /\ job'[p] = job[p]
      PROVE  BeganInv'
  BY <1>2, <1>4 DEF IInv, BeganInv
<1>5. ASSUME NEW r \in Run, Create(r) PROVE BeganInv'
  <2>1. \A q \in Run : status[q] # "absent" => q \notin Inserted(r)
    BY <1>5, CreateLemma
  <2>2. \A q \in Run : status'[q] = IF q \in Inserted(r) THEN "QUEUED" ELSE status[q]
    BY <1>5 DEF Create, Set
  <2> QED
    BY <1>2, <1>5, <2>1, <2>2 DEF Create, procs, IInv, BeganInv, TypeOK
<1>6. ASSUME NEW h \in Run, Disown(h) PROVE BeganInv'
  BY <1>3, <1>6 DEF Disown, Disowned, Members, procs
<1>7. ASSUME NEW p \in Proc, NEW r \in Run, Enter(p, r), UNCHANGED <<status, began>>
      PROVE  BeganInv'
  <2>1. FirstPoint(r) # "working"
    BY DEF FirstPoint
  <2> QED
    BY <1>4, <1>7, <2>1, EnterLemma
<1>8. ASSUME NEW p \in Proc, Leave(p), UNCHANGED <<status, began>> PROVE BeganInv'
  BY <1>4, <1>8, LeaveLemma
<1>9. ASSUME NEW p \in Proc, TakeTurn(p) PROVE BeganInv'
  BY <1>4, <1>9 DEF TakeTurn, rows, TypeOK
<1>10. ASSUME NEW p \in Proc, Claim(p) PROVE BeganInv'
  <2>1. job[p] \in Run
    BY <1>1, <1>10 DEF Claim, Acquiring
  <2>2. \A r \in Run : status'[r] = IF r = job[p] THEN "RUNNING" ELSE status[r]
    BY <1>10 DEF Claim, Set
  <2>3. \A q \in Proc : pc'[q] = "working" => q = p \/ pc[q] = "working"
    BY <1>10 DEF Claim, TypeOK
  <2> QED
    BY <1>2, <1>10, <2>1, <2>2, <2>3 DEF Claim, IInv, BeganInv, TypeOK
<1>11. ASSUME NEW p \in Proc, Skip(p) PROVE BeganInv'
  <2>1. {job[p]} \in SUBSET Run
    BY <1>1, <1>11 DEF Skip, Acquiring
  <2> QED
    BY <1>3, <1>11, <2>1, LeaveLemma DEF Skip
<1>12. ASSUME NEW p \in Proc, Finish(p) PROVE BeganInv'
  <2>1. job[p] \in Run /\ job[p] \in began
    BY <1>1, <1>12 DEF Finish, IInv, BeganInv
  <2>2. PICK s \in Outcome : Set({job[p]}, s)
    BY <1>12 DEF Finish
  <2>3. \A r \in Run : status'[r] = IF r = job[p] THEN s ELSE status[r]
    BY <2>2 DEF Set
  <2>4. s \notin {"absent", "QUEUED"}
    BY DEF Outcome
  <2> QED
    BY <1>2, <1>12, <2>1, <2>3, <2>4, LeaveLemma DEF Finish, IInv, BeganInv, TypeOK
<1>13. ASSUME NEW r \in Run, Cancel(r) PROVE BeganInv'
  BY <1>3, <1>13 DEF Cancel, procs
<1>14. CASE Recover
  BY <1>3, <1>14 DEF Recover, Stuck, procs
<1>15. CASE UNCHANGED <<status, began, pc, job>>
  BY <1>4, <1>15
<1> QED
  BY <1>5, <1>6, <1>7, <1>8, <1>9, <1>10, <1>11, <1>12, <1>13, <1>14, <1>15
  DEF Next, vars, Publish, PublishFails, ProducerCrash, StartCli, Deliver, Discard, WaitForEarlier,
      Wait, Attempt, ClaimRefused, WaitForLease, TaskFails, TimeLimit, WorkerLost,
      Redeliver, BeginPublication, EndPublication, Tick, rows, procs

-----------------------------------------------------------------------------
\* The types and the invariant together hold in every reachable state.
THEOREM Invariant == Spec => [](TypeOK /\ IInv)
<1>1. Init => TypeOK /\ IInv
  BY InitType, InitInv
<1>2. TypeOK /\ IInv /\ [Next]_vars => (TypeOK /\ IInv)'
  <2> SUFFICES ASSUME TypeOK, IInv, [Next]_vars PROVE (TypeOK /\ IInv)'
    OBVIOUS
  <2>1. TypeOK'
    BY NextType DEF IInv
  <2> QED
    BY <2>1, NextJob, NextSent, NextLease, NextRow, NextTurn, NextBegan DEF IInv
<1> QED
  BY <1>1, <1>2, PTL DEF Spec

\* The variables keep their types, for any number of runs and processes.
THEOREM TypeCorrect == Spec => []TypeOK
BY Invariant, PTL

\* The lease does what acquire is for: whatever crashes, duplicates, retries and
\* leases are left behind, one worker writes at a time and no worker writes
\* during an admin publication, as long as TaskLimit <= Lease.
THEOREM WriterIsSingle == Spec => []SingleWriter
<1>1. TypeOK /\ IInv => SingleWriter
  BY DEF IInv, LeaseInv, SingleWriter, Writing
<1> QED
  BY <1>1, Invariant, PTL

\* Neither recovery (as long as TaskLimit <= Recovery), cancellation nor a
\* duplicate takes a scheduled run away from the live worker that writes it: only
\* a producer without an answer of the broker writes over its row.
THEOREM LiveRunKept == Spec => []LiveRunIsRunning
<1>1. TypeOK /\ IInv => LiveRunIsRunning
  BY DEF IInv, RowInv, LiveRunIsRunning, Writing
<1> QED
  BY <1>1, Invariant, PTL

\* A step that starts a run, by row or by process, is the claim of that run.
LEMMA StartLemma ==
  ASSUME TypeOK, IInv, [Next]_vars
  PROVE  /\ \A r \in Run : status[r] # "RUNNING" /\ status'[r] = "RUNNING" =>
                \E p \in Proc : Claim(p) /\ job[p] = r
         /\ \A p \in Proc : pc[p] # "working" /\ pc'[p] = "working" => Claim(p)
<1> DEFINE Starts ==
      \/ \E r \in Run : status[r] # "RUNNING" /\ status'[r] = "RUNNING"
      \/ \E p \in Proc : pc[p] # "working" /\ pc'[p] = "working"
<1>1. ASSUME NEW p \in Proc, Claim(p)
      PROVE  /\ \A r \in Run : status[r] # "RUNNING" /\ status'[r] = "RUNNING" => job[p] = r
             /\ \A q \in Proc : pc[q] # "working" /\ pc'[q] = "working" => q = p
  BY <1>1 DEF Claim, Set, TypeOK
<1>2. ASSUME NEW S \in SUBSET Run, NEW s, s # "RUNNING", Set(S, s), UNCHANGED pc
      PROVE  ~Starts
  BY <1>2 DEF Set
<1>3. ASSUME UNCHANGED <<status, pc>> PROVE ~Starts
  BY <1>3
<1>4. ASSUME NEW p \in Proc, NEW r \in Run, Enter(p, r), UNCHANGED status PROVE ~Starts
  <2>1. FirstPoint(r) # "working"
    BY DEF FirstPoint
  <2> QED
    BY <1>4, <2>1, EnterLemma
<1>5. ASSUME NEW p \in Proc, Leave(p), UNCHANGED status PROVE ~Starts
  BY <1>5, LeaveLemma
<1>6. ASSUME NEW p \in Proc, TakeTurn(p) PROVE ~Starts
  BY <1>6 DEF TakeTurn, rows, TypeOK
<1>7. ASSUME NEW p \in Proc, Skip(p) \/ Finish(p) PROVE ~Starts
  <2>1. Leave(p)
    BY <1>7 DEF Skip, Finish
  <2>2. PICK s : s # "RUNNING" /\ Set({job[p]}, s)
    BY <1>7 DEF Skip, Finish, Outcome
  <2> QED
    BY <2>1, <2>2, LeaveLemma DEF Set
<1>8. ASSUME NEW r \in Run, Create(r) \/ Disown(r) \/ Cancel(r) PROVE ~Starts
  BY <1>2, <1>8 DEF Create, Disown, Cancel, Inserted, Disowned, Members, procs
<1>9. CASE Recover
  BY <1>2, <1>9 DEF Recover, Stuck, procs
<1> QED
  BY <1>1, <1>3, <1>4, <1>5, <1>6, <1>7, <1>8, <1>9
  DEF Next, vars, Publish, PublishFails, ProducerCrash, StartCli, Deliver, Discard, WaitForEarlier,
      Wait, Attempt, ClaimRefused, WaitForLease, TaskFails, TimeLimit, WorkerLost,
      Redeliver, BeginPublication, EndPublication, Tick, rows, procs

\* No scheduled run overtakes an earlier one that is still QUEUED, although
\* run_pipeline looks first and claims later.
THEOREM RunsStartInOrder == Spec => StartsInOrder
<1> DEFINE Goal ==
      \A r \in Run :
        (Kind[r] = "scheduled" /\ status[r] = "QUEUED" /\ status'[r] = "RUNNING")
          => ~ \E q \in Run : Kind[q] = "scheduled" /\ q < r /\ status[q] = "QUEUED"
<1>1. TypeOK /\ IInv /\ [Next]_vars => [Goal]_vars
  <2> SUFFICES ASSUME TypeOK, IInv, [Next]_vars, NEW r \in Run,
                      Kind[r] = "scheduled", status[r] = "QUEUED", status'[r] = "RUNNING"
               PROVE  ~ \E q \in Run : Kind[q] = "scheduled" /\ q < r /\ status[q] = "QUEUED"
    OBVIOUS
  <2>1. PICK p \in Proc : Claim(p) /\ job[p] = r
    BY StartLemma
  <2> QED
    BY <2>1 DEF Claim, Acquiring, IInv, TurnInv
<1>2. StartsInOrder <=> [][Goal]_vars
  BY DEF StartsInOrder
<1> HIDE DEF Goal
<1> QED
  BY <1>1, <1>2, Invariant, PTL DEF Spec

\* A message delivered twice, retried or put back by a lost worker never makes
\* a run other than a legacy job start twice.
THEOREM RunsStartOnce == Spec => StartedOnce
<1> DEFINE Goal ==
      \A p \in Proc :
        (pc[p] # "working" /\ pc'[p] = "working" /\ Kind[job[p]] # "legacy")
          => job[p] \notin began
<1>1. TypeOK /\ IInv /\ [Next]_vars => [Goal]_vars
  <2> SUFFICES ASSUME TypeOK, IInv, [Next]_vars, NEW p \in Proc,
                      pc[p] # "working", pc'[p] = "working", Kind[job[p]] # "legacy"
               PROVE  job[p] \notin began
    OBVIOUS
  <2>1. Claim(p)
    BY StartLemma
  <2> QED
    BY <2>1 DEF Claim, Claimable, IInv, BeganInv
<1>2. StartedOnce <=> [][Goal]_vars
  BY DEF StartedOnce
<1> HIDE DEF Goal
<1> QED
  BY <1>1, <1>2, Invariant, PTL DEF Spec

\* The outcome of a scheduled run is final, and a successful import is reported
\* as something else only by the report of its own producer.
THEOREM OutcomesStand == Spec => OutcomeStands
<1> DEFINE Kept(r) ==
             /\ status'[r] \in Terminal
             /\ status[r] \in {"SUCCESS", "PARTIAL"} =>
                  \/ status'[r] = status[r]
                  \/ status'[r] = "FAILED" /\ ~Reported(r) /\ Reported(r)'
           Goal == \A r \in Run : Kind[r] = "scheduled" /\ status[r] \in Terminal => Kept(r)
<1>1. TypeOK /\ IInv /\ [Next]_vars => [Goal]_vars
  <2> SUFFICES ASSUME TypeOK, IInv, [Next]_vars, NEW r \in Run,
                      Kind[r] = "scheduled", status[r] \in Terminal
               PROVE  Kept(r)
    OBVIOUS
  <2>1. status[r] \notin {"absent", "QUEUED", "RUNNING"}
    BY DEF Terminal, Outcome
  <2>2. ASSUME NEW S, NEW s, Set(S, s), r \notin S PROVE Kept(r)
    BY <2>2 DEF Set
  <2>3. ASSUME NEW q \in Run, Create(q) PROVE Kept(r)
    BY <2>1, <2>2, <2>3, CreateLemma DEF Create
  <2>4. ASSUME NEW h \in Run, Disown(h) PROVE Kept(r)
    <3>1. CASE r \in Disowned(h)
      <4>1. Head[r] = h /\ stage[h] = "unsure" /\ stage'[h] = "failed"
        BY <2>4, <3>1 DEF Disown, Disowned, Members, TypeOK
      <4>2. ~Reported(r) /\ Reported(r)'
        BY <3>1, <4>1 DEF Reported, Disowned, Members
      <4>3. status'[r] = "FAILED"
        BY <2>4, <3>1 DEF Disown, Set
      <4> QED
        BY <4>2, <4>3 DEF Terminal, Outcome
    <3> QED
      BY <2>2, <2>4, <3>1 DEF Disown
  <2>5. ASSUME NEW p \in Proc, Claim(p) PROVE Kept(r)
    BY <2>1, <2>2, <2>5 DEF Claim, Claimable
  <2>6. ASSUME NEW p \in Proc, Skip(p) PROVE Kept(r)
    BY <2>2, <2>6 DEF Skip
  <2>7. ASSUME NEW p \in Proc, Finish(p) PROVE Kept(r)
    <3>1. CASE job[p] = r
      <4>1. p \in Worker
        BY <2>7, <3>1, BatchAssumption DEF Finish, IInv, JobInv, Busy, Proc
      <4>2. status[r] = "FAILED"
        BY <2>1, <2>7, <3>1, <4>1 DEF Finish, IInv, RowInv
      <4>3. status'[r] \in Outcome
        BY <2>7, <3>1 DEF Finish, Set
      <4> QED
        BY <4>2, <4>3 DEF Terminal
    <3>2. CASE job[p] # r
      BY <2>2, <2>7, <3>2 DEF Finish
    <3> QED
      BY <3>1, <3>2
  <2>8. ASSUME NEW q \in Run, Cancel(q) PROVE Kept(r)
    BY <2>1, <2>2, <2>8 DEF Cancel
  <2>9. CASE Recover
    BY <2>1, <2>2, <2>9 DEF Recover, Stuck
  <2>10. ASSUME UNCHANGED status PROVE Kept(r)
    BY <2>10
  <2> QED
    BY <2>3, <2>4, <2>5, <2>6, <2>7, <2>8, <2>9, <2>10
    DEF Next, vars, Publish, PublishFails, ProducerCrash, StartCli, Deliver, Discard, WaitForEarlier,
        TakeTurn, Wait, Attempt, ClaimRefused, WaitForLease, TaskFails, TimeLimit,
        WorkerLost, Redeliver, BeginPublication, EndPublication, Tick, rows
<1>2. OutcomeStands <=> [][Goal]_vars
  BY DEF OutcomeStands
<1> HIDE DEF Goal
<1> QED
  BY <1>1, <1>2, Invariant, PTL DEF Spec

-----------------------------------------------------------------------------
\* The deployment the refinement is about.
Limited == Cli = {} /\ \A r \in Run : Kind[r] # "legacy"

\* A run that is written is neither waiting nor absent in its row.
LEMMA ActiveLemma ==
  ASSUME Limited, TypeOK, IInv, NEW r \in Run
  PROVE  /\ Active(r) => status[r] \notin {"absent", "QUEUED"}
         /\ phaseOf[r] = "active" <=> Active(r)
         /\ phaseOf[r] = "absent" <=> status[r] = "absent"
         /\ phaseOf[r] = "waiting" <=> status[r] = "QUEUED"
<1>1. Active(r) => status[r] \notin {"absent", "QUEUED"}
  BY ProcLemma DEF Limited, Active, IInv, BeganInv
<1> QED
  BY <1>1 DEF phaseOf

\* Steps that change neither rows nor writers are invisible.
LEMMA StutterLemma ==
  ASSUME \A r \in Run : Active(r)' <=> Active(r), UNCHANGED <<status, publishing>>
  PROVE  UNCHANGED Abstract!vars
BY DEF phaseOf, Abstract!vars

\* A worker that leaves its run, by whatever end of its task, stops writing it.
LEMMA StopLemma ==
  ASSUME Limited, TypeOK, IInv, NEW p \in Proc, Leave(p), pc[p] = "working",
         UNCHANGED publishing,
         \A r \in Run : r # job[p] => status'[r] = status[r],
         status'[job[p]] \notin {"absent", "QUEUED"}
  PROVE  Abstract!Next
<1>1. p \in Worker /\ job[p] \in Run
  BY JobLemma DEF Limited, Proc, IInv
<1>2. Active(job[p])
  BY <1>1 DEF Active
<1>3. \A w \in Worker : pc'[w] # "working"
  BY <1>1, LeaveLemma, ProcLemma DEF IInv, LeaseInv
<1>4. \A r \in Run : ~Active(r)'
  BY <1>3 DEF Active
<1>5. \A r \in Run : r # job[p] => ~Active(r)
  BY <1>1 DEF Active, IInv, LeaseInv
<1>6. phaseOf' = [phaseOf EXCEPT ![job[p]] = "over"]
  BY <1>1, <1>4, <1>5 DEF phaseOf
<1>7. phaseOf[job[p]] = "active"
  BY <1>1, <1>2, ActiveLemma
<1>8. Abstract!Stop(job[p])
  BY <1>6, <1>7 DEF Abstract!Stop
<1> QED
  BY <1>1, <1>8 DEF Abstract!Next

\* Rows that leave the queue without being written are withdrawn.
LEMMA WithdrawLemma ==
  ASSUME Limited, TypeOK, IInv, NEW S \in SUBSET Run, NEW s \in Terminal, Set(S, s),
         UNCHANGED publishing, \A r \in Run : Active(r)' <=> Active(r),
         \A r \in S : status[r] # "absent"
  PROVE  Abstract!Next
<1> DEFINE W == {r \in S : status[r] = "QUEUED"}
<1>1. \A r \in W : phaseOf[r] = "waiting"
  BY ActiveLemma
<1>2. \A r \in Run : status'[r] = IF r \in S THEN s ELSE status[r]
  BY DEF Set
<1>3. s \notin {"absent", "QUEUED"}
  BY DEF Terminal, Outcome
<1>4. phaseOf' = [r \in Run |-> IF r \in W THEN "over" ELSE phaseOf[r]]
  BY <1>2, <1>3, ActiveLemma DEF phaseOf
<1>5. Abstract!Withdraw(W)
  BY <1>1, <1>4 DEF Abstract!Withdraw
<1> QED
  BY <1>5 DEF Abstract!Next

-----------------------------------------------------------------------------
\* The initial states agree.
LEMMA AbstractInit == ASSUME Limited, Init PROVE Abstract!Init
<1>1. \A r \in Run : status[r] = "absent"
  BY DEF Init
<1> QED
  BY <1>1 DEF Init, Abstract!Init, phaseOf

\* Every step is a step of the serial writer or invisible.
LEMMA AbstractStep ==
  ASSUME Limited, TypeOK, IInv, [Next]_vars
  PROVE  [Abstract!Next]_(Abstract!vars)
<1>1. \A w \in Worker : w \in Proc
  BY ProcLemma
<1>2. \A p \in Proc : p \in Worker
  BY DEF Proc, Limited
<1>3. \A p \in Proc : pc[p] # "idle" => job[p] \in Run /\ status[job[p]] # "absent"
  BY JobLemma DEF IInv, JobInv, Busy
<1>4. ASSUME \A p \in Proc : pc'[p] = "working" <=> pc[p] = "working",
             \A p \in Proc : pc[p] = "working" => job'[p] = job[p]
      PROVE  \A r \in Run : Active(r)' <=> Active(r)
  BY <1>1, <1>4 DEF Active
<1>5. ASSUME UNCHANGED procs PROVE \A r \in Run : Active(r)' <=> Active(r)
  BY <1>5 DEF Active, procs
<1>6. ASSUME NEW r \in Run, Create(r) PROVE Abstract!Next
  <2>1. Inserted(r) \in SUBSET Run /\ r \in Inserted(r)
    BY DEF Inserted, Members
  <2>2. \A s \in Inserted(r) : status[s] = "absent"
    BY <1>6, <2>1, CreateLemma
  <2>3. \A q \in Run : status'[q] = IF q \in Inserted(r) THEN "QUEUED" ELSE status[q]
    BY <1>6 DEF Create, Set
  <2>4. \A q \in Run : Active(q)' <=> Active(q)
    BY <1>5, <1>6 DEF Create
  <2>5. \A s \in Inserted(r) : ~Active(s)
    BY <2>1, <2>2, ActiveLemma
  <2>6. phaseOf' = [q \in Run |-> IF q \in Inserted(r) THEN "waiting" ELSE phaseOf[q]]
    BY <2>1, <2>3, <2>4, <2>5 DEF phaseOf
  <2>7. \A s \in Inserted(r), q \in Run : phaseOf[q] # "absent" => q < s
    BY <1>6, ActiveLemma, CreateLemma
  <2>8. Abstract!Admit(Inserted(r))
    BY <1>6, <2>1, <2>6, <2>7 DEF Abstract!Admit, Create
  <2> QED
    BY <2>1, <2>8 DEF Abstract!Next
<1>7. ASSUME NEW h \in Run, Disown(h) PROVE Abstract!Next
  <2>1. Disowned(h) \in SUBSET Run /\ "FAILED" \in Terminal
    BY DEF Disowned, Members, Terminal, Outcome
  <2>2. \A r \in Disowned(h) : status[r] # "absent"
    <3>1. \A r \in Disowned(h) : r \in Members(Head[r]) /\ Sent(r)
      BY <1>7 DEF Disown, Disowned, Members, Sent
    <3> QED
      BY <2>1, <3>1 DEF IInv, SentInv
  <2> QED
    BY <1>5, <1>7, <2>1, <2>2, WithdrawLemma DEF Disown
<1>8. ASSUME NEW p \in Proc, NEW r \in Run, Enter(p, r), pc[p] = "idle",
             UNCHANGED <<status, publishing>>
      PROVE  UNCHANGED Abstract!vars
  <2>1. FirstPoint(r) # "working"
    BY DEF FirstPoint
  <2> QED
    BY <1>4, <1>8, <2>1, EnterLemma, StutterLemma
<1>9. ASSUME NEW p \in Proc, Leave(p), pc[p] # "idle", UNCHANGED <<status, publishing>>
      PROVE  [Abstract!Next]_(Abstract!vars)
  <2>1. CASE pc[p] = "working"
    <3>1. Active(job[p])
      BY <1>2, <2>1 DEF Active
    <3>2. status[job[p]] \notin {"absent", "QUEUED"}
      BY <1>3, <1>9, <3>1, ActiveLemma
    <3> QED
      BY <1>9, <2>1, <3>2, StopLemma
  <2>2. CASE pc[p] # "working"
    BY <1>4, <1>9, <2>2, LeaveLemma, StutterLemma
  <2> QED
    BY <2>1, <2>2
<1>10. ASSUME NEW p \in Proc, TakeTurn(p) PROVE UNCHANGED Abstract!vars
  BY <1>4, <1>10, StutterLemma DEF TakeTurn, rows, TypeOK
<1>11. ASSUME NEW p \in Proc, Claim(p) PROVE Abstract!Next
  <2>1. p \in Worker /\ job[p] \in Run /\ status[job[p]] = "QUEUED"
    BY <1>2, <1>3, <1>11 DEF Claim, Acquiring, Claimable, Limited
  <2>2. \A w \in Worker : pc[w] # "working"
    BY <1>11, FreeLemma, TimeAssumption DEF Claim, TypeOK
  <2>3. \A r \in Run : ~Active(r)
    BY <2>2 DEF Active
  <2>4. \A r \in Run : Active(r)' <=> r = job[p]
    BY <1>1, <1>11, <2>1, <2>2 DEF Active, Claim, TypeOK
  <2>5. \A r \in Run : status'[r] = IF r = job[p] THEN "RUNNING" ELSE status[r]
    BY <1>11 DEF Claim, Set
  <2>6. phaseOf' = [phaseOf EXCEPT ![job[p]] = "active"]
    BY <2>1, <2>3, <2>4, <2>5 DEF phaseOf
  <2>7. ~publishing /\ \A r \in Run : phaseOf[r] # "active"
    BY <1>11, <2>3, ActiveLemma DEF Claim, Acquiring
  <2>8. job[p] \in ScheduledRun =>
          \A q \in ScheduledRun : q < job[p] => phaseOf[q] # "waiting"
    BY <1>11, ActiveLemma DEF ScheduledRun, Claim, Acquiring, IInv, TurnInv
  <2>9. phaseOf[job[p]] = "waiting"
    BY <2>1, ActiveLemma
  <2>10. Abstract!Start(job[p])
    BY <1>11, <2>6, <2>7, <2>8, <2>9 DEF Abstract!Start, Abstract!NobodyWrites, Claim
  <2> QED
    BY <2>1, <2>10 DEF Abstract!Next
<1>12. ASSUME NEW p \in Proc, Skip(p) PROVE Abstract!Next
  <2>1. {job[p]} \in SUBSET Run /\ "SKIPPED" \in Terminal /\ status[job[p]] # "absent"
    BY <1>3, <1>12 DEF Skip, Acquiring, Terminal, Outcome
  <2>2. \A r \in Run : Active(r)' <=> Active(r)
    BY <1>4, <1>12, LeaveLemma DEF Skip, Acquiring
  <2> QED
    BY <1>12, <2>1, <2>2, WithdrawLemma DEF Skip
<1>13. ASSUME NEW p \in Proc, Finish(p) PROVE Abstract!Next
  <2>1. PICK s \in Outcome : Set({job[p]}, s)
    BY <1>13 DEF Finish
  <2>2. job[p] \in Run /\ s \notin {"absent", "QUEUED"}
    BY <1>3, <1>13 DEF Finish, Outcome
  <2>3. status'[job[p]] = s /\ \A r \in Run : r # job[p] => status'[r] = status[r]
    BY <2>1, <2>2 DEF Set
  <2> QED
    BY <1>13, <2>2, <2>3, StopLemma DEF Finish
<1>14. ASSUME NEW r \in Run, Cancel(r) PROVE Abstract!Next
  <2>1. {r} \in SUBSET Run /\ "CANCELLED" \in Terminal
    BY DEF Terminal
  <2> QED
    BY <1>5, <1>14, <2>1, WithdrawLemma DEF Cancel
<1>15. CASE Recover
  <2>1. Stuck \in SUBSET Run /\ "FAILED" \in Terminal /\ \A r \in Stuck : status[r] # "absent"
    BY DEF Stuck, Terminal, Outcome
  <2> QED
    BY <1>5, <1>15, <2>1, WithdrawLemma DEF Recover
<1>16. CASE BeginPublication
  <2>1. \A w \in Worker : pc[w] # "working"
    BY <1>16, FreeLemma DEF BeginPublication
  <2>2. \A r \in Run : phaseOf[r] # "active"
    BY <2>1, ActiveLemma DEF Active
  <2>3. phaseOf' = phaseOf
    BY <1>5, <1>16 DEF BeginPublication, rows, phaseOf
  <2>4. Abstract!BeginPublication
    BY <1>16, <2>2, <2>3
    DEF BeginPublication, Abstract!BeginPublication, Abstract!NobodyWrites
  <2> QED
    BY <2>4 DEF Abstract!Next
<1>17. CASE EndPublication
  <2>1. phaseOf' = phaseOf
    BY <1>5, <1>17 DEF EndPublication, rows, phaseOf
  <2>2. Abstract!EndPublication
    BY <1>17, <2>1 DEF EndPublication, Abstract!EndPublication
  <2> QED
    BY <2>2 DEF Abstract!Next
<1>18. ASSUME UNCHANGED <<status, publishing, pc, job>> PROVE UNCHANGED Abstract!vars
  BY <1>4, <1>18, StutterLemma
<1> QED
  BY <1>6, <1>7, <1>8, <1>9, <1>10, <1>11, <1>12, <1>13, <1>14, <1>15, <1>16, <1>17, <1>18
  DEF Next, vars, Publish, PublishFails, ProducerCrash, StartCli, Deliver, Discard, WaitForEarlier,
      Wait, Attempt, ClaimRefused, WaitForLease, Acquiring, TaskFails, TimeLimit,
      WorkerLost, Redeliver, Tick, rows, procs

\* Without legacy jobs and without the CLI, the queue with its lease, retries,
\* duplicates, crashes and recoveries is a serial writer in admission order.
THEOREM QueueIsSerialWriter ==
  ASSUME Limited
  PROVE  Spec => ImplementsSerialWriter
<1>1. Init => Abstract!Init
  BY AbstractInit
<1>2. TypeOK /\ IInv /\ [Next]_vars => [Abstract!Next]_(Abstract!vars)
  BY AbstractStep
<1> QED
  BY <1>1, <1>2, Invariant, PTL DEF Spec, ImplementsSerialWriter, Abstract!Spec
=============================================================================
