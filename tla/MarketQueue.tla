---------------------------- MODULE MarketQueue ----------------------------
(***************************************************************************)
(* The market job queue and its writer lease.                              *)
(*                                                                         *)
(* A market run is a row of data_import_runs.  Producers (the minute tick, *)
(* the weekly history task, the admin API, the CLI) insert rows as QUEUED  *)
(* and hand Celery either one message or a chain whose next message is     *)
(* sent only when the task before it succeeds.  Celery workers execute     *)
(* run_pipeline or run_job; the one row "market-writer" of job_locks is a  *)
(* lease that keeps one writer at a time, the admin's manual publication   *)
(* of a result filing being a writer too.                                  *)
(*                                                                         *)
(* One action is one database transaction, or the part of one between two  *)
(* statements whose order with other transactions matters.  Time is        *)
(* discrete (Tick); an age saturates once no comparison can tell it apart. *)
(***************************************************************************)
EXTENDS Naturals, FiniteSets

CONSTANTS
  Run,          \* identifiers of the rows, in the order (created_at, id)
  Kind,         \* Kind[r]: which rules the job of r follows
  Via,          \* Via[r]: the producer that inserts r
  Head,         \* Head[r]: first run of the batch (Celery chain) of r
  Worker,       \* Celery worker processes, killed at TaskLimit
  Cli,          \* bhavcopy_cli processes: nothing limits their time
  SoftLimit, TaskLimit,   \* task_soft_time_limit, task_time_limit
  StatementLimit,         \* bound on the statements before the claim,
                          \* a wait for the lock row included
  Lease,        \* minutes of the lease of acquire
  Recovery,     \* minutes after which a RUNNING run is given up
  Faults,       \* the kinds of fault that may happen
  MaxFaults     \* how many faults may happen (bounds the model)

Kinds == {"scheduled", "pipeline", "legacy"}
Vias == {"tick", "history", "dates", "dispatch", "cli"}
FaultKinds == {"publish", "producer", "retry", "task", "lost", "duplicate", "late"}

ASSUME RunAssumption == Run \subseteq Nat \ {0}
ASSUME BatchAssumption ==
  /\ Kind \in [Run -> Kinds]
  /\ Via \in [Run -> Vias]
  /\ Head \in [Run -> Run]
  /\ \A r \in Run : Head[r] <= r /\ Head[Head[r]] = Head[r] /\ Via[Head[r]] = Via[r]
  /\ \A r \in Run : Via[r] = "cli" => Kind[r] # "scheduled" /\ Head[r] = r
ASSUME ProcAssumption == Worker \cap Cli = {}
ASSUME TimeAssumption ==
  /\ SoftLimit \in Nat /\ TaskLimit \in Nat /\ StatementLimit \in Nat
  /\ Lease \in Nat /\ Recovery \in Nat /\ MaxFaults \in Nat
  /\ SoftLimit <= TaskLimit /\ StatementLimit <= TaskLimit
  /\ TaskLimit <= Lease /\ TaskLimit <= Recovery

VARIABLES
  status,       \* data_import_runs.status, "absent" before the insert
  touched,      \* time since updated_at of a RUNNING row (0 otherwise)
  owner,        \* job_locks.owner, NoOwner when there is no row
  leaseAge,     \* time since the lease_now the lease was taken at
  publishing,   \* an uncommitted admin publication holds the lock row
  pc, job, age, \* per process: point in run_job, run, time since task start
  msgs,         \* runs with a message in the broker
  stage,        \* per batch head: what its producer knows of its message
  began,        \* runs whose work was ever started (history variable)
  faults        \* faults so far (bounds the model)

rows == <<status, touched>>
lock == <<owner, leaseAge>>
procs == <<pc, job, age>>
vars == <<status, touched, owner, leaseAge, publishing, pc, job, age,
          msgs, stage, began, faults>>

NoOwner == 0
Proc == Worker \cup Cli
Outcome == {"SUCCESS", "PARTIAL", "FAILED", "SKIPPED"}
Terminal == Outcome \cup {"CANCELLED"}
Status == {"absent", "QUEUED", "RUNNING"} \cup Terminal
Point == {"idle", "read", "turn", "working"}
LeaseCap == Lease + TaskLimit + 1   \* no comparison tells older leases apart

TypeOK ==
  /\ status \in [Run -> Status]
  /\ touched \in [Run -> 0 .. Recovery + 1]
  /\ owner \in Run \cup {NoOwner}
  /\ leaseAge \in 0 .. LeaseCap
  /\ publishing \in BOOLEAN
  /\ pc \in [Proc -> Point]
  /\ job \in [Proc -> Run \cup {NoOwner}]
  /\ age \in [Proc -> 0 .. TaskLimit]
  /\ msgs \subseteq Run
  /\ stage \in [Run -> {"open", "sent", "unsure", "failed", "lost"}]
  /\ began \subseteq Run
  /\ faults \in 0 .. MaxFaults

-----------------------------------------------------------------------------
Members(h) == {r \in Run : Head[r] = h}

\* The rest of a Celery chain: the run whose message follows that of r, if any.
Successor(r) ==
  {s \in Members(Head[r]) : s > r /\ \A t \in Members(Head[r]) : t > r => s <= t}

\* Faulty: looks for a predecessor that is RUNNING instead of QUEUED.
EarlierRunning(r) ==
  {q \in Run : Kind[q] = "scheduled" /\ q < r /\ status[q] = "RUNNING"}

\* The scheduled runs that must go first: still QUEUED and created before r.
Earlier(r) == {q \in Run : Kind[q] = "scheduled" /\ q < r /\ status[q] = "QUEUED"}

\* Faulty: expires_at <= lease_now, and no allowance for a late transaction.
LeaseFreeEarly(a) == owner = NoOwner \/ leaseAge >= Lease

\* Faulty: a lease that only its owner gives back.
LeaseNeverExpires(a) == owner = NoOwner

\* acquire's upsert succeeds for a transaction that started a ago: no row, or
\* expires_at < lease_now, where lease_now is the start of that transaction.
LeaseFree(a) == owner = NoOwner \/ leaseAge > Lease + a

\* Faulty: the claim without its WHERE status = 'QUEUED'.
ClaimableAlways(r) == TRUE

\* The WHERE clause of the claim: legacy jobs set RUNNING whatever the row says.
Claimable(r) == Kind[r] = "legacy" \/ status[r] = "QUEUED"

\* Faulty: recovery without the age, and no recovery at all.
StuckAnyAge == {r \in Run : status[r] = "RUNNING"}
StuckNever == {}

\* Runs the recovery gives up: RUNNING, updated_at more than Recovery ago.
Stuck == {r \in Run : status[r] = "RUNNING" /\ touched[r] > Recovery}

\* Only the five primary jobs check for earlier runs before the lease.
FirstPoint(r) == IF Kind[r] = "scheduled" THEN "read" ELSE "turn"

Set(S, s) ==
  /\ status' = [r \in Run |-> IF r \in S THEN s ELSE status[r]]
  /\ touched' = [r \in Run |-> IF r \in S THEN 0 ELSE touched[r]]

Enter(p, r) ==
  /\ pc' = [pc EXCEPT ![p] = FirstPoint(r)]
  /\ job' = [job EXCEPT ![p] = r]
  /\ age' = [age EXCEPT ![p] = 0]

Leave(p) ==
  /\ pc' = [pc EXCEPT ![p] = "idle"]
  /\ job' = [job EXCEPT ![p] = NoOwner]
  /\ age' = [age EXCEPT ![p] = 0]

\* Faulty: a run that ends deletes the lock row, whoever owns it.
ReleaseAny(r) == owner' = NoOwner /\ leaseAge' = 0

\* delete(JobLock).where(owner == run.id)
Release(r) ==
  /\ owner' = IF owner = r THEN NoOwner ELSE owner
  /\ leaseAge' = IF owner = r THEN 0 ELSE leaseAge

Fault(f) == f \in Faults /\ faults < MaxFaults /\ faults' = faults + 1

\* The task of r succeeded: Celery sends the next message of the chain.
Forward(r) == msgs' = msgs \cup Successor(r)

-----------------------------------------------------------------------------
(* Producers *)

Init ==
  /\ status = [r \in Run |-> "absent"]
  /\ touched = [r \in Run |-> 0]
  /\ owner = NoOwner
  /\ leaseAge = 0
  /\ publishing = FALSE
  /\ pc = [p \in Proc |-> "idle"]
  /\ job = [p \in Proc |-> NoOwner]
  /\ age = [p \in Proc |-> 0]
  /\ msgs = {}
  /\ stage = [h \in Run |-> "open"]
  /\ began = {}
  /\ faults = 0

\* claim_due commits all the due slots together; every other producer commits
\* one create_run at a time, so those of two producers interleave.
Inserted(r) == IF Via[r] = "tick" THEN Members(Head[r]) ELSE {r}

Create(r) ==
  /\ status[r] = "absent" /\ stage[Head[r]] = "open"
  /\ \A q \in Run : status[q] # "absent" => \A s \in Inserted(r) : q < s
  /\ Set(Inserted(r), "QUEUED")
  /\ UNCHANGED <<lock, publishing, procs, msgs, stage, began, faults>>

AllCreated(h) ==
  /\ Members(h) # {} /\ stage[h] = "open"
  /\ \A r \in Members(h) : Via[r] # "cli" /\ status[r] # "absent"

Publish(h) ==
  /\ AllCreated(h)
  /\ msgs' = msgs \cup {h}
  /\ stage' = [stage EXCEPT ![h] = "sent"]
  /\ UNCHANGED <<rows, lock, publishing, procs, began, faults>>

\* apply_async raises: the broker was not reached, or has taken the message and
\* only its answer is lost.
PublishFails(h) ==
  /\ AllCreated(h)
  /\ Fault("publish")
  /\ msgs' \in {msgs, msgs \cup {h}}
  /\ stage' = [stage EXCEPT ![h] = "unsure"]
  /\ UNCHANGED <<rows, lock, publishing, procs, began>>

\* The runs a producer marks FAILED / QUEUE_UNAVAILABLE: results_history has
\* no handler around apply_async, so its runs stay as they are.
Disowned(h) == {r \in Members(h) : Via[r] # "history"}

\* The producer's handler writes FAILED over whatever its rows say by then.
Disown(h) ==
  /\ stage[h] = "unsure"
  /\ Set(Disowned(h), "FAILED")
  /\ stage' = [stage EXCEPT ![h] = "failed"]
  /\ UNCHANGED <<lock, publishing, procs, msgs, began, faults>>

ProducerCrash(h) ==
  /\ stage[h] = "open" /\ \E r \in Members(h) : status[r] # "absent"
  /\ Fault("producer")
  /\ stage' = [stage EXCEPT ![h] = "lost"]
  /\ UNCHANGED <<rows, lock, publishing, procs, msgs, began>>

\* bhavcopy_cli calls run_job on the row it has just inserted; its session
\* still says QUEUED, so only the claim can notice a cancellation.
StartCli(p, r) ==
  /\ p \in Cli /\ pc[p] = "idle"
  /\ Via[r] = "cli" /\ status[r] # "absent" /\ stage[Head[r]] = "open"
  /\ Enter(p, r)
  /\ stage' = [stage EXCEPT ![Head[r]] = "sent"]
  /\ UNCHANGED <<rows, lock, publishing, msgs, began, faults>>

-----------------------------------------------------------------------------
(* Workers *)

\* market_job reads the row: QUEUED, so run_job goes on.
Deliver(w, r) ==
  /\ w \in Worker /\ pc[w] = "idle" /\ r \in msgs /\ status[r] = "QUEUED"
  /\ Enter(w, r)
  /\ msgs' = msgs \ {r}
  /\ UNCHANGED <<rows, lock, publishing, stage, began, faults>>

\* ... or not QUEUED: the task returns at once, which is a success.
Discard(w, r) ==
  /\ w \in Worker /\ pc[w] = "idle" /\ r \in msgs /\ status[r] # "QUEUED"
  /\ msgs' = (msgs \ {r}) \cup Successor(r)
  /\ UNCHANGED <<rows, lock, publishing, procs, stage, began, faults>>

\* WAITING_FOR_PREVIOUS_JOB: the row stays QUEUED and the task retries itself
\* in 15 seconds; the message is lost when that publication fails.
Wait(p) ==
  /\ touched' = [touched EXCEPT ![job[p]] = 0]
  /\ Leave(p)
  /\ \/ msgs' = msgs \cup {job[p]} /\ UNCHANGED faults
     \/ Fault("retry") /\ UNCHANGED msgs
  /\ UNCHANGED <<status, lock, publishing, stage, began>>

WaitForEarlier(p) ==
  /\ pc[p] = "read" /\ Earlier(job[p]) # {}
  /\ Wait(p)

TakeTurn(p) ==
  /\ pc[p] = "read" /\ Earlier(job[p]) = {}
  /\ pc' = [pc EXCEPT ![p] = "turn"]
  /\ UNCHANGED <<rows, lock, publishing, job, age, msgs, stage, began, faults>>

\* acquire waits for the uncommitted lock row of a publication.
Acquiring(p) == pc[p] = "turn" /\ ~publishing

\* acquire and the QUEUED -> RUNNING update commit together.
Claim(p) ==
  /\ Acquiring(p) /\ LeaseFree(age[p]) /\ Claimable(job[p])
  /\ Set({job[p]}, "RUNNING")
  /\ owner' = job[p] /\ leaseAge' = age[p]
  /\ pc' = [pc EXCEPT ![p] = "working"]
  /\ began' = began \cup {job[p]}
  /\ UNCHANGED <<publishing, job, age, msgs, stage, faults>>

\* Cancelled (or run by a duplicate) since it was read: give the lease back.
ClaimRefused(p) ==
  /\ Acquiring(p) /\ LeaseFree(age[p]) /\ ~Claimable(job[p])
  /\ owner' = NoOwner /\ leaseAge' = 0
  /\ Leave(p) /\ Forward(job[p])
  /\ UNCHANGED <<rows, publishing, stage, began, faults>>

WaitForLease(p) ==
  /\ Acquiring(p) /\ ~LeaseFree(age[p]) /\ Kind[job[p]] = "scheduled"
  /\ Wait(p)

\* The other jobs do not wait; SKIPPED overwrites whatever the row says.
Skip(p) ==
  /\ Acquiring(p) /\ ~LeaseFree(age[p]) /\ Kind[job[p]] # "scheduled"
  /\ Set({job[p]}, "SKIPPED")
  /\ Leave(p) /\ Forward(job[p])
  /\ UNCHANGED <<lock, publishing, stage, began, faults>>

\* The outcome, the release and the data commit together.  commit_with_
\* invalidation may still raise after the commit ("late"): the task then fails.
Finish(p) ==
  /\ pc[p] = "working" /\ ~(publishing /\ owner = job[p])
  /\ \E s \in Outcome : Set({job[p]}, s)
  /\ Release(job[p])
  /\ Leave(p)
  /\ \/ Forward(job[p]) /\ UNCHANGED faults
     \/ Fault("late") /\ UNCHANGED msgs
  /\ UNCHANGED <<publishing, stage, began>>

\* An exception ends the task with its transaction rolled back: a commit
\* refused by the cache lock, a lost database connection.  The row and the
\* lease stay, the message is acknowledged and the chain is abandoned.
TaskFails(p) ==
  /\ pc[p] # "idle"
  /\ Fault("task")
  /\ Leave(p)
  /\ UNCHANGED <<rows, lock, publishing, msgs, stage, began>>

\* The time limits end a task in the same way.
TimeLimit(w) ==
  /\ w \in Worker /\ pc[w] # "idle" /\ age[w] >= SoftLimit
  /\ Leave(w)
  /\ UNCHANGED <<rows, lock, publishing, msgs, stage, began, faults>>

\* The process dies: task_reject_on_worker_lost puts the message back.
WorkerLost(w) ==
  /\ w \in Worker /\ pc[w] # "idle"
  /\ Fault("lost")
  /\ Leave(w)
  /\ msgs' = msgs \cup {job[w]}
  /\ UNCHANGED <<rows, lock, publishing, stage, began>>

\* The broker connection is lost: the unacknowledged message is delivered
\* again although the task is still running.
Redeliver(w) ==
  /\ w \in Worker /\ pc[w] # "idle"
  /\ Fault("duplicate")
  /\ msgs' = msgs \cup {job[w]}
  /\ UNCHANGED <<rows, lock, publishing, procs, stage, began>>

-----------------------------------------------------------------------------
(* Administrators, recovery and time *)

Cancel(r) ==
  /\ status[r] = "QUEUED"
  /\ Set({r}, "CANCELLED")
  /\ UNCHANGED <<lock, publishing, procs, msgs, stage, began, faults>>

\* claim_due and the admin overview run the same update.
Recover ==
  /\ Stuck # {}
  /\ Set(Stuck, "FAILED")
  /\ UNCHANGED <<lock, publishing, procs, msgs, stage, began, faults>>

\* result_routes.publish: acquire, publication and release are one
\* transaction, which holds the lock row until it ends.
BeginPublication ==
  /\ ~publishing /\ LeaseFree(0)
  /\ publishing' = TRUE
  /\ UNCHANGED <<rows, lock, procs, msgs, stage, began, faults>>

EndPublication ==
  /\ publishing /\ publishing' = FALSE
  /\ \/ owner' = NoOwner /\ leaseAge' = 0      \* commit
     \/ UNCHANGED lock                         \* rollback
  /\ UNCHANGED <<rows, procs, msgs, stage, began, faults>>

Least(a, b) == IF a <= b THEN a ELSE b

\* Time passes only while no task has reached its limit, nor a process the
\* bound on the statements before its claim.
Tick ==
  /\ \A w \in Worker : pc[w] # "idle" => age[w] < TaskLimit
  /\ \A p \in Proc : pc[p] \in {"read", "turn"} => age[p] < StatementLimit
  /\ age' = [p \in Proc |->
        IF pc[p] = "idle" THEN 0 ELSE Least(age[p] + 1, TaskLimit)]
  /\ leaseAge' = IF owner = NoOwner THEN 0 ELSE Least(leaseAge + 1, LeaseCap)
  /\ touched' = [r \in Run |->
        IF status[r] = "RUNNING" THEN Least(touched[r] + 1, Recovery + 1) ELSE 0]
  /\ UNCHANGED <<status, owner, publishing, pc, job, msgs, stage, began, faults>>

Attempt(p) ==
  \/ Claim(p) \/ ClaimRefused(p) \/ WaitForLease(p) \/ Skip(p)

Next ==
  \/ \E r \in Run :
        Create(r) \/ Publish(r) \/ PublishFails(r) \/ Disown(r) \/ ProducerCrash(r)
  \/ \E p \in Proc, r \in Run : StartCli(p, r) \/ Deliver(p, r) \/ Discard(p, r)
  \/ \E p \in Proc :
        \/ WaitForEarlier(p) \/ TakeTurn(p) \/ Attempt(p) \/ Finish(p)
        \/ TaskFails(p) \/ TimeLimit(p) \/ WorkerLost(p) \/ Redeliver(p)
  \/ \E r \in Run : Cancel(r)
  \/ Recover \/ BeginPublication \/ EndPublication \/ Tick

Spec == Init /\ [][Next]_vars

\* What the deployment keeps doing: beat runs the recovery every minute, an
\* open producer sends, a worker goes on, a transaction ends.  Strong where a
\* step is enabled again and again: time passes although tasks retry (each
\* retry takes 15 seconds), the broker is a list, so no message is overtaken
\* for ever, and PostgreSQL queues the waiters of a row lock.
Fairness ==
  /\ SF_vars(Tick) /\ WF_vars(Recover) /\ WF_vars(EndPublication)
  /\ \A h \in Run : WF_vars(Publish(h))
  /\ \A r \in Run : SF_vars(\E w \in Worker : Deliver(w, r) \/ Discard(w, r))
  /\ \A p \in Proc :
        /\ WF_vars(WaitForEarlier(p) \/ TakeTurn(p))
        /\ SF_vars(Attempt(p))
        /\ WF_vars(Finish(p) \/ TimeLimit(p))

FairSpec == Spec /\ Fairness
-----------------------------------------------------------------------------
(* Properties *)

Writing(P) == {p \in P : pc[p] = "working"}

\* At most one process under a time limit is writing, and none while an admin
\* publication is open: what the lease of acquire is for (market.py:523), and
\* what task_time_limit < lease (tasks.py:24) must give in spite of crashes,
\* duplicates and leases left behind.
SingleWriter ==
  /\ \A v, w \in Writing(Worker) : v = w
  /\ publishing => Writing(Worker) = {}

\* The producer of r has reported r as not sent.
Reported(r) == r \in Disowned(Head[r]) /\ stage[Head[r]] = "failed"

\* While a scheduled run is being written by a live worker its row says
\* RUNNING: neither the recovery, nor a cancellation, nor a duplicate delivery
\* may take it over (scheduling.py:16, job_routes.py:145).  The one exception is
\* a producer that the broker gave no answer: its FAILED stands over the run.
LiveRunIsRunning ==
  \A w \in Writing(Worker) :
    Kind[job[w]] = "scheduled" =>
      \/ status[job[w]] = "RUNNING"
      \/ status[job[w]] = "FAILED" /\ Reported(job[w])

\* FIFO across chains, manual runs and duplicates: no scheduled run starts
\* while one created before it is QUEUED, although the check and the claim
\* are separate statements (exchange_pipeline.py:692 and 718).
StartsInOrder ==
  [][\A r \in Run :
        (Kind[r] = "scheduled" /\ status[r] = "QUEUED" /\ status'[r] = "RUNNING")
          => ~ \E q \in Run : Kind[q] = "scheduled" /\ q < r /\ status[q] = "QUEUED"]_vars

\* However often its message is delivered, a run other than a legacy job is
\* started at most once (the claim's WHERE status = 'QUEUED').
StartedOnce ==
  [][\A p \in Proc :
        (pc[p] # "working" /\ pc'[p] = "working" /\ Kind[job[p]] # "legacy")
          => job[p] \notin began]_vars

\* The outcome of a scheduled run stands: it never runs again, and what was
\* imported is never reported as failed, skipped or cancelled afterwards, but by
\* its own producer, once, whose broker took the message and did not say so.
OutcomeStands ==
  [][\A r \in Run : Kind[r] = "scheduled" /\ status[r] \in Terminal =>
        /\ status'[r] \in Terminal
        /\ status[r] \in {"SUCCESS", "PARTIAL"} =>
             \/ status'[r] = status[r]
             \/ status'[r] = "FAILED" /\ ~Reported(r) /\ Reported(r)']_vars

\* A run does not wait for ever: with dead workers, leases left behind and
\* publications in its way it starts, or is cancelled or failed.
QueuedRunsLeaveTheQueue ==
  \A r \in Run : Kind[r] = "scheduled" /\ status[r] = "QUEUED" ~> status[r] # "QUEUED"

\* A started run ends, whatever happened to its worker (the 10-minute update
\* of claim_due and overview).
StartedRunsEnd ==
  \A r \in Run : status[r] = "RUNNING" ~> status[r] \in Terminal

=============================================================================
