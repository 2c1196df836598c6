----------------------- MODULE MarketQueueInvariant -----------------------
(***************************************************************************)
(* The inductive invariant of MarketQueue.  None of the properties of the  *)
(* queue is inductive: each needs to know how the lease, the clocks, the   *)
(* messages and the rows hang together.  The parts say that, one each.     *)
(***************************************************************************)
EXTENDS MarketQueue

Busy(p) == pc[p] # "idle"

\* A process is at work on one run of the right kind, a row that exists.
JobInv ==
  \A p \in Proc :
    /\ Busy(p) <=> job[p] # NoOwner
    /\ Busy(p) => /\ status[job[p]] # "absent"
                  /\ Via[job[p]] = "cli" <=> p \in Cli
    /\ pc[p] = "read" => Kind[job[p]] = "scheduled"

\* The producer of r has asked the broker, whatever it was told.
Sent(r) == stage[Head[r]] \in {"sent", "unsure", "failed"}

\* What is in the broker or in a worker was sent by a producer that has all its
\* rows committed.
SentInv ==
  /\ \A r \in msgs : Via[r] # "cli" /\ Sent(r) /\ status[r] # "absent"
  /\ \A p \in Proc : Busy(p) => Sent(job[p])
  /\ \A r \in began : Sent(r)
  /\ \A r \in Run : Sent(r) => \A s \in Members(Head[r]) : status[s] # "absent"

\* The lease of a live worker is its own and as old as the task, hence it has
\* not expired for any transaction; a publication excludes live workers.
LeaseInv ==
  /\ \A w \in Worker : pc[w] = "working" => owner = job[w] /\ leaseAge = age[w]
  /\ \A v, w \in Worker : pc[v] = "working" /\ pc[w] = "working" => v = w
  /\ publishing => \A w \in Worker : pc[w] # "working"

\* The row of a live scheduled run is RUNNING and too young to be given up,
\* unless its own producer has reported it.
RowInv ==
  \A w \in Worker :
    pc[w] = "working" /\ Kind[job[w]] = "scheduled" =>
      \/ status[job[w]] = "RUNNING" /\ touched[job[w]] <= age[w]
      \/ status[job[w]] = "FAILED" /\ Reported(job[w])

\* Once a scheduled run has its turn, no run before it can become QUEUED.
TurnInv ==
  \A p \in Proc : \A q \in Run :
    pc[p] = "turn" /\ Kind[job[p]] = "scheduled" /\ Kind[q] = "scheduled" /\ q < job[p]
      => status[q] # "QUEUED"

\* A run that was started, and any run reported as imported, is not QUEUED.
BeganInv ==
  /\ \A r \in began : Kind[r] # "legacy" => status[r] \notin {"absent", "QUEUED"}
  /\ \A r \in Run : status[r] \in {"SUCCESS", "PARTIAL"} => r \in began
  /\ \A p \in Proc : pc[p] = "working" => job[p] \in began

\* The conjunction, inductive together with the type invariant.
IInv == JobInv /\ SentInv /\ LeaseInv /\ RowInv /\ TurnInv /\ BeganInv
=============================================================================
