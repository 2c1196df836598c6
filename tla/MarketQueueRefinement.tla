----------------------- MODULE MarketQueueRefinement -----------------------
(***************************************************************************)
(* MarketQueue implements SerialWriter as long as every job claims its row *)
(* with the QUEUED -> RUNNING update (no legacy job) and every process has *)
(* a time limit (no CLI).  A run is active while a live worker writes it:  *)
(* a row left RUNNING by a dead worker is already over.                    *)
(***************************************************************************)
EXTENDS MarketQueueInvariant

ScheduledRun == {r \in Run : Kind[r] = "scheduled"}

Active(r) == \E w \in Worker : pc[w] = "working" /\ job[w] = r

phaseOf ==
  [r \in Run |->
     IF status[r] = "absent" THEN "absent"
     ELSE IF Active(r) THEN "active"
     ELSE IF status[r] = "QUEUED" THEN "waiting" ELSE "over"]

Abstract ==
  INSTANCE SerialWriter
  WITH Ordered <- ScheduledRun, phase <- phaseOf, publication <- publishing

\* Leases, duplicates, crashes, retries, recoveries and broker messages are
\* invisible: whatever they do, the runs behave as one serial, ordered writer
\* (run_pipeline, acquire, claim_due and result_routes.publish together).
ImplementsSerialWriter == Abstract!Spec
=============================================================================
