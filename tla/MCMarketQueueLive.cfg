\* Liveness: a tick's run, a manual run and a CLI process, workers that die or fail while writing.
SPECIFICATION FairSpec
CONSTANTS
  Run <- ThreeRuns
  Kind <- MixedKind
  Via <- MixedVia
  Head <- MixedHead
  Worker = {w1}
  Cli = {c1}
  SoftLimit = 2
  TaskLimit = 2
  StatementLimit = 1
  Lease = 2
  Recovery = 2
  Faults = {"lost", "late"}
  MaxFaults = 1
INVARIANTS
  SingleWriter
PROPERTIES
  QueuedRunsLeaveTheQueue
  StartedRunsEnd
