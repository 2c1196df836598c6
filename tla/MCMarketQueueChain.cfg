\* Finding: a time limit ends a chain and its successors block the queue.
SPECIFICATION FairSpec
CONSTANTS
  Run <- ThreeRuns
  Kind <- AllScheduled
  Via <- TickVia
  Head <- TickHead
  Worker = {w1, w2}
  Cli = {}
  SoftLimit = 2
  TaskLimit = 2
  StatementLimit = 1
  Lease = 2
  Recovery = 2
  Faults = {}
  MaxFaults = 0
PROPERTIES
  QueuedRunsLeaveTheQueue
