\* A history chain 1 -> 3 around a tick's run 2; any two faults.
SPECIFICATION Spec
CONSTANTS
  Run <- ThreeRuns
  Kind <- AllScheduled
  Via <- HistoryVia
  Head <- HistoryHead
  Worker = {w1, w2}
  Cli = {}
  SoftLimit = 1
  TaskLimit = 2
  StatementLimit = 2
  Lease = 2
  Recovery = 2
  Faults = {"publish", "producer", "retry", "task", "lost", "duplicate", "late"}
  MaxFaults = 2
SYMMETRY Symmetry
INVARIANTS
  SingleWriter
  LiveRunIsRunning
  IInv
PROPERTIES
  StartsInOrder
  StartedOnce
  OutcomeStands
  ImplementsSerialWriter
