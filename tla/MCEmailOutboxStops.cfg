\* An alert and a confirmation for one subscriber, so that every stop concerns both.
SPECIFICATION Spec
CONSTANTS
  ann = ann
  Delivery <- TwoRows
  Kind <- AlertAndVerify
  Recipient <- ToAnn
  Subscriber = {ann}
  Dispatcher = {w1}
  NoOne = NoOne
  Batch = 2
  MaxTries = 1
  TickLimit = 1
  Lease = 1
  Stale = 1
  Faults = {"timeout", "tick", "killed"}
  MaxFaults = 1
INVARIANTS
  StopIsPrompt
