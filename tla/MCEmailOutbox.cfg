\* One test mail, two processes, two faults.
SPECIFICATION FairSpec
CONSTANTS
  ann = ann
  Delivery <- OneRow
  Kind <- OneTest
  Recipient <- ToAnn
  Subscriber = {ann}
  Dispatcher = {w1, w2}
  NoOne = NoOne
  Batch = 1
  MaxTries = 2
  TickLimit = 1
  Lease = 1
  Stale = 1
  Faults = {"timeout", "tick", "killed"}
  MaxFaults = 2
INVARIANTS
  OneDispatcher
  AcceptedAtMostOnce
  QueuedIsUnsent
  IInv
PROPERTIES
  FeedbackStands
  SendsAreReconciled
  TestsAreDecided
