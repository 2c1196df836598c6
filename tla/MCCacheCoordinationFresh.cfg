\* Two readers, two writers, one fault of Redis, the database or a process; a
\* writer may take longer than its lock and its marker live.
SPECIFICATION Spec
CONSTANTS
  Reader = {r1, r2}
  Writer = {w1, w2}
  NoOne = NoOne
  LockLife = 2
  DirtyLife = 2
  Ttl = 1
  CommitLimit = 2
  LoadLimit = 1
  MaxVersion = 2
  MaxFaults = 1
SYMMETRY Symmetry
INVARIANTS
  FreshReads
  SerialCommits
  MarkerOutlivesOldEntries
  StaleIsBounded
