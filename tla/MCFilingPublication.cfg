\* Three filings at a time, of six; a batch of two, one fault.
SPECIFICATION FairSpec
CONSTANTS
  Filing = {"first", "revised", "other", "late", "last", "listed"}
  exchangeOf <- Exchanges
  date <- Dates
  docs <- Documents
  uploads <- Uploads
  Ways <- AllWays
  Facts = {"x", "y"}
  Batch = 2
  MaxFaults = 1
CHECK_DEADLOCK FALSE
INVARIANTS
  RevisionsAscend
  PublishedIsKept
PROPERTIES
  FilingsAreTried
  ImplementsRevisionHistory
