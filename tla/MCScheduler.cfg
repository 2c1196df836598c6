SPECIFICATION Spec
CONSTANTS
  Job <- Jobs
  Scans = {"results"}
  Prices = {"prices"}
  defaultTime <- Defaults
  Saved <- SavedSchedules
  None = None
  Days = 2
  Hours = 2
  Minutes = 2
  MaxNow = 8
INVARIANTS NextRunIsNextDue TimesAgree
