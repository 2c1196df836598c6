SPECIFICATION FairSpec
CONSTANTS
  Provider <- Providers
  idOf <- Ids
  Named = {"BSE", "IPOWEB"}
  Web = {"IPOWEB"}
  Pages = {"NSE", "BSE", "IPOWEB"}
  Consolidated = {"NSE_CONSOLIDATED"}
  Lagging = {"NSE_CONSOLIDATED"}
  Feed <- Observed
  opens = 0
  closes = 0
  Batch = 1
  Ticks = 2
  MaxNow = 3
  MaxRows = 3
INVARIANTS DayIsOfItsSource NseCloseStands
PROPERTIES ListedStaysListed NewerReplaces StagedIsDecided
