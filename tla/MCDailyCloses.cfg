\* One company on both exchanges, two days, two prices, three files.
SPECIFICATION Spec
CONSTANTS
  Company = {c1}
  Isin <- Securities
  Symbol <- Securities
  isinOf <- IsAcme
  symbolOf <- IsAcme
  Exchange = {"NSE", "BSE"}
  Days = 2
  Price = {p1, p2}
  File = {f1, f2}
  None = None
CHECK_DEADLOCK FALSE
SYMMETRY Symmetry
INVARIANTS
  OriginalsExist
  SummaryIsLatest
PROPERTIES
  HistoryIsKept
