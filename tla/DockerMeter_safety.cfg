SPECIFICATION Spec
CONSTANTS
  Services = {s1}
  Core = {}
  Users = {u1, u2}
  Nobody = nobody
  Tickers = {k1, k2}
  Api = api
  Words = {"Up", "running"}
  Credits = 1
  Allowance = 1
  MaxAge = 2
  MaxRequests = 2
SYMMETRY TickerSymmetry
INVARIANTS
  TypeOK
  ChargedOnce
  UnitsAccounted
CHECK_DEADLOCK FALSE
