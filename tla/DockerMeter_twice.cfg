SPECIFICATION Spec
CONSTANTS
  Services = {s1}
  Core = {}
  Users = {u1}
  Nobody = nobody
  Tickers = {k1}
  Api = api
  Words = {"running"}
  Credits = 1
  Allowance = 1
  MaxAge = 2
  MaxRequests = 3
INVARIANTS
  ChargedWithinRun
CHECK_DEADLOCK FALSE
