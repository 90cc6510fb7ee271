\* Two processes; two runs, each with either of two receipts; a crash, an overrun.
CONSTANTS
  r1 = r1  r2 = r2  c1 = c1  c2 = c2
  Runs = {r1, r2}
  Items = {i1}
  Workers = {w1, w2}
  Receipts = {c1, c2}
  Reserve <- ReserveOf
  DailyCap <- CapOf
  Expiry <- ExpiryOf
  Window = 1
  Costs = {1, 3}
  MaxTime = 2
  MaxFailures = 1
  NoRun = NoRun  NoItem = NoItem  NoUsage = NoUsage
SPECIFICATION Spec
\* At the last tick a run whose receipt expired before its submission can do nothing.
CHECK_DEADLOCK FALSE
SYMMETRY WorkerSymmetry
INVARIANTS
  TypeOK
  SpendIsAuthorised
  OneProcessPastTheGate
  CeilingHolds
  ReceiptsMatchLedger
PROPERTIES
  LedgerIsSettledOnce
