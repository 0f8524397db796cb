CONSTANTS
  Key = {k1, k2, k3, k4, k5}
  MaxPerWindow = 1
  GlobalMaxPerWindow = 2
  WindowMs = 2
  MaxKeyCount = 1
  None = None
  MaxTime = 5
  MaxEvents = 6
  Identity = {checked, wrapped, told}
  Caller = {c1, c2}
  Guarded = {checked, wrapped}
  Wrapped = {wrapped}
  Kept <- MCKept
  MintBound = 1
  Nothing = Nothing
  NoEntry = NoEntry
  MaxClock = 4
  checked = checked
  wrapped = wrapped
  told = told
SPECIFICATION KeptSpec
SYMMETRY Symmetry
INVARIANTS
  KeepsToLimits
  MapIsBounded
  GoodCredentials
PROPERTIES
  KeepsAllowances
  NoMintCosts
CHECK_DEADLOCK FALSE
