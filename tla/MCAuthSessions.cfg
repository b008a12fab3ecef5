SPECIFICATION AuthSpec
CONSTANTS
  c1 = c1
  c2 = c2
  p1 = p1
  p2 = p2
  Clients <- MCClients
  Passwords <- MCPasswords
  MaxAttempts = 2
  LockTicks = 1
  AccessTicks = 1
  RefreshTicks = 1
  EvictAbove = 1
  MaxTime = 2
  MaxSessions = 2
  MaxCrashes = 1
SYMMETRY MCSymmetry
INVARIANT LockReached
INVARIANT LoggedOutStaysOut
INVARIANT OneTokenPerFamily
CHECK_DEADLOCK FALSE
