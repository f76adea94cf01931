SPECIFICATION LoginSpec
CONSTANTS
  c1 = c1
  c2 = c2
  l1 = l1
  m1 = m1
  m2 = m2
  Nobody = Nobody
  Calls <- MCCalls
  Logins <- MCLogins
  Managers <- MCManagers
  Settings <- CancelledSettings
  MaxExpired = 2
INVARIANT
  RotatedTokenStored
\* Every task may have ended.
CHECK_DEADLOCK FALSE
