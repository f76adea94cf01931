SPECIFICATION FairLoginSpec
CONSTANTS
  c1 = c1
  c2 = c2
  l1 = l1
  m1 = m1
  m2 = m2
  Nobody = Nobody
  Calls <- MCCalls
  Logins <- MCLogins
  Managers <- MCManagers
  Settings <- MCSettings
  MaxExpired = 1
INVARIANTS
  LoginTypeOK
  NoRefreshRefused
  StoredTokenUsable
  LoginKept
  RejectedTokenDropped
  TokenFreshWhenAsked
  ToldMeansLoggedIn
PROPERTY
  EveryTaskEnds
\* Every task may have ended.
CHECK_DEADLOCK FALSE
