\* An order placed while a read is retried, under any reply, and its recovery.
CONSTANTS
  c1 = c1  c2 = c2  o1 = o1  o2 = o2  a1 = a1  a2 = a2
  ours = ours  twin = twin 
  NoAccount = NoAccount
  Calls = {c1, c2}
  Orders = {o1, o2}
  Accounts = {a1, a2}
  Kind <- ReadAndPlace
  Account <- MCAccount
  Target <- MCTarget
  Owner <- MCOwner
  Nameless = {}
  Replies <- HostileReplies
  MaxAttempts = 2
  Lost = c2
  Ours = ours
  Rivals = {twin}
  Row <- MCRow
  MaxOrderPages = 2
SPECIFICATION FairRecoverySpec
INVARIANTS WriteAtMostOnce NoFalseConfirmation
           RecoveryTypeOK NoMatchMeansNotYet ExactMatchIsOurs
PROPERTY ListingEnds
