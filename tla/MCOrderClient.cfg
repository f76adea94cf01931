\* A replacement of an order of the account and a cancel aimed at another one.
CONSTANTS
  c1 = c1  c2 = c2  o1 = o1  o2 = o2  a1 = a1  a2 = a2
  NoAccount = NoAccount
  Calls = {c1, c2}
  Orders = {o1, o2}
  Accounts = {a1, a2}
  Kind <- ReplaceAndCancel
  Account <- MCAccount
  Target <- MCTarget
  Owner <- MCOwner
  Nameless = {o1}
  Replies <- MCReplies
  MaxAttempts = 2
SPECIFICATION FairSpec
INVARIANTS TypeOK WriteAtMostOnce NoFalseFailure NoFalseConfirmation
           AccountScopedWrites RetryBudget
PROPERTIES KeepsPromise EveryCallReturns
