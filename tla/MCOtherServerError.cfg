\* A 5xx other than 500, 502, 503, 504 answers an order write.
CONSTANTS
  c1 = c1  c2 = c2  o1 = o1  o2 = o2  a1 = a1  a2 = a2
  NoAccount = NoAccount
  Calls = {c1, c2}
  Orders = {o1, o2}
  Accounts = {a1, a2}
  Kind <- PlaceAndCancel
  Account <- MCAccount
  Target <- MCTarget
  Owner <- MCOwner
  Nameless = {}
  Replies <- MCOtherServerError
  MaxAttempts = 2
SPECIFICATION Spec
INVARIANT NoFalseFailure
