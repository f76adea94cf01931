\* One caller and two orders.
SPECIFICATION Spec
CONSTANTS
  a1 = a1
  a2 = a2
  Callers = {c1}
  Ids = {1, 2}
  NoOrder = NoOrder
  NoCall = NoCall
  NoAccount = NoAccount
  Nameless = {1}
  Configs <- MCConfigs
  Submissions <- MCSubmissions
  Changes <- MCChanges
  OrderChanges <- MCOrderChanges
INVARIANTS TypeOK LivePermitted NotionalBounded
PROPERTY KillSwitchStops
