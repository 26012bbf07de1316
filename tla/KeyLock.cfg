SPECIFICATION FairSpec
CONSTANTS
  c1 = c1
  c2 = c2
  c3 = c3
  c4 = c4
  k1 = k1
  k2 = k2
  Caller = {c1, c2, c3, c4}
  Key <- MCKey
  Entry = {e1, e2, e3, e4}
  None = none
INVARIANTS
  TypeOK
  OneWorkflowPerKey
  MapHoldsKeysInUse
PROPERTIES
  EveryWaiterEnters
  ImplementsKeyMutex
