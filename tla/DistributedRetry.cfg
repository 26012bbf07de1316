SPECIFICATION Spec
CONSTANTS
  p1 = p1
  p2 = p2
  NoPayment = none
  Reader = {}
  Payment <- MCPayments
  Amount <- MCAmount
  InitialBalance = 4
  Key <- MCSameKey
  Fingerprint <- MCPrint
  Fault <- MCAccountFault
  MaxResets = 1
INVARIANT
  ChargedOncePerKey
CHECK_DEADLOCK FALSE
