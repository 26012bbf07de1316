SPECIFICATION Spec
CONSTANTS
  p1 = p1
  p2 = p2
  NoPayment = none
  Reader = {}
  Payment <- MCOnePayment
  Amount <- MCAmount
  InitialBalance = 3
  Key <- MCOwnKey
  Fingerprint <- MCPrint
  Fault <- MCNoFault
  MaxResets = 1
CHECK_DEADLOCK FALSE
PROPERTY
  ResetSparesActivePayments
