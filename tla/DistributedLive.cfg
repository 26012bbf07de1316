SPECIFICATION FairSpec
CONSTANTS
  p1 = p1
  p2 = p2
  NoPayment = none
  Reader = {r1}
  Payment <- MCOnePayment
  Amount <- MCAmount
  InitialBalance = 3
  Key <- MCOwnKey
  Fingerprint <- MCPrint
  Fault <- MCNoFault
  MaxResets = 0
CHECK_DEADLOCK FALSE
PROPERTIES
  FrozenFundsAreSettled
  PreparedConverges
