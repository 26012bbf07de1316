SPECIFICATION Spec
CONSTANTS
  p1 = p1
  p2 = p2
  NoPayment = none
  Reader = {}
  Payment <- MCPayments
  Amount <- MCAmount
  InitialBalance = 3
  Key <- MCOwnKey
  Fingerprint <- MCPrint
  Fault <- MCLedgerFault
  MaxResets = 0
INVARIANT
  FundsConserved
CHECK_DEADLOCK FALSE
PROPERTY
  ImplementsContract
