SPECIFICATION Spec
CONSTANTS
  p1 = p1
  p2 = p2
  p3 = p3
  e1 = e1
  e2 = e2
  own = own
  Payment = {p1, p2}
  Amount <- MCAmount
  InitialBalance = 3
  Key <- MCOwnKey
  Fingerprint <- MCPrint
  EventId = {e1, e2, own}
  Fault <- MCOneFault
  AutoConfirm = {p2}
  Channel <- MCChannel
  OwnEvent <- MCOwnEvent
INVARIANTS
  TypeOK
  FundsConserved
  ChargedAsDecided
  JournalTellsStatus
  NoneHalfway
PROPERTIES
  FinalForEver
  ImplementsContract
CHECK_DEADLOCK FALSE
