SPECIFICATION FairSpec
CONSTANTS
  p1 = p1
  p2 = p2
  p3 = p3
  e1 = e1
  e2 = e2
  own = own
  Payment = {p1, p2, p3}
  Amount <- MCAmount
  InitialBalance = 3
  Key <- MCSameKey
  Fingerprint <- MCPrints
  EventId = {e1, e2, own}
  Fault <- MCEarlyFault
  AutoConfirm = {p2}
  Channel <- MCChannel
  OwnEvent <- MCOwnEvent
PROPERTIES
  NoTransientAnswer
  EveryCreateReturns
CHECK_DEADLOCK FALSE
