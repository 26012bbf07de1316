SPECIFICATION ViewSpec
CONSTANTS
  p1 = p1
  p2 = p2
  NoPayment = none
  Reader = {r1}
  Inspector = r1
  Payment <- MCOnePayment
  Amount <- MCAmount
  InitialBalance = 3
  Key <- MCOwnKey
  Fingerprint <- MCPrint
  Fault <- MCNoFault
  MaxResets = 1
INVARIANTS
  TypeOK
  ViewTypeOK
  AtomicOutcome
  NothingLeftHanging
  TerminalHasEvidence
  EvidenceSuffices
  JournalTellsStatus
  NothingHeldForNobody
  ShownEvidenceAgrees
PROPERTY
  ImplementsAtomicCommit
CHECK_DEADLOCK FALSE
