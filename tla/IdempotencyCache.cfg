SPECIFICATION Spec
CONSTANTS
  r1 = r1
  r2 = r2
  r3 = r3
  r4 = r4
  Nobody = nobody
  Request = {r1, r2, r3, r4}
  Key <- MCKeyOf
  Fold <- MCFold
  Fingerprint <- MCPrintOf
  MaxResets = 1
INVARIANTS
  TypeOK
  AnswersAgree
PROPERTY
  ImplementsIdempotentCreate
CHECK_DEADLOCK FALSE
