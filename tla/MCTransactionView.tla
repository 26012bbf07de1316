--------------------------- MODULE MCTransactionView ---------------------------
EXTENDS TransactionView, MCDistributedPayment
=============================================================================
