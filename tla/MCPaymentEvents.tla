---------------------------- MODULE MCPaymentEvents ----------------------------
EXTENDS PaymentEvents, MCDistributedPayment
=============================================================================
