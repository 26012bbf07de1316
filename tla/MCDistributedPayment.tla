------------------------ MODULE MCDistributedPayment -------------------------
(* Small instances of DistributedPayment for TLC. *)
EXTENDS DistributedPayment, TLC

CONSTANTS p1, p2

MCOnePayment == {p1}
MCPayments   == {p1, p2}

\* Two payments of which the account can pay only one at a time.
MCAmount  == [p \in Payment |-> 2]
\* Two different requests, each with a key of its own.
MCOwnKey  == [p \in Payment |-> p]
\* The second request repeats the first.
MCSameKey == [p \in Payment |-> p1]
MCPrint   == [p \in Payment |-> "same"]

MCNoFault     == [p \in Payment |-> "none"]
MCLedgerFault == [p \in Payment |-> IF p = p2 THEN "ledger_try" ELSE "none"]
MCAccountFault == [p \in Payment |-> IF p = p2 THEN "after_account_try" ELSE "none"]
=============================================================================
