----------------------------- MODULE MCLocalPayment -----------------------------
(* Small instances of LocalPayment for TLC. *)
EXTENDS LocalPayment, TLC

CONSTANTS p1, p2, p3, e1, e2, own

MCAmount  == [p \in Payment |-> 2]
MCOwnKey  == [p \in Payment |-> p]
MCSameKey == [p \in Payment |-> "k"]
MCPrint   == [p \in Payment |-> "same"]
MCPrints  == [p \in Payment |-> IF p = p3 THEN "other" ELSE "same"]

MCNoFault == [p \in Payment |-> "none"]
MCOneFault == [p \in Payment |-> IF p = p1 THEN "after_freeze" ELSE "none"]
MCEarlyFault == [p \in Payment |-> IF p = p1 THEN "before_freeze" ELSE "none"]

MCOwnEvent == [p \in Payment |-> own]
\* A success, and a failure that overtakes or follows it.
MCChannel == {[event |-> e1, sequence |-> 1, outcome |-> "success"],
              [event |-> e2, sequence |-> 2, outcome |-> "failed"]}
=============================================================================
