---------------------------- MODULE PaymentContract ----------------------------
(***************************************************************************)
(* What PayFlow promises of its payments in either mode: money is held at  *)
(* most once per payment and only while the payment is open, what is held  *)
(* is paid or returned, once, and a payment ends as a success exactly when *)
(* its money was paid.                                                     *)
(***************************************************************************)
EXTENDS Integers

CONSTANTS
  Payment,
  Amount,         \* what each payment costs
  InitialBalance  \* what the account holds after a reset

VARIABLES
  stage,     \* of each payment: not there, open, or how it ended
  money,     \* of each payment: where its money is
  available  \* what the account can still pay

vars == <<stage, money, available>>

Ended == {"SUCCESS", "FAILED", "CLOSED"}

Init ==
  /\ stage     = [p \in Payment |-> "absent"]
  /\ money     = [p \in Payment |-> "none"]
  /\ available = InitialBalance

MoveStage(p, from, to) ==
  /\ stage[p] = from
  /\ stage' = [stage EXCEPT ![p] = to]

MoveMoney(p, from, to) ==
  /\ money[p] = from
  /\ money' = [money EXCEPT ![p] = to]

Accept(p) ==
  /\ money[p] = "none"
  /\ MoveStage(p, "absent", "open")
  /\ UNCHANGED <<money, available>>

Hold(p) ==
  /\ stage[p] = "open"
  /\ available >= Amount[p]
  /\ MoveMoney(p, "none", "held")
  /\ available' = available - Amount[p]
  /\ UNCHANGED stage

Pay(p) ==
  /\ MoveMoney(p, "held", "paid")
  /\ UNCHANGED available

Return(p) ==
  /\ MoveMoney(p, "held", "returned")
  /\ available' = available + Amount[p]

\* The money is settled before the payment ends or in the step that ends it.
Settle(p) ==
  /\ stage[p] = "open"
  /\ Pay(p) \/ Return(p)
  /\ UNCHANGED stage

End(p) ==
  /\ Pay(p) \/ Return(p) \/ UNCHANGED <<money, available>>
  /\ money'[p] # "held"
  /\ \E how \in Ended :
       /\ MoveStage(p, "open", how)
       /\ how = "SUCCESS" <=> money'[p] = "paid"

Reset ==
  /\ stage'     = [p \in Payment |-> "absent"]
  /\ money'     = [p \in Payment |-> "none"]
  /\ available' = InitialBalance

Next == (\E p \in Payment : Accept(p) \/ Hold(p) \/ Settle(p) \/ End(p)) \/ Reset

Spec == Init /\ [][Next]_vars

=============================================================================
