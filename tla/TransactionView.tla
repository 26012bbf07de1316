---------------------------- MODULE TransactionView ----------------------------
(***************************************************************************)
(* GET /distributed/transactions/{gid}: the evidence of one payment, read  *)
(* in separate statements while DistributedPayment goes on, and with no    *)
(* transaction around them.  The handler first reconciles the payment, as  *)
(* one of the readers of DistributedPayment.  The views shown influence    *)
(* nothing, so one such handler stands for all of them.                    *)
(***************************************************************************)
EXTENDS DistributedPayment

CONSTANT Inspector  \* the reader that reconciles, then shows the evidence

ASSUME InspectorAssumption == Inspector \in Reader

VARIABLE view  \* the view being gathered; "unread" where it has not looked yet

View == [stage : {"idle", "dtm", "reservation", "ledger", "shown"}, payment : Payment \cup {NoPayment},
         status : Status \cup {"unread"}, dtm : TransStatus \cup {"unread"},
         reservation : ReservationStatus \cup {"unread"}, ledger : LedgerStatus \cup {"unread"}]

Blank == [stage |-> "idle", payment |-> NoPayment, status |-> "unread", dtm |-> "unread",
          reservation |-> "unread", ledger |-> "unread"]

\* The view holds a payment of the table and the statuses the tables hold.
ViewTypeOK == TypeOK /\ view \in View

ViewInit == Init /\ view = Blank

-----------------------------------------------------------------------------
\* A payment is found by its gid, which BeginTCC stores.  Whether it had to be
\* looked into first makes no difference to what follows.
SeePayment(p) ==
  /\ view.stage = "idle" /\ LooksAt(Inspector, "idle")
  /\ HasGid(p)
  /\ view' = [Blank EXCEPT !.stage = "dtm", !.payment = p, !.status = status[p]]

SeeDtm ==
  /\ view.stage = "dtm"
  /\ view' = [view EXCEPT !.stage = "reservation", !.dtm = trans[view.payment]]

\* Mutant: the reservation is filled from the ledger's row.
SeeReservationMixedUp ==
  /\ view.stage = "reservation"
  /\ view' = [view EXCEPT !.stage = "ledger", !.reservation = ledger[view.payment]]

SeeReservation ==
  /\ view.stage = "reservation"
  /\ view' = [view EXCEPT !.stage = "ledger", !.reservation = reservation[view.payment]]

\* Mutant: the payment is read once more at the end.
SeeLedgerThenPayment ==
  /\ view.stage = "ledger"
  /\ view' = [view EXCEPT !.stage = "shown", !.ledger = ledger[view.payment], !.status = status[view.payment]]

\* The barrier rows, read last, are listed as they are and left out here.
SeeLedger ==
  /\ view.stage = "ledger"
  /\ view' = [view EXCEPT !.stage = "shown", !.ledger = ledger[view.payment]]

\* The view is shown, or a read failed and nothing is shown.
EndView == view.stage # "idle" /\ view' = Blank

\* While it gathers a view the handler does not reconcile.
Elsewhere ==
  /\ Next
  /\ view.stage # "idle" => watch'[Inspector] = watch[Inspector]
  /\ UNCHANGED view

ViewNext ==
  \/ Elsewhere
  \/ (\E p \in Payment : SeePayment(p)) /\ UNCHANGED vars
  \/ SeeDtm /\ UNCHANGED vars
  \/ SeeReservation /\ UNCHANGED vars
  \/ SeeLedger /\ UNCHANGED vars
  \/ EndView /\ UNCHANGED vars

viewVars == <<vars, view>>

ViewSpec == ViewInit /\ [][ViewNext]_viewVars

-----------------------------------------------------------------------------
\* Shown as an outcome leaves it, or not at all once a reset has come between.
Backs(shown, final) == shown \in {"unread", "NONE", final}

\* The evidence shown never contradicts the status shown, nor DTM's, although
\* the reads see different moments: a finished payment or global transaction
\* is shown with finished branches, and a view that a reset overtakes shows
\* nothing from then on.
ShownEvidenceAgrees ==
  /\ view.status = "SUCCESS" => Backs(view.dtm, "succeed")
  /\ view.status = "FAILED"  => Backs(view.dtm, "failed")
  /\ view.status = "SUCCESS" \/ view.dtm = "succeed" =>
       /\ Backs(view.reservation, "CONFIRMED") /\ Backs(view.ledger, "POSTED")
       /\ view.reservation = "NONE" => view.ledger \in {"unread", "NONE"}
  /\ view.status = "FAILED" \/ view.dtm = "failed" =>
       Backs(view.reservation, "CANCELLED") /\ Backs(view.ledger, "CANCELLED")
  /\ view.status \in Terminal /\ view.dtm = "NONE" =>
       {view.reservation, view.ledger} \subseteq {"unread", "NONE"}

=============================================================================
