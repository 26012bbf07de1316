------------------------ MODULE TransactionViewProofs -------------------------
(***************************************************************************)
(* The transaction view never contradicts itself, for any payments, any    *)
(* readers and any number of resets: a finished global transaction stays   *)
(* as it is while its row exists, and once a reset has removed the row     *)
(* nothing of the payment comes back.                                      *)
(***************************************************************************)
EXTENDS TransactionView, DistributedPaymentProofs

USE DEF Branch, Op, ReservationStatus, LedgerStatus, TransStatus, Terminal, Status

Finished == {"SUCCESS", "FAILED"}

\* What a finished global transaction says of the branches.
LEMMA FinishedBacked ==
  ASSUME TypeInv, IInv, NothingLeftHanging, NEW p \in Payment, HasRow(p)
  PROVE  /\ trans[p] = "succeed" => reservation[p] = "CONFIRMED" /\ ledger[p] = "POSTED"
         /\ trans[p] = "failed" =>
              reservation[p] \in {"NONE", "CANCELLED"} /\ ledger[p] \in {"NONE", "CANCELLED"}
<1> USE DEF TypeInv, TypeOK, ParticipantsTypeOK, NothingLeftHanging
<1>1. PaymentInv(p)
  BY DEF IInv
<1>2. ASSUME trans[p] = "succeed" PROVE reservation[p] = "CONFIRMED" /\ ledger[p] = "POSTED"
  <2>1. Committing(p) /\ ~RollingBack(p)
    BY <1>2 DEF Committing, RollingBack
  <2>2. \A b \in Branch : "try" \in barrier[p][b] /\ "cancel" \notin barrier[p][b]
    BY <1>1, <2>1 DEF PaymentInv, DecisionInv
  <2>3. reservation[p] \notin {"NONE", "CANCELLED"} /\ ledger[p] \notin {"NONE", "CANCELLED"}
    BY <1>1, <2>2 DEF PaymentInv, BranchInv
  <2>4. QED BY <1>2, <2>3
<1>3. ASSUME trans[p] = "failed"
      PROVE  reservation[p] \in {"NONE", "CANCELLED"} /\ ledger[p] \in {"NONE", "CANCELLED"}
  <2>1. ~Committing(p)
    BY <1>3 DEF Committing
  <2>2. \A b \in Branch : "confirm" \notin barrier[p][b]
    BY <1>1, <2>1 DEF PaymentInv, DecisionInv
  <2>3. QED BY <1>1, <1>3, <2>2 DEF PaymentInv, BranchInv
<1>4. QED BY <1>2, <1>3

\* Beyond its prepare a handler never goes back, a deleted payment's global
\* transaction is gone with it, and nobody prepares it again.
Begun(p) == pc[p] \notin {"insert", "begin", "prepare"}

Gone(p) ==
  Begun(p) =>
    /\ Begun(p)'
    /\ ~HasRow(p) /\ trans[p] = "NONE" => trans'[p] = "NONE"
    /\ HasRow(p) /\ status[p] # "INIT" /\ ~HasRow(p)' => trans'[p] = "NONE"

LEMMA GoneStep ==
  ASSUME TypeInv, IInv, Next, NEW p \in Payment
  PROVE  Gone(p)
<1> USE DEF TypeInv, Gone, Begun, HasRow
<1>1. ASSUME SamePayment(p) PROVE Gone(p)
  BY <1>1 DEF SamePayment, SameTables, SameDtm
<1>2. ASSUME NEW q \in Payment, Coordinate(q) PROVE Gone(p)
  <2>1. CASE q # p
    BY <1>1, <1>2, <2>1, OthersKept
  <2>2. CASE q = p
    <3> USE <2>2 DEF Goto, CoordinatorOnly, rowVars, dtmVars, TypeOK, DtmTypeOK
    <3>1. CASE CreatePayment(q) \/ Replay(q) \/ BeginTCC(q)
      BY <3>1 DEF CreatePayment, Replay, BeginTCC
    <3>2. CASE PrepareTCC(q) \/ PrepareFails(q)
      BY <3>2 DEF PrepareTCC, PrepareFails
    <3>3. CASE CallAccount(q)
      BY <3>3 DEF CallAccount, Register, RegisterFails, TryAnswered, TryFails, AfterAccountTry
    <3>4. CASE CallLedger(q)
      BY <3>4 DEF CallLedger, Register, RegisterFails, TryAnswered, TryFails
    <3>5. CASE SubmitTCC(q) \/ SubmitFails(q)
      BY <3>5 DEF SubmitTCC, Submit, MoveTrans, SubmitFails
    <3>6. CASE AbortTCC(q)
      BY <3>6 DEF AbortTCC, Abort, MoveTrans
    <3>7. CASE Poll(q)
      BY <3>7 DEF Poll, LookOnlyChangesWatch
    <3>8. QED
      BY <1>2, <3>1, <3>2, <3>3, <3>4, <3>5, <3>6, <3>7 DEF Coordinate
  <2>3. QED BY <2>1, <2>2
<1>3. ASSUME NEW q \in Payment, Stop(q) PROVE Gone(p)
  BY <1>3 DEF Stop, TypeOK, dtmVars, rowVars
<1>4. ASSUME LookOnlyChangesWatch PROVE Gone(p)
  BY <1>4 DEF LookOnlyChangesWatch, dtmVars, rowVars
<1>5. ASSUME NEW w \in Worker, ActOnVerdict(w) PROVE Gone(p)
  BY <1>5 DEF ActOnVerdict, Finalize, SetStatus, TypeOK, dtmVars, rowVars
<1>6. ASSUME NEW q \in Payment, NEW b \in Branch, Deliver(q, b) PROVE Gone(p)
  BY <1>1, <1>6, DeliverKept DEF SameDtm
<1>7. ASSUME NEW q \in Payment, DtmStep(q) PROVE Gone(p)
  <2>1. CASE q # p
    BY <1>1, <1>7, <2>1, DtmOthersKept
  <2>2. CASE q = p
    <3>1. pc' = pc /\ status' = status
      BY <1>7 DEF DtmStep, rowVars
    <3>2. trans[p] = "NONE" => trans'[p] = trans[p]
      BY <1>7, <2>2 DEF DtmStep, Expire, MoveTrans, CallBranch, BranchDone, Finish
    <3>3. QED BY <3>1, <3>2
  <2>3. QED BY <2>1, <2>2
<1>8. ASSUME EnsureNoActiveTransactions PROVE Gone(p)
  BY <1>8 DEF EnsureNoActiveTransactions, dtmVars, rowVars
<1>9. ASSUME Reset PROVE Gone(p)
  BY <1>9 DEF Reset, Cleared, HasGid
<1>10. QED
  BY <1>2, <1>3, <1>4, <1>5, <1>6, <1>7, <1>8, <1>9
  DEF Next, ReadReservation, ReadLedger, ReadDtm, Reconcile

-----------------------------------------------------------------------------
(* The view and the payment it is about.                                   *)

\* The view has seen the payment, or its global transaction, finished so.
SeenAs(s, t) == view.status = s \/ view.dtm = t

Outcomes(p) ==
  /\ SeenAs("SUCCESS", "succeed") /\ HasRow(p) => trans[p] = "succeed"
  /\ SeenAs("FAILED", "failed") /\ HasRow(p) => trans[p] = "failed"

\* Once seen finished, the payment has been prepared, and losing its row it
\* loses its global transaction.
Finality(p) ==
  view.status \in Finished => Begun(p) /\ (~HasRow(p) => trans[p] = "NONE")

\* Something missing that should be there shows that a reset has come between.
Absence(p) ==
  /\ view.status \in Finished /\ view.dtm = "NONE" => ~HasRow(p)
  /\ SeenAs("SUCCESS", "succeed") /\ view.reservation = "NONE" => ~HasRow(p)

\* What has not been read yet is unread.
Unread ==
  /\ view.stage = "idle" => view = Blank
  /\ view.stage = "dtm" => view.dtm = "unread"
  /\ view.stage \in {"dtm", "reservation"} => view.reservation = "unread"
  /\ view.stage \in {"dtm", "reservation", "ledger"} => view.ledger = "unread"

VInv ==
  /\ view \in View
  /\ Unread
  /\ view.status # "CLOSED"
  /\ view.stage # "idle" =>
       LET p == view.payment
       IN  p \in Payment /\ pc[p] # "insert" /\ Outcomes(p) /\ Finality(p) /\ Absence(p)
  /\ ShownEvidenceAgrees

State == TypeInv /\ IInv /\ NothingLeftHanging

LEMMA ViewInitially == ViewInit => Init /\ VInv
  BY DEF ViewInit, VInv, View, Blank, Unread, ShownEvidenceAgrees, Backs

\* A step of the system, with the view as it is.
LEMMA ElsewhereView ==
  ASSUME State, VInv, Next, view' = view
  PROVE  VInv'
<1> USE DEF VInv
<1>1. ASSUME view.stage # "idle" PROVE
        LET p == view.payment
        IN  pc'[p] # "insert" /\ Outcomes(p)' /\ Finality(p)' /\ Absence(p)'
  <2> DEFINE p == view.payment
  <2>1. p \in Payment /\ pc[p] # "insert" /\ Outcomes(p) /\ Finality(p) /\ Absence(p)
    BY <1>1
  <2>2. Settled(p) /\ Gone(p)
    BY <2>1, SettledStep, GoneStep DEF State
  <2>3. pc'[p] # "insert"
    BY <2>1, <2>2 DEF Settled
  <2>4. HasRow(p)' => HasRow(p)
    BY <2>1, <2>2 DEF Settled
  <2>5. Outcomes(p)'
    BY <2>1, <2>2 DEF Settled, Outcomes, SeenAs, HasRow
  <2>6. Absence(p)'
    BY <2>1, <2>4 DEF Absence, SeenAs, HasRow
  <2>7. Finality(p)'
    <3> SUFFICES ASSUME view.status \in Finished PROVE Begun(p)' /\ (~HasRow(p)' => trans'[p] = "NONE")
      BY DEF Finality, HasRow, Begun
    <3>1. Begun(p) /\ (~HasRow(p) => trans[p] = "NONE")
      BY <2>1 DEF Finality
    <3>2. HasRow(p) => status[p] # "INIT"
      <4>1. HasRow(p) => trans[p] \in {"succeed", "failed"}
        BY <2>1 DEF Outcomes, SeenAs, Finished
      <4>2. status[p] = "INIT" => trans[p] = "NONE"
        BY <2>1 DEF State, IInv, PaymentInv, RowInv, Untouched
      <4>3. QED BY <4>1, <4>2
    <3>3. QED BY <2>2, <3>1, <3>2 DEF Gone
  <2>8. QED BY <2>3, <2>5, <2>6, <2>7
<1>2. ShownEvidenceAgrees' /\ Unread'
  BY DEF ShownEvidenceAgrees, Backs, Unread, Blank
<1>3. QED BY <1>1, <1>2

LEMMA SeePaymentView ==
  ASSUME State, VInv, NEW p \in Payment, SeePayment(p), UNCHANGED vars
  PROVE  VInv'
<1> USE DEF State
<1>1. /\ view' = [stage |-> "dtm", payment |-> p, status |-> status[p], dtm |-> "unread",
                  reservation |-> "unread", ledger |-> "unread"]
      /\ status[p] \notin {"NONE", "INIT"} /\ status[p] \in Status
  BY DEF SeePayment, Blank, HasGid, TypeInv, TypeOK
<1>2. PaymentInv(p)
  BY DEF IInv
<1>3. /\ status[p] # "CLOSED" /\ pc[p] # "insert"
      /\ status[p] = "SUCCESS" => trans[p] = "succeed"
      /\ status[p] = "FAILED" => trans[p] = "failed"
  BY <1>1, <1>2 DEF PaymentInv, RowInv
<1>4. status[p] \in Finished => Begun(p) /\ HasRow(p)
  BY <1>1, <1>2, <1>3 DEF PaymentInv, RowInv, Untouched, Begun, HasRow, Finished
<1>5. pc' = pc /\ trans' = trans /\ status' = status
  BY DEF vars, dtmVars, rowVars
<1>6. Outcomes(p)' /\ Finality(p)' /\ Absence(p)'
  BY <1>1, <1>3, <1>4, <1>5 DEF Outcomes, Finality, Absence, SeenAs, HasRow, Begun
<1>7. ShownEvidenceAgrees' /\ Unread' /\ view' \in View
  BY <1>1 DEF ShownEvidenceAgrees, Backs, Unread, View
<1>8. QED BY <1>1, <1>3, <1>5, <1>6, <1>7 DEF VInv

LEMMA SeeDtmView ==
  ASSUME State, VInv, SeeDtm, UNCHANGED vars
  PROVE  VInv'
<1> DEFINE p == view.payment
<1> USE DEF State, VInv
<1>1. view.stage = "dtm" /\ p \in Payment /\ pc[p] # "insert" /\ Outcomes(p) /\ Finality(p)
  BY DEF SeeDtm
<1>2. trans[p] \in TransStatus
  BY <1>1 DEF TypeInv, TypeOK, DtmTypeOK
<1>3. view' = [view EXCEPT !.stage = "reservation", !.dtm = trans[p]] /\ view \in View
  BY DEF SeeDtm
<1>4. /\ view'.stage = "reservation" /\ view'.payment = p /\ view'.status = view.status
      /\ view'.dtm = trans[p] /\ view'.reservation = "unread" /\ view'.ledger = "unread"
      /\ view' \in View
  BY <1>1, <1>2, <1>3 DEF View, Unread
<1>5. pc' = pc /\ trans' = trans /\ status' = status
  BY DEF vars, dtmVars, rowVars
<1>6. Outcomes(p)' /\ Finality(p)' /\ Absence(p)'
  BY <1>1, <1>4, <1>5 DEF Outcomes, Finality, Absence, SeenAs, HasRow, Begun, Finished
<1>7. ShownEvidenceAgrees'
  BY <1>1, <1>4 DEF ShownEvidenceAgrees, Backs, Outcomes, Finality, SeenAs, Finished
<1>8. Unread'
  BY <1>4 DEF Unread
<1>9. QED BY <1>1, <1>4, <1>5, <1>6, <1>7, <1>8

LEMMA SeeReservationView ==
  ASSUME State, VInv, SeeReservation, UNCHANGED vars
  PROVE  VInv'
<1> DEFINE p == view.payment
<1> USE DEF State, VInv
<1>1. view.stage = "reservation" /\ p \in Payment /\ pc[p] # "insert" /\ Outcomes(p) /\ Finality(p) /\ Absence(p)
  BY DEF SeeReservation
<1>2. reservation[p] \in ReservationStatus
  BY <1>1 DEF TypeInv, TypeOK, ParticipantsTypeOK
<1>3. view' = [view EXCEPT !.stage = "ledger", !.reservation = reservation[p]] /\ view \in View
  BY DEF SeeReservation
<1>4. /\ view'.stage = "ledger" /\ view'.payment = p /\ view'.status = view.status
      /\ view'.dtm = view.dtm /\ view'.reservation = reservation[p] /\ view'.ledger = "unread"
      /\ view' \in View
  BY <1>1, <1>2, <1>3 DEF View, Unread
<1>5. pc' = pc /\ trans' = trans /\ status' = status
  BY DEF vars, dtmVars, rowVars
<1>6. /\ HasRow(p) /\ trans[p] = "succeed" => reservation[p] = "CONFIRMED"
      /\ HasRow(p) /\ trans[p] = "failed" => reservation[p] \in {"NONE", "CANCELLED"}
      /\ ~HasRow(p) => reservation[p] = "NONE"
  BY <1>1, FinishedBacked DEF IInv, PaymentInv, RowInv, HasRow
<1>7. Outcomes(p)' /\ Finality(p)' /\ Absence(p)'
  BY <1>1, <1>4, <1>5, <1>6 DEF Outcomes, Finality, Absence, SeenAs, HasRow, Begun, Finished
<1>8. ShownEvidenceAgrees'
  <2>1. ShownEvidenceAgrees
    OBVIOUS
  <2>2. view.status # "CLOSED"
    OBVIOUS
  <2>3. QED
    BY <1>1, <1>4, <1>6, <2>1, <2>2 DEF ShownEvidenceAgrees, Backs, Outcomes, Absence, SeenAs, Finished
<1>9. Unread'
  BY <1>4 DEF Unread
<1>10. QED BY <1>1, <1>4, <1>5, <1>7, <1>8, <1>9

LEMMA SeeLedgerView ==
  ASSUME State, VInv, SeeLedger, UNCHANGED vars
  PROVE  VInv'
<1> DEFINE p == view.payment
<1> USE DEF State, VInv
<1>1. view.stage = "ledger" /\ p \in Payment /\ pc[p] # "insert" /\ Outcomes(p) /\ Finality(p) /\ Absence(p)
  BY DEF SeeLedger
<1>2. ledger[p] \in LedgerStatus
  BY <1>1 DEF TypeInv, TypeOK, ParticipantsTypeOK
<1>3. view' = [view EXCEPT !.stage = "shown", !.ledger = ledger[p]] /\ view \in View
  BY DEF SeeLedger
<1>4. /\ view'.stage = "shown" /\ view'.payment = p /\ view'.status = view.status
      /\ view'.dtm = view.dtm /\ view'.reservation = view.reservation /\ view'.ledger = ledger[p]
      /\ view' \in View
  BY <1>1, <1>2, <1>3 DEF View, Unread
<1>5. pc' = pc /\ trans' = trans /\ status' = status
  BY DEF vars, dtmVars, rowVars
<1>6. /\ HasRow(p) /\ trans[p] = "succeed" => ledger[p] = "POSTED"
      /\ HasRow(p) /\ trans[p] = "failed" => ledger[p] \in {"NONE", "CANCELLED"}
      /\ ~HasRow(p) => ledger[p] = "NONE"
  BY <1>1, FinishedBacked DEF IInv, PaymentInv, RowInv, HasRow
<1>7. Outcomes(p)' /\ Finality(p)' /\ Absence(p)'
  BY <1>1, <1>4, <1>5 DEF Outcomes, Finality, Absence, SeenAs, HasRow, Begun
<1>8. ShownEvidenceAgrees'
  <2>1. ShownEvidenceAgrees /\ view.status # "CLOSED"
    OBVIOUS
  <2>2. QED
    BY <1>1, <1>4, <1>6, <2>1 DEF ShownEvidenceAgrees, Backs, Outcomes, Absence, SeenAs, Finished
<1>9. Unread'
  BY <1>4 DEF Unread
<1>10. QED BY <1>1, <1>4, <1>5, <1>7, <1>8, <1>9

LEMMA ViewStep == State /\ VInv /\ [ViewNext]_viewVars => VInv'
<1> SUFFICES ASSUME State, VInv, [ViewNext]_viewVars PROVE VInv'
  OBVIOUS
<1>1. CASE Elsewhere
  BY <1>1, ElsewhereView DEF Elsewhere
<1>2. ASSUME NEW p \in Payment, SeePayment(p), UNCHANGED vars PROVE VInv'
  BY <1>2, SeePaymentView
<1>3. ASSUME SeeDtm \/ SeeReservation \/ SeeLedger, UNCHANGED vars PROVE VInv'
  BY <1>3, SeeDtmView, SeeReservationView, SeeLedgerView
<1>4. CASE EndView
  BY <1>4 DEF EndView, VInv, View, Blank, Unread, ShownEvidenceAgrees, Backs
<1>5. CASE UNCHANGED viewVars
  BY <1>5 DEF viewVars, vars, dtmVars, rowVars, VInv, Unread, Blank, Outcomes, Finality, Absence, SeenAs, HasRow,
              Begun, ShownEvidenceAgrees, Backs
<1>6. QED BY <1>1, <1>2, <1>3, <1>4, <1>5 DEF ViewNext

-----------------------------------------------------------------------------
\* The view adds steps of its own to DistributedPayment and takes none away
\* from what holds there.
LEMMA ViewedSystem == ViewSpec => Spec
<1>1. ViewInit => Init
  BY DEF ViewInit
<1>2. [ViewNext]_viewVars => [Next]_vars
  BY DEF ViewNext, Elsewhere, viewVars
<1>3. QED BY <1>1, <1>2, PTL DEF ViewSpec, Spec

LEMMA ViewInvariant == ViewSpec => [](State /\ VInv)
<1>1. ViewSpec => []State
  BY ViewedSystem, Invariant, Suspension, PTL DEF State
<1>2. ViewInit => VInv
  BY ViewInitially
<1>3. QED BY <1>1, <1>2, ViewStep, PTL DEF ViewSpec

\* Every variable, the view included, keeps its type.
THEOREM ViewTyped == ViewSpec => []ViewTypeOK
<1>1. State /\ VInv => ViewTypeOK
  BY DEF State, TypeInv, VInv, ViewTypeOK
<1>2. QED BY <1>1, ViewInvariant, PTL

\* The evidence GET /distributed/transactions/{gid} shows never contradicts
\* the status it shows, whatever happens between its reads.
THEOREM ViewConsistent == ViewSpec => []ShownEvidenceAgrees
<1>1. State /\ VInv => ShownEvidenceAgrees
  BY DEF VInv
<1>2. QED BY <1>1, ViewInvariant, PTL

=============================================================================
