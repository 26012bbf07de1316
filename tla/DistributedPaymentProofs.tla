---------------------- MODULE DistributedPaymentProofs -----------------------
(***************************************************************************)
(* Proofs about DistributedPayment, for any set of payments and readers,   *)
(* any amounts, keys and faults, and any number of resets.                 *)
(*                                                                         *)
(* The argument: barrier rows remember which operations a branch has seen, *)
(* DTM sends only one kind of second-phase operation for a transaction,    *)
(* and submits it only when both tries have run.  So the rows of a branch  *)
(* determine its state, and a finished transaction determines both.        *)
(***************************************************************************)
EXTENDS DistributedPayment, SequenceTheorems, SumTheorems, TLAPS

Committing(p)  == trans[p] \in {"submitted", "succeed"}
RollingBack(p) == trans[p] \in {"aborting", "failed"}

\* Before its transaction is prepared nothing of a payment exists at DTM or
\* at the participants.
Untouched(p) ==
  /\ trans[p] = "NONE" /\ branches[p] = {} /\ done[p] = {}
  /\ \A b \in Branch : sent[p][b] = {} /\ barrier[p][b] = {} /\ tryAnswer[p][b] = "none"
  /\ reservation[p] = "NONE" /\ ledger[p] = "NONE"

RowInv(p) ==
  /\ pc[p] = "insert" => status[p] = "NONE"
  /\ status[p] = "INIT" => pc[p] \in {"begin", "done"}
  /\ pc[p] \in {"insert", "begin", "prepare"} \/ status[p] = "INIT" => Untouched(p)
  /\ status[p] = "NONE" => reservation[p] = "NONE" /\ ledger[p] = "NONE"
  /\ status[p] # "CLOSED"
  /\ status[p] = "SUCCESS" => trans[p] = "succeed"
  /\ status[p] = "FAILED" => trans[p] = "failed"

\* What the rows of branch b say of its state s; `open` is the state the try
\* leaves, `final` the state the confirm leaves.
BranchInv(p, b, s, open, final) ==
  /\ s = "NONE" /\ "try" \in barrier[p][b] => "cancel" \in barrier[p][b]
  /\ s # "NONE" => "try" \in barrier[p][b] /\ "try" \in sent[p][b]
  /\ s = final => "confirm" \in barrier[p][b]
  /\ s = "CANCELLED" => "cancel" \in barrier[p][b]
  /\ s = open => "confirm" \notin barrier[p][b] /\ "cancel" \notin barrier[p][b]

\* Requests in flight and rows recorded agree with DTM's decision, until a
\* reset deletes the payment.
DecisionInv(p) ==
  /\ \A b \in Branch :
       /\ "confirm" \in barrier[p][b] => "confirm" \in sent[p][b]
       /\ "cancel" \in barrier[p][b] => "cancel" \in sent[p][b] /\ "try" \in barrier[p][b]
       /\ HasRow(p) =>
            /\ "confirm" \in sent[p][b] => Committing(p)
            /\ "cancel" \in sent[p][b] => RollingBack(p)
            /\ "try" \in sent[p][b] => b \in branches[p]
            /\ tryAnswer[p][b] = "ok" => "try" \in barrier[p][b]
            /\ Committing(p) => b \in branches[p] /\ "try" \in barrier[p][b]
            /\ b \in done[p] => /\ Committing(p) => "confirm" \in barrier[p][b]
                                /\ RollingBack(p) => "cancel" \in barrier[p][b]
  /\ trans[p] \in {"succeed", "failed"} => done[p] = branches[p]
  /\ trans[p] \in {"NONE", "prepared"} => done[p] = {}

CoordinatorInv(p) ==
  HasRow(p) =>
    /\ pc[p] \in {"tryAccount", "registerLedger", "tryLedger", "submit"} => "account" \in branches[p]
    /\ pc[p] \in {"tryLedger", "submit"} => "ledger" \in branches[p]
    /\ pc[p] \in {"registerLedger", "tryLedger", "submit"} => "try" \in barrier[p]["account"]
    /\ pc[p] = "submit" => "try" \in barrier[p]["ledger"]

PaymentInv(p) ==
  /\ RowInv(p)
  /\ BranchInv(p, "account", reservation[p], "FROZEN", "CONFIRMED")
  /\ BranchInv(p, "ledger", ledger[p], "PREPARED", "POSTED")
  /\ DecisionInv(p)
  /\ CoordinatorInv(p)

\* A look is at a payment that was inserted, and a verdict has the backing of
\* a finished global transaction.
WatchInv(w) ==
  watch[w].stage # "idle" =>
    LET p == watch[w].payment
    IN  /\ pc[p] # "insert"
        /\ watch[w].stage = "SUCCESS" /\ HasRow(p) => trans[p] = "succeed"
        /\ watch[w].stage = "FAILED" /\ HasRow(p) => trans[p] = "failed"

IInv ==
  /\ \A p \in Payment : PaymentInv(p)
  /\ \A w \in Worker : WatchInv(w)

-----------------------------------------------------------------------------
(* Typing.  A look that is under way is at a payment, not at NoPayment.    *)

LooksTyped == \A w \in Worker : watch[w].stage # "idle" => watch[w].payment \in Payment

TypeInv == TypeOK /\ LooksTyped

USE DEF Branch, Op, ReservationStatus, LedgerStatus, TransStatus, Terminal, Status, Answer, PC, Stage

LEMMA TypeInit == Init => TypeInv
  BY AmountAssumption, RequestAssumption
  DEF Init, ParticipantsInit, DtmInit, TypeInv, TypeOK, ParticipantsTypeOK, DtmTypeOK, LooksTyped,
      OpeningBalance, NoBarrierRows, Idle, Watch

\* A delivered operation keeps the participants' tables well typed.
LEMMA ParticipantsTyped ==
  ASSUME ParticipantsTypeOK, NEW p \in Payment, NEW b \in Branch, Deliver(p, b)
  PROVE  ParticipantsTypeOK'
<1> USE AmountAssumption DEF ParticipantsTypeOK
<1>1. \A op \in Op : InsertRows(p, b, op) => barrier' \in [Payment -> [Branch -> SUBSET Op]]
  BY DEF InsertRows
<1>2. ASSUME DeliverTry(p, b) PROVE ParticipantsTypeOK'
  <2>1. CASE b = "account"
    BY <1>1, <1>2, <2>1 DEF DeliverTry, AccountTry, BarrierSkips, RollBack, participantVars
  <2>2. CASE b = "ledger"
    BY <1>1, <1>2, <2>2 DEF DeliverTry, LedgerTry, BarrierSkips, RollBack, participantVars
  <2>3. QED BY <2>1, <2>2
<1>3. ASSUME DeliverConfirm(p, b) PROVE ParticipantsTypeOK'
  BY <1>1, <1>3
  DEF DeliverConfirm, AccountConfirm, LedgerConfirm, Advance, BarrierSkips
<1>4. ASSUME DeliverCancel(p, b) PROVE ParticipantsTypeOK'
  BY <1>1, <1>4
  DEF DeliverCancel, AccountCancel, LedgerCancel, Advance, BarrierSkips
<1>5. QED BY <1>2, <1>3, <1>4 DEF Deliver

\* The groups of variables most steps leave alone.
LEMMA GroupsTyped ==
  ASSUME TypeOK
  PROVE  /\ UNCHANGED participantVars => ParticipantsTypeOK'
         /\ UNCHANGED dtmVars => DtmTypeOK'
         /\ UNCHANGED rowVars => status' \in [Payment -> Status] /\ journal' \in [Payment -> Seq(Status)]
         /\ UNCHANGED resetVars => resetPc' \in {"idle", "checked"} /\ resets' \in 0..MaxResets
  BY DEF TypeOK, ParticipantsTypeOK, DtmTypeOK, participantVars, dtmVars, rowVars, resetVars

LEMMA GotoTyped ==
  ASSUME TypeOK, NEW p \in Payment, NEW from \in PC, NEW to \in PC, Goto(p, from, to)
  PROVE  pc' \in [Payment -> PC]
  BY DEF TypeOK, Goto

LEMMA RowsTyped ==
  ASSUME TypeOK, NEW p \in Payment, NEW s \in Status, SetStatus(p, s)
  PROVE  status' \in [Payment -> Status] /\ journal' \in [Payment -> Seq(Status)]
  BY DEF TypeOK, SetStatus

LEMMA LookTyped ==
  ASSUME TypeInv, NEW w \in Worker, NEW p \in Payment, NEW want \in {"either", "success", "failure"},
         Look(w, p, want)
  PROVE  watch' \in [Worker -> Watch] /\ LooksTyped'
  BY DEF TypeInv, TypeOK, LooksTyped, Look, Idle, Watch

\* A call of the coordinator: it moves its own program counter, DTM's tables
\* and nothing else.
LEMMA CallTyped ==
  ASSUME TypeInv, CoordinatorOnly, pc' \in [Payment -> PC], DtmTypeOK'
  PROVE  TypeInv'
  BY GroupsTyped DEF TypeInv, TypeOK, LooksTyped, CoordinatorOnly

LEMMA RegisterTyped ==
  ASSUME TypeOK, NEW p \in Payment, NEW b \in Branch, NEW at, NEW try, Register(p, b, at, try)
  PROVE  DtmTypeOK'
<1>1. branches' \in [Payment -> SUBSET Branch] /\ UNCHANGED <<trans, done>>
  BY DEF Register, RegisterBranch, TypeOK, DtmTypeOK
<1>2. \A op \in Op : Send(p, b, op) => sent' \in [Payment -> [Branch -> SUBSET Op]]
  BY DEF Send, TypeOK, DtmTypeOK
<1>3. UNCHANGED sent \/ Send(p, b, "try")
  BY DEF Register
<1>4. sent' \in [Payment -> [Branch -> SUBSET Op]]
  BY <1>2, <1>3 DEF TypeOK, DtmTypeOK
<1>5. QED BY <1>1, <1>4 DEF TypeOK, DtmTypeOK

LEMMA CoordinateTyped ==
  ASSUME TypeInv, NEW p \in Payment, Coordinate(p)
  PROVE  TypeInv'
<1> USE DEF TypeInv
<1>1. ASSUME CreatePayment(p) PROVE TypeInv'
  BY <1>1, GroupsTyped, GotoTyped, RowsTyped DEF CreatePayment, TypeOK, LooksTyped
<1>2. ASSUME Replay(p) PROVE TypeInv'
  <2>1. pc' \in [Payment -> PC]
    BY <1>2, GotoTyped DEF Replay
  <2>2. watch' \in [Worker -> Watch] /\ LooksTyped'
    BY <1>2, LookTyped DEF Replay, Worker, TypeOK, LooksTyped
  <2>3. QED BY <1>2, <2>1, <2>2, GroupsTyped DEF Replay, TypeOK
<1>3. ASSUME BeginTCC(p) PROVE TypeInv'
  BY <1>3, GroupsTyped, GotoTyped, RowsTyped DEF BeginTCC, TypeOK, LooksTyped
<1>4. ASSUME PrepareTCC(p) PROVE TypeInv'
  <2>1. pc' \in [Payment -> PC]
    BY <1>4, GotoTyped DEF PrepareTCC
  <2>2. DtmTypeOK'
    BY <1>4 DEF PrepareTCC, Prepare, MoveTrans, TypeOK, DtmTypeOK
  <2>3. QED BY <1>4, <2>1, <2>2, CallTyped DEF PrepareTCC
<1>5. ASSUME PrepareFails(p) PROVE TypeInv'
  BY <1>5, CallTyped, GotoTyped, GroupsTyped DEF PrepareFails
<1>6. ASSUME CallAccount(p) PROVE TypeInv'
  <2>1. pc' \in [Payment -> PC]
    BY <1>6, GotoTyped DEF CallAccount, Register, RegisterFails, TryAnswered, TryFails, AfterAccountTry
  <2>2. CoordinatorOnly
    BY <1>6 DEF CallAccount, Register, RegisterFails, TryAnswered, TryFails
  <2>3. UNCHANGED dtmVars \/ \E at, try \in PC : Register(p, "account", at, try)
    BY <1>6 DEF CallAccount, RegisterFails, TryAnswered, TryFails
  <2>4. QED BY <2>1, <2>2, <2>3, RegisterTyped, CallTyped, GroupsTyped
<1>7. ASSUME CallLedger(p) PROVE TypeInv'
  <2>1. pc' \in [Payment -> PC]
    BY <1>7, GotoTyped DEF CallLedger, Register, RegisterFails, TryAnswered, TryFails
  <2>2. CoordinatorOnly
    BY <1>7 DEF CallLedger, Register, RegisterFails, TryAnswered, TryFails
  <2>3. UNCHANGED dtmVars \/ \E at, try \in PC : Register(p, "ledger", at, try)
    BY <1>7 DEF CallLedger, RegisterFails, TryAnswered, TryFails
  <2>4. QED BY <2>1, <2>2, <2>3, RegisterTyped, CallTyped, GroupsTyped
<1>8. ASSUME SubmitTCC(p) PROVE TypeInv'
  <2>1. pc' \in [Payment -> PC]
    BY <1>8, GotoTyped DEF SubmitTCC
  <2>2. DtmTypeOK'
    BY <1>8 DEF SubmitTCC, Submit, MoveTrans, TypeOK, DtmTypeOK
  <2>3. QED BY <1>8, <2>1, <2>2, CallTyped DEF SubmitTCC
<1>9. ASSUME SubmitFails(p) PROVE TypeInv'
  BY <1>9, CallTyped, GotoTyped, GroupsTyped DEF SubmitFails
<1>10. ASSUME AbortTCC(p) PROVE TypeInv'
  <2>1. pc' \in [Payment -> PC]
    BY <1>10, GotoTyped DEF AbortTCC
  <2>2. DtmTypeOK'
    BY <1>10 DEF AbortTCC, Abort, MoveTrans, TypeOK, DtmTypeOK
  <2>3. QED BY <1>10, <2>1, <2>2, CallTyped DEF AbortTCC
<1>11. ASSUME Poll(p) PROVE TypeInv'
  BY <1>11, LookTyped, GroupsTyped DEF Poll, LookOnlyChangesWatch, TypeOK, Worker
<1>12. QED
  BY <1>1, <1>2, <1>3, <1>4, <1>5, <1>6, <1>7, <1>8, <1>9, <1>10, <1>11 DEF Coordinate

LEMMA WatchTyped ==
  ASSUME TypeInv, NEW w \in Worker,
         ReadReservation(w) \/ ReadLedger(w) \/ ReadDtm(w)
  PROVE  TypeInv'
<1>1. watch' \in [Worker -> Watch] /\ LooksTyped'
  <2> USE DEF TypeInv, TypeOK, LooksTyped
  <2>1. \A look \in Watch :
          watch' = [watch EXCEPT ![w] = look] /\ (look.stage # "idle" => look.payment \in Payment)
            => watch' \in [Worker -> Watch] /\ LooksTyped'
    OBVIOUS
  <2>2. watch[w] \in Watch
    OBVIOUS
  <2>3. ASSUME ReadReservation(w) PROVE watch' \in [Worker -> Watch] /\ LooksTyped'
    <3>1. watch[w].payment \in Payment
      BY <2>3 DEF ReadReservation, LooksAt
    <3> DEFINE look == [watch[w] EXCEPT !.stage = "ledger",
                                        !.reservation = reservation[watch[w].payment]]
    <3>2. look \in Watch /\ look.payment \in Payment
      BY <2>2, <3>1 DEF Watch, ParticipantsTypeOK
    <3>3. watch' = [watch EXCEPT ![w] = look]
      BY <2>3 DEF ReadReservation
    <3> HIDE DEF look
    <3>4. QED BY <2>1, <3>2, <3>3
  <2>4. ASSUME ReadLedger(w) PROVE watch' \in [Worker -> Watch] /\ LooksTyped'
    <3>1. watch[w].payment \in Payment
      BY <2>4 DEF ReadLedger, LooksAt
    <3> DEFINE look == [watch[w] EXCEPT !.stage = "dtm", !.ledger = ledger[watch[w].payment]]
    <3>2. look \in Watch /\ look.payment \in Payment
      BY <2>2, <3>1 DEF Watch, ParticipantsTypeOK
    <3>3. watch' = [watch EXCEPT ![w] = look]
      BY <2>4 DEF ReadLedger
    <3> HIDE DEF look
    <3>4. QED BY <2>1, <3>2, <3>3
  <2>5. ASSUME ReadDtm(w) PROVE watch' \in [Worker -> Watch] /\ LooksTyped'
    <3>1. watch[w].payment \in Payment
      BY <2>5 DEF ReadDtm, LooksAt
    <3>2. Idle \in Watch /\ Idle.stage = "idle"
      BY DEF Idle, Watch
    <3>3. \A stage \in Stage :
            /\ [watch[w] EXCEPT !.stage = stage] \in Watch
            /\ [watch[w] EXCEPT !.stage = stage].payment \in Payment
      BY <2>2, <3>1 DEF Watch
    <3>4. \E stage \in Stage :
            watch' = [watch EXCEPT ![w] = IF stage = "idle" THEN Idle ELSE [watch[w] EXCEPT !.stage = stage]]
      BY <2>5 DEF ReadDtm
    <3>5. QED BY <2>1, <3>2, <3>3, <3>4
  <2>6. QED BY <2>3, <2>4, <2>5
<1>2. LookOnlyChangesWatch
  BY DEF ReadReservation, ReadLedger, ReadDtm
<1>3. QED
  BY <1>1, <1>2, GroupsTyped DEF LookOnlyChangesWatch, TypeInv, TypeOK

LEMMA TypeStep == TypeInv /\ [Next]_vars => TypeInv'
<1> SUFFICES ASSUME TypeInv, [Next]_vars PROVE TypeInv'
  OBVIOUS
<1> USE DEF TypeInv
<1>1. ASSUME NEW p \in Payment, Stop(p) PROVE TypeInv'
  <2>1. pc' \in [Payment -> PC] /\ watch' \in [Worker -> Watch] /\ LooksTyped'
    BY <1>1 DEF Stop, TypeOK, LooksTyped, Idle, Watch, Worker
  <2>2. QED BY <1>1, <2>1, GroupsTyped DEF Stop, TypeOK
<1>2. ASSUME NEW w \in Worker, ActOnVerdict(w) PROVE TypeInv'
  <2>1. watch[w].payment \in Payment
    BY <1>2 DEF ActOnVerdict, LooksTyped
  <2>2. status' \in [Payment -> Status] /\ journal' \in [Payment -> Seq(Status)]
    BY <1>2, <2>1, RowsTyped, GroupsTyped DEF ActOnVerdict, Finalize
  <2>3. pc' \in [Payment -> PC] /\ watch' \in [Worker -> Watch] /\ LooksTyped'
    BY <1>2 DEF ActOnVerdict, TypeOK, LooksTyped, Idle, Watch
  <2>4. QED BY <1>2, <2>2, <2>3, GroupsTyped DEF ActOnVerdict, TypeOK
<1>3. ASSUME NEW r \in Reader, Reconcile(r) PROVE TypeInv'
  BY <1>3, LookTyped, GroupsTyped DEF Reconcile, LookOnlyChangesWatch, TypeOK, Worker
<1>4. ASSUME NEW p \in Payment, NEW b \in Branch, Deliver(p, b) PROVE TypeInv'
  <2>1. ParticipantsTypeOK'
    BY <1>4, ParticipantsTyped DEF TypeOK
  <2>2. tryAnswer' \in [Payment -> [Branch -> Answer]]
    <3>1. UNCHANGED tryAnswer \/ \E answer \in Answer : Answered(p, b, answer)
      BY <1>4 DEF Deliver, DeliverTry, DeliverConfirm, DeliverCancel
    <3>2. \A answer \in Answer : Answered(p, b, answer) => tryAnswer' \in [Payment -> [Branch -> Answer]]
      BY DEF Answered, TypeOK
    <3>3. QED BY <3>1, <3>2 DEF TypeOK
  <2>3. UNCHANGED <<dtmVars, rowVars, pc, watch, resetVars>>
    BY <1>4 DEF Deliver, DeliverTry, DeliverConfirm, DeliverCancel
  <2>4. QED BY <2>1, <2>2, <2>3, GroupsTyped DEF TypeOK, LooksTyped
<1>5. ASSUME NEW p \in Payment, DtmStep(p) PROVE TypeInv'
  <2>1. DtmTypeOK'
    <3> USE DEF TypeOK, DtmTypeOK
    <3>1. CASE Expire(p)
      BY <3>1 DEF Expire, MoveTrans
    <3>2. ASSUME NEW b \in Branch, CallBranch(p, b) PROVE DtmTypeOK'
      BY <3>2 DEF CallBranch, SecondPhaseOp, Send
    <3>3. ASSUME NEW b \in Branch, BranchDone(p, b) PROVE DtmTypeOK'
      BY <3>3 DEF BranchDone
    <3>4. CASE Finish(p)
      BY <3>4 DEF Finish
    <3>5. QED BY <1>5, <3>1, <3>2, <3>3, <3>4 DEF DtmStep
  <2>2. QED BY <1>5, <2>1, GroupsTyped DEF DtmStep, TypeOK, LooksTyped
<1>6. ASSUME EnsureNoActiveTransactions PROVE TypeInv'
  BY <1>6, GroupsTyped, RequestAssumption DEF EnsureNoActiveTransactions, TypeOK, LooksTyped
<1>7. ASSUME Reset PROVE TypeInv'
  <2>1. ParticipantsTypeOK'
    BY <1>7, AmountAssumption
    DEF Reset, Cleared, OpeningBalance, NoBarrierRows, TypeOK, ParticipantsTypeOK
  <2>2. DtmTypeOK'
    BY <1>7 DEF Reset, Cleared, TypeOK, DtmTypeOK
  <2>3. QED BY <1>7, <2>1, <2>2 DEF Reset, TypeOK, LooksTyped
<1>8. ASSUME UNCHANGED vars PROVE TypeInv'
  BY <1>8, GroupsTyped DEF vars, TypeOK, LooksTyped
<1>9. QED
  BY <1>1, <1>2, <1>3, <1>4, <1>5, <1>6, <1>7, <1>8, CoordinateTyped, WatchTyped DEF Next

\* Every variable keeps to the values the schema and the code allow.
THEOREM TypeCorrect == Spec => []TypeOK
<1>1. Spec => []TypeInv
  BY TypeInit, TypeStep, PTL DEF Spec
<1>2. TypeInv => TypeOK
  BY DEF TypeInv
<1>3. QED BY <1>1, <1>2, PTL

-----------------------------------------------------------------------------
(* The inductive invariant.  A step touches one payment; the others keep   *)
(* every value PaymentInv speaks of.                                       *)

SameParticipants(p) ==
  reservation'[p] = reservation[p] /\ ledger'[p] = ledger[p] /\ barrier'[p] = barrier[p]
SameDtm(p) ==
  trans'[p] = trans[p] /\ branches'[p] = branches[p] /\ done'[p] = done[p] /\ sent'[p] = sent[p]
SameTables(p) ==
  SameParticipants(p) /\ SameDtm(p) /\ status'[p] = status[p] /\ tryAnswer'[p] = tryAnswer[p]
SamePayment(p) == SameTables(p) /\ pc'[p] = pc[p]

LEMMA PaymentFrame ==
  ASSUME NEW p \in Payment, PaymentInv(p), SamePayment(p)
  PROVE  PaymentInv(p)'
  BY DEF PaymentInv, RowInv, BranchInv, DecisionInv, CoordinatorInv, Untouched, HasRow, Committing,
         RollingBack, SamePayment, SameTables, SameParticipants, SameDtm

\* The handler moves on to a place of which the invariant says nothing.
LEMMA PcFrame ==
  ASSUME NEW p \in Payment, PaymentInv(p), SameTables(p),
         \/ pc'[p] = "done"
         \/ /\ pc[p] \notin {"insert", "begin", "done"}
            /\ pc'[p] \in {"abort", "awaitSuccess", "awaitFailure"}
  PROVE  PaymentInv(p)'
  BY DEF PaymentInv, RowInv, BranchInv, DecisionInv, CoordinatorInv, Untouched, HasRow, Committing,
         RollingBack, SameTables, SameParticipants, SameDtm

LEMMA InitInv == Init => IInv
  BY DEF Init, ParticipantsInit, DtmInit, NoBarrierRows, Idle, IInv, PaymentInv, WatchInv, RowInv,
         BranchInv, DecisionInv, CoordinatorInv, Untouched, HasRow, Committing, RollingBack

\* What the steps of the Create handler of p leave alone.
LEMMA OthersKept ==
  ASSUME TypeOK, NEW p \in Payment, Coordinate(p), NEW q \in Payment, q # p
  PROVE  SamePayment(q)
<1> USE DEF SamePayment, SameTables, SameParticipants, SameDtm, TypeOK, DtmTypeOK, ParticipantsTypeOK,
            participantVars, dtmVars, rowVars, Goto, CoordinatorOnly
<1>1. CASE CreatePayment(p) BY <1>1 DEF CreatePayment, SetStatus
<1>2. CASE Replay(p) BY <1>2 DEF Replay
<1>3. CASE BeginTCC(p) BY <1>3 DEF BeginTCC, SetStatus
<1>4. CASE PrepareTCC(p) BY <1>4 DEF PrepareTCC, Prepare, MoveTrans
<1>5. CASE PrepareFails(p) BY <1>5 DEF PrepareFails
<1>6. CASE CallAccount(p)
  BY <1>6 DEF CallAccount, Register, RegisterBranch, Send, RegisterFails, TryAnswered, TryFails
<1>7. CASE CallLedger(p)
  BY <1>7 DEF CallLedger, Register, RegisterBranch, Send, RegisterFails, TryAnswered, TryFails
<1>8. CASE SubmitTCC(p) BY <1>8 DEF SubmitTCC, Submit, MoveTrans
<1>9. CASE SubmitFails(p) BY <1>9 DEF SubmitFails
<1>10. CASE AbortTCC(p) BY <1>10 DEF AbortTCC, Abort, MoveTrans
<1>11. CASE Poll(p) BY <1>11 DEF Poll, LookOnlyChangesWatch
<1>12. QED
  BY <1>1, <1>2, <1>3, <1>4, <1>5, <1>6, <1>7, <1>8, <1>9, <1>10, <1>11 DEF Coordinate

\* What one operation put on the wire, or one recorded in the barrier, adds.
LEMMA SendEffect ==
  ASSUME TypeOK, NEW p \in Payment, NEW b \in Branch, NEW op \in Op, Send(p, b, op)
  PROVE  /\ sent'[p][b] = sent[p][b] \cup {op}
         /\ \A c \in Branch : c # b => sent'[p][c] = sent[p][c]
         /\ \A q \in Payment : q # p => sent'[q] = sent[q]
  BY DEF Send, TypeOK, DtmTypeOK

LEMMA InsertRowsEffect ==
  ASSUME TypeOK, NEW p \in Payment, NEW b \in Branch, NEW op \in Op, InsertRows(p, b, op)
  PROVE  /\ barrier'[p][b] = barrier[p][b] \cup (IF op = "cancel" THEN {"try", op} ELSE {op})
         /\ \A c \in Branch : c # b => barrier'[p][c] = barrier[p][c]
         /\ \A q \in Payment : q # p => barrier'[q] = barrier[q]
  BY DEF InsertRows, TypeOK, ParticipantsTypeOK

\* Registering a branch and putting its try on the wire.
LEMMA RegisterInv ==
  ASSUME TypeOK, NEW p \in Payment, PaymentInv(p), NEW b \in Branch, CoordinatorOnly,
         \/ b = "account" /\ Register(p, b, "registerAccount", "tryAccount")
         \/ b = "ledger"  /\ Register(p, b, "registerLedger", "tryLedger")
  PROVE  PaymentInv(p)'
<1>1. trans[p] = "prepared" /\ trans' = trans /\ done' = done
  BY DEF Register, RegisterBranch
<1>2. branches'[p] = branches[p] \cup {b}
  BY DEF Register, RegisterBranch, TypeOK, DtmTypeOK
<1>3. \A c \in Branch :
        /\ "confirm" \in sent'[p][c] <=> "confirm" \in sent[p][c]
        /\ "cancel" \in sent'[p][c] <=> "cancel" \in sent[p][c]
        /\ "try" \in sent'[p][c] => "try" \in sent[p][c] \/ c = b
        /\ "try" \in sent[p][c] => "try" \in sent'[p][c]
  BY SendEffect DEF Register
<1>4. /\ b = "account" => pc[p] = "registerAccount" /\ pc'[p] \in {"tryAccount", "abort"}
      /\ b = "ledger" => pc[p] = "registerLedger" /\ pc'[p] \in {"tryLedger", "abort"}
  BY DEF Register, Goto, TypeOK
<1>5. SameParticipants(p) /\ status'[p] = status[p] /\ tryAnswer'[p] = tryAnswer[p]
  BY DEF CoordinatorOnly, SameParticipants, participantVars, rowVars
<1>6. status[p] # "INIT"
  BY <1>4 DEF PaymentInv, RowInv
<1> USE DEF PaymentInv, SameParticipants, HasRow
<1>7. RowInv(p)'
  BY <1>1, <1>4, <1>5, <1>6 DEF RowInv
<1>8. /\ BranchInv(p, "account", reservation[p], "FROZEN", "CONFIRMED")'
      /\ BranchInv(p, "ledger", ledger[p], "PREPARED", "POSTED")'
  BY <1>3, <1>5 DEF BranchInv
<1>9. DecisionInv(p)'
  BY <1>1, <1>2, <1>3, <1>5 DEF DecisionInv, Committing, RollingBack
<1>10. CoordinatorInv(p)'
  BY <1>2, <1>4, <1>5 DEF CoordinatorInv
<1>11. QED BY <1>7, <1>8, <1>9, <1>10

\* A try answered with success has left its row, unless the payment is gone.
LEMMA TryAnsweredInv ==
  ASSUME TypeOK, NEW p \in Payment, PaymentInv(p),
         \/ TryAnswered(p, "account", "tryAccount", AfterAccountTry(p))
         \/ TryAnswered(p, "ledger", "tryLedger", "submit")
  PROVE  PaymentInv(p)'
<1>1. SameTables(p)
  BY DEF TryAnswered, CoordinatorOnly, SameTables, SameParticipants, SameDtm, participantVars, dtmVars, rowVars
<1>2. CASE TryAnswered(p, "account", "tryAccount", AfterAccountTry(p))
  <2>1. pc[p] = "tryAccount" /\ tryAnswer[p]["account"] = "ok" /\ pc'[p] \in {"registerLedger", "abort"}
    BY <1>2 DEF TryAnswered, Goto, AfterAccountTry, TypeOK
  <2>2. QED
    BY <1>1, <2>1 DEF PaymentInv, RowInv, BranchInv, DecisionInv, CoordinatorInv, Untouched, HasRow,
                      Committing, RollingBack, SameTables, SameParticipants, SameDtm
<1>3. CASE TryAnswered(p, "ledger", "tryLedger", "submit")
  <2>1. pc[p] = "tryLedger" /\ tryAnswer[p]["ledger"] = "ok" /\ pc'[p] = "submit"
    BY <1>3 DEF TryAnswered, Goto, TypeOK
  <2>2. QED
    BY <1>1, <2>1 DEF PaymentInv, RowInv, BranchInv, DecisionInv, CoordinatorInv, Untouched, HasRow,
                      Committing, RollingBack, SameTables, SameParticipants, SameDtm
<1>4. QED BY <1>2, <1>3

\* A call that failed only moves the handler.
LEMMA CallFailsInv ==
  ASSUME TypeOK, NEW p \in Payment, PaymentInv(p), CoordinatorOnly, UNCHANGED dtmVars,
         NEW from \in PC \ {"insert", "begin", "done"}, NEW to \in {"abort", "awaitFailure"}, Goto(p, from, to)
  PROVE  PaymentInv(p)'
<1>1. pc[p] = from /\ pc'[p] = to
  BY DEF Goto, TypeOK
<1>2. SameTables(p)
  BY DEF CoordinatorOnly, SameTables, SameParticipants, SameDtm, participantVars, dtmVars, rowVars
<1>3. QED BY <1>1, <1>2, PcFrame

LEMMA CoordinateInv ==
  ASSUME TypeInv, NEW p \in Payment, PaymentInv(p), Coordinate(p)
  PROVE  PaymentInv(p)'
<1> USE DEF TypeInv
<1>1. ASSUME CreatePayment(p) PROVE PaymentInv(p)'
  <2>1. pc[p] = "insert" /\ pc'[p] = "begin" /\ status'[p] = "INIT"
    BY <1>1 DEF CreatePayment, Goto, SetStatus, TypeOK
  <2>2. SameParticipants(p) /\ SameDtm(p) /\ tryAnswer'[p] = tryAnswer[p]
    BY <1>1 DEF CreatePayment, SameParticipants, SameDtm, participantVars, dtmVars
  <2>3. QED
    BY <2>1, <2>2 DEF PaymentInv, RowInv, BranchInv, DecisionInv, CoordinatorInv, Untouched, HasRow,
                      Committing, RollingBack, SameParticipants, SameDtm
<1>2. ASSUME Replay(p) PROVE PaymentInv(p)'
  BY <1>2, PcFrame
  DEF Replay, Goto, TypeOK, SameTables, SameParticipants, SameDtm, participantVars, dtmVars, rowVars
<1>3. ASSUME BeginTCC(p) PROVE PaymentInv(p)'
  <2>1. pc[p] = "begin" /\ pc'[p] = "prepare" /\ status[p] = "INIT" /\ status'[p] = "PROCESSING"
    BY <1>3 DEF BeginTCC, Goto, SetStatus, TypeOK
  <2>2. SameParticipants(p) /\ SameDtm(p) /\ tryAnswer'[p] = tryAnswer[p]
    BY <1>3 DEF BeginTCC, SameParticipants, SameDtm, participantVars, dtmVars
  <2>3. QED
    BY <2>1, <2>2 DEF PaymentInv, RowInv, BranchInv, DecisionInv, CoordinatorInv, Untouched, HasRow,
                      Committing, RollingBack, SameParticipants, SameDtm
<1>4. ASSUME PrepareTCC(p) PROVE PaymentInv(p)'
  <2>1. pc[p] = "prepare" /\ pc'[p] \in {"registerAccount", "awaitFailure"} /\ trans'[p] = "prepared"
    BY <1>4 DEF PrepareTCC, Prepare, MoveTrans, Goto, TypeOK, DtmTypeOK
  <2>2. /\ SameParticipants(p) /\ tryAnswer'[p] = tryAnswer[p] /\ status'[p] = status[p]
        /\ branches'[p] = branches[p] /\ done'[p] = done[p] /\ sent'[p] = sent[p]
    BY <1>4 DEF PrepareTCC, CoordinatorOnly, SameParticipants, participantVars, rowVars
  <2>3. QED
    BY <2>1, <2>2 DEF PaymentInv, RowInv, BranchInv, DecisionInv, CoordinatorInv, Untouched, HasRow,
                      Committing, RollingBack, SameParticipants
<1>5. ASSUME PrepareFails(p) PROVE PaymentInv(p)'
  BY <1>5, CallFailsInv DEF PrepareFails
<1>6. ASSUME CallAccount(p) PROVE PaymentInv(p)'
  <2>1. CASE Register(p, "account", "registerAccount", "tryAccount")
    BY <2>1, RegisterInv DEF Register
  <2>2. CASE RegisterFails(p, "registerAccount")
    BY <2>2, CallFailsInv DEF RegisterFails
  <2>3. CASE TryAnswered(p, "account", "tryAccount", AfterAccountTry(p))
    BY <2>3, TryAnsweredInv
  <2>4. CASE TryFails(p, "account", "tryAccount")
    BY <2>4, CallFailsInv DEF TryFails
  <2>5. QED BY <1>6, <2>1, <2>2, <2>3, <2>4 DEF CallAccount
<1>7. ASSUME CallLedger(p) PROVE PaymentInv(p)'
  <2>1. CASE Register(p, "ledger", "registerLedger", "tryLedger")
    BY <2>1, RegisterInv DEF Register
  <2>2. CASE RegisterFails(p, "registerLedger")
    BY <2>2, CallFailsInv DEF RegisterFails
  <2>3. CASE TryAnswered(p, "ledger", "tryLedger", "submit")
    BY <2>3, TryAnsweredInv
  <2>4. CASE TryFails(p, "ledger", "tryLedger")
    BY <2>4, CallFailsInv DEF TryFails
  <2>5. QED BY <1>7, <2>1, <2>2, <2>3, <2>4 DEF CallLedger
<1>8. ASSUME SubmitTCC(p) PROVE PaymentInv(p)'
  <2>1. /\ pc[p] = "submit" /\ pc'[p] \in {"awaitSuccess", "awaitFailure"}
        /\ trans[p] = "prepared" /\ trans'[p] = "submitted"
    BY <1>8 DEF SubmitTCC, Submit, MoveTrans, Goto, TypeOK, DtmTypeOK
  <2>2. /\ SameParticipants(p) /\ tryAnswer'[p] = tryAnswer[p] /\ status'[p] = status[p]
        /\ branches'[p] = branches[p] /\ done'[p] = done[p] /\ sent'[p] = sent[p]
    BY <1>8 DEF SubmitTCC, CoordinatorOnly, SameParticipants, participantVars, rowVars
  <2>3. QED
    BY <2>1, <2>2 DEF PaymentInv, RowInv, BranchInv, DecisionInv, CoordinatorInv, Untouched, HasRow,
                      Committing, RollingBack, SameParticipants
<1>9. ASSUME SubmitFails(p) PROVE PaymentInv(p)'
  BY <1>9, CallFailsInv DEF SubmitFails
<1>10. ASSUME AbortTCC(p) PROVE PaymentInv(p)'
  <2>1. pc[p] = "abort" /\ pc'[p] = "awaitFailure"
    BY <1>10 DEF AbortTCC, Goto, TypeOK
  <2>2. /\ SameParticipants(p) /\ tryAnswer'[p] = tryAnswer[p] /\ status'[p] = status[p]
        /\ branches'[p] = branches[p] /\ done'[p] = done[p] /\ sent'[p] = sent[p]
    BY <1>10 DEF AbortTCC, CoordinatorOnly, SameParticipants, participantVars, rowVars
  <2>3. trans'[p] = trans[p] \/ (trans[p] = "prepared" /\ trans'[p] = "aborting")
    <3>1. CASE Abort(p) BY <3>1 DEF Abort, MoveTrans, TypeOK, DtmTypeOK
    <3>2. CASE UNCHANGED trans BY <3>2
    <3>3. QED BY <1>10, <3>1, <3>2 DEF AbortTCC
  <2>4. CASE trans'[p] = trans[p]
    BY <2>1, <2>2, <2>4, PcFrame DEF SameTables, SameDtm
  <2>5. CASE trans[p] = "prepared" /\ trans'[p] = "aborting"
    BY <2>1, <2>2, <2>5 DEF PaymentInv, RowInv, BranchInv, DecisionInv, CoordinatorInv, Untouched,
                            HasRow, Committing, RollingBack, SameParticipants
  <2>6. QED BY <2>3, <2>4, <2>5
<1>11. ASSUME Poll(p) PROVE PaymentInv(p)'
  BY <1>11, PaymentFrame
  DEF Poll, LookOnlyChangesWatch, SamePayment, SameTables, SameParticipants, SameDtm, participantVars,
      dtmVars, rowVars
<1>12. QED
  BY <1>1, <1>2, <1>3, <1>4, <1>5, <1>6, <1>7, <1>8, <1>9, <1>10, <1>11 DEF Coordinate

-----------------------------------------------------------------------------
(* Delivery of branch operations.                                          *)

\* What a delivery leaves alone, at the payment and elsewhere.
LEMMA DeliverKept ==
  ASSUME TypeOK, NEW p \in Payment, NEW b \in Branch, Deliver(p, b)
  PROVE  /\ \A q \in Payment : q # p => SamePayment(q)
         /\ SameDtm(p) /\ pc'[p] = pc[p] /\ status'[p] = status[p]
<1>1. UNCHANGED <<dtmVars, rowVars, pc>>
  BY DEF Deliver, DeliverTry, DeliverConfirm, DeliverCancel
<1>2. \A q \in Payment : q # p => tryAnswer'[q] = tryAnswer[q]
  BY DEF Deliver, DeliverTry, DeliverConfirm, DeliverCancel, Answered, TypeOK
<1>3. \A q \in Payment : q # p => SameParticipants(q)
  <2> USE DEF SameParticipants, TypeOK, ParticipantsTypeOK, BarrierSkips, InsertRows, RollBack, participantVars
  <2>1. CASE DeliverTry(p, b)
    BY <2>1 DEF DeliverTry, AccountTry, LedgerTry
  <2>2. CASE DeliverConfirm(p, b)
    BY <2>2 DEF DeliverConfirm, AccountConfirm, LedgerConfirm, Advance
  <2>3. CASE DeliverCancel(p, b)
    BY <2>3 DEF DeliverCancel, AccountCancel, LedgerCancel, Advance
  <2>4. QED BY <2>1, <2>2, <2>3 DEF Deliver
<1>4. QED
  BY <1>1, <1>2, <1>3 DEF SamePayment, SameTables, SameDtm, dtmVars, rowVars

\* A delivery records at most the operation that was on the wire, and for a
\* cancel the try it makes void.
Records(p, b, op) ==
  /\ op \in sent[p][b]
  /\ \A c \in Branch : barrier[p][c] \subseteq barrier'[p][c]
  /\ \A c \in Branch : c # b => barrier'[p][c] = barrier[p][c]
  /\ \A x \in Op : x \in barrier'[p][b] => x \in barrier[p][b] \/ x = op \/ (op = "cancel" /\ x = "try")
  /\ op = "cancel" => "try" \in barrier'[p][b]
  /\ \A c \in Branch : tryAnswer'[p][c] = "ok" => tryAnswer[p][c] = "ok" \/ "try" \in barrier'[p][c]

LEMMA DeliverFrame ==
  ASSUME TypeOK, NEW p \in Payment, PaymentInv(p), NEW b \in Branch, NEW op \in Op, Deliver(p, b),
         Records(p, b, op), ~HasRow(p) => reservation'[p] = "NONE" /\ ledger'[p] = "NONE"
  PROVE  RowInv(p)' /\ DecisionInv(p)' /\ CoordinatorInv(p)'
<1>1. SameDtm(p) /\ pc'[p] = pc[p] /\ status'[p] = status[p]
  BY DeliverKept
<1>2. ~Untouched(p)
  BY DEF Records, Untouched
<1> USE DEF PaymentInv, SameDtm, HasRow
<1>3. RowInv(p)'
  BY <1>1, <1>2 DEF RowInv
<1>4. DecisionInv(p)'
  BY <1>1 DEF DecisionInv, Records, Committing, RollingBack
<1>5. CoordinatorInv(p)'
  BY <1>1 DEF CoordinatorInv, Records
<1>6. QED BY <1>3, <1>4, <1>5

\* The barrier skips: only rows may be added, to a branch that keeps its state.
LEMMA SkipInv ==
  ASSUME TypeOK, NEW p \in Payment, PaymentInv(p), NEW b \in Branch, NEW op \in Op,
         BarrierSkips(p, b, op), SameDtm(p)
  PROVE  /\ BranchInv(p, "account", reservation[p], "FROZEN", "CONFIRMED")'
         /\ BranchInv(p, "ledger", ledger[p], "PREPARED", "POSTED")'
<1>1. UNCHANGED <<reservation, ledger>>
  BY DEF BarrierSkips
<1>2. \A c \in Branch : c # b => barrier'[p][c] = barrier[p][c]
  BY InsertRowsEffect DEF BarrierSkips
<1>3. \/ \A x \in Op : x \in barrier'[p][b] <=> x \in barrier[p][b]
      \/ /\ op = "cancel" /\ "try" \notin barrier[p][b]
         /\ \A x \in Op : x \in barrier'[p][b] <=> (x \in barrier[p][b] \/ x = "try" \/ x = "cancel")
  <2>1. barrier'[p][b] = barrier[p][b] \cup (IF op = "cancel" THEN {"try", op} ELSE {op})
    BY InsertRowsEffect DEF BarrierSkips
  <2>2. op \in barrier[p][b] \/ (op = "cancel" /\ "try" \notin barrier[p][b])
    BY DEF BarrierSkips, ReachesBusiness
  <2>3. "cancel" \in barrier[p][b] => "try" \in barrier[p][b]
    BY DEF PaymentInv, DecisionInv
  <2>4. QED BY <2>1, <2>2, <2>3
<1>4. BranchInv(p, "account", reservation[p], "FROZEN", "CONFIRMED")'
  BY <1>1, <1>2, <1>3 DEF BranchInv, PaymentInv, SameDtm
<1>5. BranchInv(p, "ledger", ledger[p], "PREPARED", "POSTED")'
  BY <1>1, <1>2, <1>3 DEF BranchInv, PaymentInv, SameDtm
<1>6. QED BY <1>4, <1>5

LEMMA TryInv ==
  ASSUME TypeOK, NEW p \in Payment, PaymentInv(p), NEW b \in Branch, DeliverTry(p, b)
  PROVE  PaymentInv(p)'
<1>1. SameDtm(p) /\ pc'[p] = pc[p] /\ status'[p] = status[p] /\ Deliver(p, b)
  BY DeliverKept DEF Deliver
<1>2. PICK answer \in Answer \ {"none"} :
        /\ \/ b = "account" /\ AccountTry(p, HasRow(p), answer)
           \/ b = "ledger"  /\ LedgerTry(p, Fault[p] = "ledger_try", HasRow(p), answer)
        /\ Answered(p, b, answer)
  BY DEF DeliverTry, ForeignKey
<1>3. tryAnswer'[p][b] = answer /\ \A c \in Branch : c # b => tryAnswer'[p][c] = tryAnswer[p][c]
  BY <1>2 DEF Answered, TypeOK
<1>4. "try" \in sent[p][b]
  BY DEF DeliverTry
<1>5. CASE BarrierSkips(p, b, "try")
  <2>1. Records(p, b, "try")
    BY <1>3, <1>4, <1>5, InsertRowsEffect DEF BarrierSkips, ReachesBusiness, Records
  <2>2. QED
    BY <1>1, <1>5, <2>1, SkipInv, DeliverFrame DEF PaymentInv, RowInv, BarrierSkips, HasRow
<1>6. CASE RollBack /\ answer # "ok"
  <2>1. SameParticipants(p)
    BY <1>6 DEF RollBack, participantVars, SameParticipants
  <2>2. Records(p, b, "try")
    BY <1>3, <1>4, <1>6, <2>1 DEF Records, SameParticipants
  <2>3. RowInv(p)' /\ DecisionInv(p)' /\ CoordinatorInv(p)'
    BY <1>1, <2>1, <2>2, DeliverFrame DEF PaymentInv, RowInv, SameParticipants, HasRow
  <2>4. QED
    BY <1>1, <2>1, <2>3 DEF PaymentInv, BranchInv, SameParticipants, SameDtm
<1>7. CASE /\ ReachesBusiness(p, b, "try") /\ InsertRows(p, b, "try") /\ HasRow(p)
           /\ \/ /\ b = "account" /\ reservation'[p] = "FROZEN" /\ ledger'[p] = ledger[p]
              \/ /\ b = "ledger" /\ ledger'[p] = "PREPARED" /\ reservation'[p] = reservation[p]
  <2>1. Records(p, b, "try")
    BY <1>3, <1>4, <1>7, InsertRowsEffect DEF Records
  <2>2. RowInv(p)' /\ DecisionInv(p)' /\ CoordinatorInv(p)'
    BY <1>1, <1>7, <2>1, DeliverFrame
  <2>3. "confirm" \notin barrier[p][b] /\ "cancel" \notin barrier[p][b] /\ "try" \notin barrier[p][b]
    BY <1>7 DEF ReachesBusiness, PaymentInv, DecisionInv
  <2>4. /\ \A c \in Branch : c # b => barrier'[p][c] = barrier[p][c]
        /\ barrier'[p][b] = barrier[p][b] \cup {"try"}
    BY <1>7, InsertRowsEffect
  <2>5. BranchInv(p, "account", reservation[p], "FROZEN", "CONFIRMED")'
    BY <1>1, <1>4, <1>7, <2>3, <2>4 DEF BranchInv, PaymentInv, SameDtm
  <2>6. BranchInv(p, "ledger", ledger[p], "PREPARED", "POSTED")'
    BY <1>1, <1>4, <1>7, <2>3, <2>4 DEF BranchInv, PaymentInv, SameDtm
  <2>7. QED BY <2>2, <2>5, <2>6 DEF PaymentInv
<1>8. QED
  <2>1. CASE b = "account"
    BY <1>2, <1>5, <1>6, <1>7, <2>1 DEF AccountTry, TypeOK, ParticipantsTypeOK
  <2>2. CASE b = "ledger"
    BY <1>2, <1>5, <1>6, <1>7, <2>2 DEF LedgerTry, TypeOK, ParticipantsTypeOK
  <2>3. QED BY <2>1, <2>2

\* The business code of a second-phase operation: an open branch is closed, a
\* branch in any other state keeps it.
LEMMA SecondPhaseInv ==
  ASSUME TypeOK, NEW p \in Payment, PaymentInv(p), NEW b \in Branch, NEW op \in {"confirm", "cancel"},
         Deliver(p, b), op \in sent[p][b], ReachesBusiness(p, b, op), InsertRows(p, b, op),
         UNCHANGED tryAnswer,
         b = "account" =>
           /\ ledger'[p] = ledger[p]
           /\ reservation'[p] = IF reservation[p] # "FROZEN" THEN reservation[p]
                                ELSE IF op = "confirm" THEN "CONFIRMED" ELSE "CANCELLED",
         b = "ledger" =>
           /\ reservation'[p] = reservation[p]
           /\ ledger'[p] = IF ledger[p] # "PREPARED" THEN ledger[p]
                           ELSE IF op = "confirm" THEN "POSTED" ELSE "CANCELLED"
  PROVE  PaymentInv(p)'
<1>1. SameDtm(p) /\ pc'[p] = pc[p] /\ status'[p] = status[p]
  BY DeliverKept
<1>2. /\ \A c \in Branch : c # b => barrier'[p][c] = barrier[p][c]
      /\ barrier'[p][b] = barrier[p][b] \cup (IF op = "cancel" THEN {"try", op} ELSE {op})
  BY InsertRowsEffect
<1>3. Records(p, b, op)
  BY <1>2 DEF Records
<1>4. ~HasRow(p) => reservation'[p] = "NONE" /\ ledger'[p] = "NONE"
  BY DEF PaymentInv, RowInv, HasRow
<1>5. RowInv(p)' /\ DecisionInv(p)' /\ CoordinatorInv(p)'
  BY <1>3, <1>4, DeliverFrame
<1>6. op = "cancel" => "try" \in barrier[p][b]
  BY DEF ReachesBusiness
<1>7. BranchInv(p, "account", reservation[p], "FROZEN", "CONFIRMED")'
  BY <1>1, <1>2, <1>6 DEF BranchInv, PaymentInv, SameDtm
<1>8. BranchInv(p, "ledger", ledger[p], "PREPARED", "POSTED")'
  BY <1>1, <1>2, <1>6 DEF BranchInv, PaymentInv, SameDtm
<1>9. QED BY <1>5, <1>7, <1>8 DEF PaymentInv

\* The barrier skips a second-phase operation.
LEMMA SecondPhaseSkipInv ==
  ASSUME TypeOK, NEW p \in Payment, PaymentInv(p), NEW b \in Branch, NEW op \in {"confirm", "cancel"},
         Deliver(p, b), op \in sent[p][b], BarrierSkips(p, b, op), UNCHANGED tryAnswer
  PROVE  PaymentInv(p)'
<1>1. SameDtm(p)
  BY DeliverKept
<1>2. Records(p, b, op)
  BY InsertRowsEffect DEF BarrierSkips, Records
<1>3. ~HasRow(p) => reservation'[p] = "NONE" /\ ledger'[p] = "NONE"
  BY DEF PaymentInv, RowInv, HasRow, BarrierSkips
<1>4. QED
  BY <1>1, <1>2, <1>3, SkipInv, DeliverFrame DEF PaymentInv

LEMMA ConfirmInv ==
  ASSUME TypeOK, NEW p \in Payment, PaymentInv(p), NEW b \in Branch, DeliverConfirm(p, b)
  PROVE  PaymentInv(p)'
<1>1. Deliver(p, b) /\ "confirm" \in sent[p][b] /\ UNCHANGED tryAnswer
  BY DEF Deliver, DeliverConfirm
<1>2. CASE BarrierSkips(p, b, "confirm")
  BY <1>1, <1>2, SecondPhaseSkipInv
<1>3. CASE b = "account" /\ ~BarrierSkips(p, b, "confirm")
  <2>1. AccountConfirm(p)
    BY <1>3 DEF DeliverConfirm
  <2>2. /\ ReachesBusiness(p, b, "confirm") /\ InsertRows(p, b, "confirm")
        /\ ledger'[p] = ledger[p]
        /\ reservation'[p] = IF reservation[p] # "FROZEN" THEN reservation[p] ELSE "CONFIRMED"
    BY <1>3, <2>1 DEF AccountConfirm, TypeOK, ParticipantsTypeOK
  <2>3. QED BY <1>1, <1>3, <2>2, SecondPhaseInv
<1>4. CASE b = "ledger" /\ ~BarrierSkips(p, b, "confirm")
  <2>1. LedgerConfirm(p)
    BY <1>4 DEF DeliverConfirm
  <2>2. /\ ReachesBusiness(p, b, "confirm") /\ InsertRows(p, b, "confirm")
        /\ reservation'[p] = reservation[p]
        /\ ledger'[p] = IF ledger[p] # "PREPARED" THEN ledger[p] ELSE "POSTED"
    BY <1>4, <2>1 DEF LedgerConfirm, Advance, TypeOK, ParticipantsTypeOK
  <2>3. QED BY <1>1, <1>4, <2>2, SecondPhaseInv
<1>5. QED BY <1>2, <1>3, <1>4

LEMMA CancelInv ==
  ASSUME TypeOK, NEW p \in Payment, PaymentInv(p), NEW b \in Branch, DeliverCancel(p, b)
  PROVE  PaymentInv(p)'
<1>1. Deliver(p, b) /\ "cancel" \in sent[p][b] /\ UNCHANGED tryAnswer
  BY DEF Deliver, DeliverCancel
<1>2. CASE BarrierSkips(p, b, "cancel")
  BY <1>1, <1>2, SecondPhaseSkipInv
<1>3. CASE b = "account" /\ ~BarrierSkips(p, b, "cancel")
  <2>1. AccountCancel(p)
    BY <1>3 DEF DeliverCancel
  <2>2. /\ ReachesBusiness(p, b, "cancel") /\ InsertRows(p, b, "cancel")
        /\ ledger'[p] = ledger[p]
        /\ reservation'[p] = IF reservation[p] # "FROZEN" THEN reservation[p] ELSE "CANCELLED"
    BY <1>3, <2>1 DEF AccountCancel, TypeOK, ParticipantsTypeOK
  <2>3. QED BY <1>1, <1>3, <2>2, SecondPhaseInv
<1>4. CASE b = "ledger" /\ ~BarrierSkips(p, b, "cancel")
  <2>1. LedgerCancel(p)
    BY <1>4 DEF DeliverCancel
  <2>2. /\ ReachesBusiness(p, b, "cancel") /\ InsertRows(p, b, "cancel")
        /\ reservation'[p] = reservation[p]
        /\ ledger'[p] = IF ledger[p] # "PREPARED" THEN ledger[p] ELSE "CANCELLED"
    BY <1>4, <2>1 DEF LedgerCancel, Advance, TypeOK, ParticipantsTypeOK
  <2>3. QED BY <1>1, <1>4, <2>2, SecondPhaseInv
<1>5. QED BY <1>2, <1>3, <1>4

LEMMA DeliverInv ==
  ASSUME TypeOK, NEW p \in Payment, NEW b \in Branch, Deliver(p, b),
         \A q \in Payment : PaymentInv(q)
  PROVE  \A q \in Payment : PaymentInv(q)'
<1>1. PaymentInv(p)'
  BY TryInv, ConfirmInv, CancelInv DEF Deliver
<1>2. ASSUME NEW q \in Payment, q # p PROVE PaymentInv(q)'
  <2>1. SamePayment(q)
    BY <1>2, DeliverKept
  <2>2. QED BY <2>1, PaymentFrame
<1>3. QED BY <1>1, <1>2

-----------------------------------------------------------------------------
(* Steps of DTM and of Reset.                                              *)

LEMMA DtmStepInv ==
  ASSUME TypeOK, NEW p \in Payment, PaymentInv(p), DtmStep(p)
  PROVE  PaymentInv(p)'
<1>1. /\ SameParticipants(p) /\ tryAnswer'[p] = tryAnswer[p]
      /\ status'[p] = status[p] /\ pc'[p] = pc[p]
  BY DEF DtmStep, SameParticipants, participantVars, rowVars
<1> USE DEF PaymentInv, SameParticipants, HasRow
<1>2. CASE Expire(p)
  <2>1. trans[p] = "prepared" /\ trans'[p] = "aborting" /\ UNCHANGED <<branches, done, sent>>
    BY <1>2 DEF Expire, MoveTrans, TypeOK, DtmTypeOK
  <2>2. QED
    BY <1>1, <2>1 DEF RowInv, BranchInv, DecisionInv, CoordinatorInv, Untouched, Committing, RollingBack
<1>3. ASSUME NEW b \in Branch, CallBranch(p, b) PROVE PaymentInv(p)'
  <2>1. trans[p] \in {"submitted", "aborting"} /\ b \in branches[p] /\ UNCHANGED <<trans, branches, done>>
    BY <1>3 DEF CallBranch, NextBranch
  <2>2. /\ trans[p] = "submitted" => SecondPhaseOp(p) = "confirm"
        /\ trans[p] = "aborting" => SecondPhaseOp(p) = "cancel"
    BY DEF SecondPhaseOp
  <2>3. /\ sent'[p][b] = sent[p][b] \cup {SecondPhaseOp(p)}
        /\ \A c \in Branch : c # b => sent'[p][c] = sent[p][c]
    BY <1>3, <2>1, <2>2, SendEffect DEF CallBranch
  <2>4. RowInv(p)'
    BY <1>1, <2>1, <2>2, <2>3 DEF RowInv, Untouched
  <2>5. /\ BranchInv(p, "account", reservation[p], "FROZEN", "CONFIRMED")'
        /\ BranchInv(p, "ledger", ledger[p], "PREPARED", "POSTED")'
    BY <1>1, <2>3 DEF BranchInv
  <2>6. DecisionInv(p)'
    BY <1>1, <2>1, <2>2, <2>3 DEF DecisionInv, Committing, RollingBack
  <2>7. CoordinatorInv(p)'
    BY <1>1, <2>1 DEF CoordinatorInv
  <2>8. QED BY <2>4, <2>5, <2>6, <2>7
<1>4. ASSUME NEW b \in Branch, BranchDone(p, b) PROVE PaymentInv(p)'
  <2>1. /\ trans[p] \in {"submitted", "aborting"} /\ b \in branches[p]
        /\ UNCHANGED <<trans, branches, sent>> /\ done'[p] = done[p] \cup {b}
    BY <1>4 DEF BranchDone, NextBranch, TypeOK, DtmTypeOK
  <2>2. /\ trans[p] = "submitted" => "confirm" \in barrier[p][b]
        /\ trans[p] = "aborting" => "cancel" \in barrier[p][b]
    BY <1>4 DEF BranchDone, SecondPhaseOp
  <2>3. DecisionInv(p)'
    BY <1>1, <2>1, <2>2 DEF DecisionInv, Committing, RollingBack
  <2>4. QED
    BY <1>1, <2>1, <2>3 DEF RowInv, BranchInv, CoordinatorInv, Untouched
<1>5. CASE Finish(p)
  <2>1. /\ done[p] = branches[p] /\ UNCHANGED <<branches, done, sent>>
        /\ \/ trans[p] = "submitted" /\ trans'[p] = "succeed"
           \/ trans[p] = "aborting" /\ trans'[p] = "failed"
    BY <1>5 DEF Finish, TypeOK, DtmTypeOK
  <2>2. QED
    BY <1>1, <2>1 DEF RowInv, BranchInv, DecisionInv, CoordinatorInv, Untouched, Committing, RollingBack
<1>6. QED BY <1>2, <1>3, <1>4, <1>5 DEF DtmStep

LEMMA DtmOthersKept ==
  ASSUME TypeOK, NEW p \in Payment, DtmStep(p), NEW q \in Payment, q # p
  PROVE  SamePayment(q)
<1> USE DEF SamePayment, SameTables, SameParticipants, SameDtm, TypeOK, DtmTypeOK, participantVars, rowVars
<1>1. CASE Expire(p)
  BY <1>1 DEF DtmStep, Expire, MoveTrans
<1>2. ASSUME NEW b \in Branch, CallBranch(p, b) PROVE SamePayment(q)
  BY <1>2 DEF DtmStep, CallBranch, Send
<1>3. ASSUME NEW b \in Branch, BranchDone(p, b) PROVE SamePayment(q)
  BY <1>3 DEF DtmStep, BranchDone
<1>4. CASE Finish(p)
  BY <1>4 DEF DtmStep, Finish
<1>5. QED BY <1>1, <1>2, <1>3, <1>4 DEF DtmStep

\* A reset deletes what hangs on the payments it finds; a payment that got no
\* gid has nothing that hangs on it.
LEMMA ResetInv ==
  ASSUME TypeOK, NEW p \in Payment, PaymentInv(p), Reset
  PROVE  PaymentInv(p)'
<1>1. /\ status'[p] = "NONE" /\ reservation'[p] = "NONE" /\ ledger'[p] = "NONE"
      /\ sent'[p] = sent[p] /\ pc'[p] = pc[p] /\ tryAnswer'[p] = tryAnswer[p]
  BY DEF Reset
<1> USE DEF PaymentInv, HasRow
<1>2. CASE HasGid(p)
  <2>1. /\ trans'[p] = "NONE" /\ branches'[p] = {} /\ done'[p] = {}
        /\ \A b \in Branch : barrier'[p][b] = {}
    BY <1>2 DEF Reset, Cleared, NoBarrierRows
  <2>2. RowInv(p)'
    BY <1>1, <1>2, <2>1 DEF RowInv, Untouched, HasGid
  <2>3. QED
    BY <1>1, <2>1, <2>2 DEF BranchInv, DecisionInv, CoordinatorInv
<1>3. CASE ~HasGid(p)
  <2>1. trans'[p] = trans[p] /\ branches'[p] = branches[p] /\ done'[p] = done[p] /\ barrier'[p] = barrier[p]
    BY <1>3 DEF Reset, Cleared
  <2>2. reservation[p] = "NONE" /\ ledger[p] = "NONE"
    BY <1>3 DEF RowInv, HasGid, Untouched
  <2>3. QED
    BY <1>1, <2>1, <2>2 DEF RowInv, BranchInv, DecisionInv, CoordinatorInv, Untouched
<1>4. QED BY <1>2, <1>3

-----------------------------------------------------------------------------
(* Looks at payments, and the verdicts drawn from them.                    *)

LEMMA VerdictInv ==
  ASSUME TypeInv, NEW w \in Worker, WatchInv(w), ActOnVerdict(w), NEW p \in Payment, PaymentInv(p)
  PROVE  /\ PaymentInv(p)'
         /\ trans' = trans /\ pc'[p] \in {pc[p], "done"} /\ (HasRow(p)' <=> HasRow(p))
<1>1. SameParticipants(p) /\ SameDtm(p) /\ tryAnswer'[p] = tryAnswer[p] /\ trans' = trans
  BY DEF ActOnVerdict, SameParticipants, SameDtm, participantVars, dtmVars
<1>2. pc'[p] \in {pc[p], "done"}
  BY DEF ActOnVerdict
<1>3. watch[w].payment \in Payment /\ watch[w].stage \in {"SUCCESS", "FAILED"}
  BY DEF ActOnVerdict, TypeInv, LooksTyped
<1>4. CASE status'[p] = status[p]
  <2>1. CASE pc'[p] = "done"
    BY <1>1, <1>4, <2>1, PcFrame DEF SameTables, HasRow
  <2>2. CASE pc'[p] = pc[p]
    BY <1>1, <1>4, <2>2, PaymentFrame DEF SameTables, SamePayment, HasRow
  <2>3. QED BY <1>1, <1>2, <1>4, <2>1, <2>2 DEF HasRow
<1>5. CASE status'[p] # status[p]
  <2>1. status[p] = "PROCESSING" /\ status'[p] = watch[w].stage /\ watch[w].payment = p
    BY <1>3, <1>5 DEF ActOnVerdict, Finalize, SetStatus, rowVars, TypeInv, TypeOK
  <2>2. /\ status'[p] \in {"SUCCESS", "FAILED"}
        /\ status'[p] = "SUCCESS" => trans[p] = "succeed"
        /\ status'[p] = "FAILED" => trans[p] = "failed"
    BY <1>3, <2>1 DEF WatchInv, HasRow
  <2>3. RowInv(p)'
    BY <1>1, <1>2, <2>1, <2>2 DEF PaymentInv, RowInv, Untouched, SameDtm, SameParticipants
  <2>4. PaymentInv(p)'
    BY <1>1, <1>2, <2>1, <2>2, <2>3
    DEF PaymentInv, BranchInv, DecisionInv, CoordinatorInv, HasRow, Committing, RollingBack, SameDtm,
        SameParticipants
  <2>5. QED BY <1>1, <1>2, <2>1, <2>2, <2>4 DEF HasRow
<1>6. QED BY <1>4, <1>5

\* Every step keeps the invariant of every payment.
LEMMA PaymentStep ==
  ASSUME TypeInv, IInv, Next, NEW p \in Payment
  PROVE  PaymentInv(p)'
<1> USE DEF TypeInv
<1>1. \A q \in Payment : PaymentInv(q)
  BY DEF IInv
<1>2. ASSUME NEW q \in Payment, Coordinate(q) PROVE PaymentInv(p)'
  BY <1>1, <1>2, CoordinateInv, OthersKept, PaymentFrame
<1>3. ASSUME NEW q \in Payment, Stop(q) PROVE PaymentInv(p)'
  <2>1. SameTables(p)
    BY <1>3 DEF Stop, SameTables, SameParticipants, SameDtm, participantVars, dtmVars, rowVars
  <2>2. pc'[p] = pc[p] \/ pc'[p] = "done"
    BY <1>3 DEF Stop, TypeOK
  <2>3. QED BY <1>1, <2>1, <2>2, PcFrame, PaymentFrame DEF SamePayment
<1>4. ASSUME LookOnlyChangesWatch PROVE PaymentInv(p)'
  <2>1. SamePayment(p)
    BY <1>4 DEF LookOnlyChangesWatch, SamePayment, SameTables, SameParticipants, SameDtm, participantVars,
                dtmVars, rowVars
  <2>2. QED BY <1>1, <2>1, PaymentFrame
<1>5. ASSUME NEW w \in Worker, ActOnVerdict(w) PROVE PaymentInv(p)'
  BY <1>1, <1>5, VerdictInv DEF IInv
<1>6. ASSUME NEW q \in Payment, NEW b \in Branch, Deliver(q, b) PROVE PaymentInv(p)'
  BY <1>1, <1>6, DeliverInv
<1>7. ASSUME NEW q \in Payment, DtmStep(q) PROVE PaymentInv(p)'
  BY <1>1, <1>7, DtmStepInv, DtmOthersKept, PaymentFrame
<1>8. ASSUME EnsureNoActiveTransactions PROVE PaymentInv(p)'
  <2>1. SamePayment(p)
    BY <1>8 DEF EnsureNoActiveTransactions, SamePayment, SameTables, SameParticipants, SameDtm,
                participantVars, dtmVars, rowVars
  <2>2. QED BY <1>1, <2>1, PaymentFrame
<1>9. ASSUME Reset PROVE PaymentInv(p)'
  BY <1>1, <1>9, ResetInv
<1>10. QED
  BY <1>2, <1>3, <1>4, <1>5, <1>6, <1>7, <1>8, <1>9
  DEF Next, ReadReservation, ReadLedger, ReadDtm, Reconcile

\* A handler never starts over, and a finished global transaction stays as it
\* is while its payment exists.
Settled(p) ==
  pc[p] # "insert" =>
    /\ pc'[p] # "insert"
    /\ HasRow(p)' => HasRow(p) /\ (trans[p] \in {"succeed", "failed"} => trans'[p] = trans[p])

LEMMA SettledStep ==
  ASSUME TypeInv, IInv, Next, NEW p \in Payment
  PROVE  Settled(p)
<1> USE DEF TypeInv, Settled, HasRow
<1>1. ASSUME SamePayment(p) PROVE Settled(p)
  BY <1>1 DEF SamePayment, SameTables, SameDtm
<1>2. ASSUME NEW q \in Payment, Coordinate(q) PROVE Settled(p)
  <2>1. CASE q # p
    BY <1>1, <1>2, <2>1, OthersKept
  <2>2. CASE q = p
    <3> USE <2>2 DEF Goto, CoordinatorOnly, rowVars, dtmVars, TypeOK, DtmTypeOK
    <3>1. CASE CreatePayment(q) \/ Replay(q)
      BY <3>1 DEF CreatePayment, Replay
    <3>2. CASE BeginTCC(q)
      BY <3>2 DEF BeginTCC, SetStatus
    <3>3. CASE PrepareTCC(q) \/ PrepareFails(q)
      BY <3>3 DEF PrepareTCC, Prepare, MoveTrans, PrepareFails
    <3>4. CASE CallAccount(q)
      BY <3>4 DEF CallAccount, Register, RegisterBranch, RegisterFails, TryAnswered, TryFails, AfterAccountTry
    <3>5. CASE CallLedger(q)
      BY <3>5 DEF CallLedger, Register, RegisterBranch, RegisterFails, TryAnswered, TryFails
    <3>6. CASE SubmitTCC(q) \/ SubmitFails(q)
      BY <3>6 DEF SubmitTCC, Submit, MoveTrans, SubmitFails
    <3>7. CASE AbortTCC(q)
      BY <3>7 DEF AbortTCC, Abort, MoveTrans
    <3>8. CASE Poll(q)
      BY <3>8 DEF Poll, LookOnlyChangesWatch
    <3>9. QED
      BY <1>2, <3>1, <3>2, <3>3, <3>4, <3>5, <3>6, <3>7, <3>8 DEF Coordinate
  <2>3. QED BY <2>1, <2>2
<1>3. ASSUME NEW q \in Payment, Stop(q) PROVE Settled(p)
  BY <1>3 DEF Stop, TypeOK, dtmVars, rowVars
<1>4. ASSUME LookOnlyChangesWatch PROVE Settled(p)
  BY <1>4 DEF LookOnlyChangesWatch, dtmVars, rowVars
<1>5. ASSUME NEW w \in Worker, ActOnVerdict(w) PROVE Settled(p)
  BY <1>5, VerdictInv DEF IInv
<1>6. ASSUME NEW q \in Payment, NEW b \in Branch, Deliver(q, b) PROVE Settled(p)
  BY <1>1, <1>6, DeliverKept DEF SameDtm
<1>7. ASSUME NEW q \in Payment, DtmStep(q) PROVE Settled(p)
  <2>1. CASE q # p
    BY <1>1, <1>7, <2>1, DtmOthersKept
  <2>2. CASE q = p
    <3>1. pc' = pc /\ status' = status
      BY <1>7 DEF DtmStep, rowVars
    <3>2. trans[p] \in {"succeed", "failed"} => trans'[p] = trans[p]
      BY <1>7, <2>2 DEF DtmStep, Expire, MoveTrans, CallBranch, BranchDone, Finish
    <3>3. QED BY <3>1, <3>2
  <2>3. QED BY <2>1, <2>2
<1>8. ASSUME EnsureNoActiveTransactions PROVE Settled(p)
  BY <1>8 DEF EnsureNoActiveTransactions, dtmVars, rowVars
<1>9. ASSUME Reset PROVE Settled(p)
  BY <1>9 DEF Reset
<1>10. QED
  BY <1>2, <1>3, <1>4, <1>5, <1>6, <1>7, <1>8, <1>9
  DEF Next, ReadReservation, ReadLedger, ReadDtm, Reconcile

LEMMA WatchKept ==
  ASSUME TypeInv, NEW w \in Worker, WatchInv(w), \A p \in Payment : Settled(p), watch'[w] = watch[w]
  PROVE  WatchInv(w)'
<1>1. watch[w].stage # "idle" => watch[w].payment \in Payment
  BY DEF TypeInv, LooksTyped
<1>2. QED BY <1>1 DEF WatchInv, Settled

LEMMA LookStarts ==
  ASSUME TypeInv, NEW v \in Worker, NEW q \in Payment, NEW want, Look(v, q, want), pc'[q] # "insert",
         NEW w \in Worker, watch'[w] = watch[w] => WatchInv(w)'
  PROVE  WatchInv(w)'
<1>1. CASE w = v
  <2>1. watch'[w].stage = "reservation" /\ watch'[w].payment = q
    BY <1>1 DEF Look, Idle, TypeInv, TypeOK
  <2>2. QED BY <2>1 DEF WatchInv
<1>2. CASE w # v
  BY <1>2 DEF Look, TypeInv, TypeOK
<1>3. QED BY <1>1, <1>2

\* The verdict of a look comes from the status DTM showed last.
LEMMA ReadInv ==
  ASSUME TypeInv, NEW v \in Worker, WatchInv(v), ReadReservation(v) \/ ReadLedger(v) \/ ReadDtm(v)
  PROVE  WatchInv(v)'
<1> USE DEF TypeInv, TypeOK
<1>1. pc' = pc /\ trans' = trans /\ status' = status
  BY DEF ReadReservation, ReadLedger, ReadDtm, LookOnlyChangesWatch, dtmVars, rowVars
<1>2. watch[v] \in Watch /\ watch[v].stage # "idle" /\ pc[watch[v].payment] # "insert"
  BY DEF ReadReservation, ReadLedger, ReadDtm, LooksAt, WatchInv
<1>3. CASE ReadReservation(v)
  <2>1. watch'[v].stage = "ledger" /\ watch'[v].payment = watch[v].payment
    BY <1>2, <1>3 DEF ReadReservation, Watch
  <2>2. QED BY <1>1, <1>2, <2>1 DEF WatchInv
<1>4. CASE ReadLedger(v)
  <2>1. watch'[v].stage = "dtm" /\ watch'[v].payment = watch[v].payment
    BY <1>2, <1>4 DEF ReadLedger, Watch
  <2>2. QED BY <1>1, <1>2, <2>1 DEF WatchInv
<1>5. CASE ReadDtm(v)
  <2>1. PICK stage \in {"idle", "SUCCESS", "FAILED"} :
          /\ stage = "SUCCESS" => trans[watch[v].payment] = "succeed"
          /\ stage = "FAILED" => trans[watch[v].payment] = "failed"
          /\ watch' = [watch EXCEPT ![v] = IF stage = "idle" THEN Idle ELSE [watch[v] EXCEPT !.stage = stage]]
    BY <1>5 DEF ReadDtm, ProvesSuccess, ProvesFailure
  <2>2. CASE stage = "idle"
    BY <2>1, <2>2 DEF Idle, WatchInv
  <2>3. CASE stage # "idle"
    <3>1. watch'[v].stage = stage /\ watch'[v].payment = watch[v].payment
      BY <1>2, <2>1, <2>3 DEF Watch
    <3>2. QED BY <1>1, <1>2, <2>1, <2>3, <3>1 DEF WatchInv, HasRow
  <2>4. QED BY <2>2, <2>3
<1>6. QED BY <1>3, <1>4, <1>5

LEMMA WatchStep ==
  ASSUME TypeInv, IInv, Next, NEW w \in Worker
  PROVE  WatchInv(w)'
<1> USE DEF TypeInv, TypeOK
<1>1. \A p \in Payment : Settled(p)
  BY SettledStep
<1>2. watch'[w] = watch[w] => WatchInv(w)'
  BY <1>1, WatchKept DEF IInv
<1>3. watch'[w].stage = "idle" => WatchInv(w)'
  BY DEF WatchInv
<1>4. ASSUME NEW p \in Payment, Coordinate(p) PROVE WatchInv(w)'
  <2>1. CASE watch' = watch
    BY <1>2, <2>1
  <2>2. CASE Poll(p)
    <3>1. PICK want : Look(p, p, want)
      BY <2>2 DEF Poll
    <3>2. pc'[p] # "insert"
      BY <2>2 DEF Poll, LookOnlyChangesWatch
    <3>3. QED BY <1>2, <3>1, <3>2, LookStarts DEF Worker
  <2>3. CASE Replay(p) /\ watch' # watch
    <3>1. PICK q \in Payment : status[q] = "PROCESSING" /\ Look(p, q, "either") /\ Goto(p, "insert", "done")
      BY <2>3 DEF Replay
    <3>2. pc[q] # "insert"
      BY <3>1 DEF IInv, PaymentInv, RowInv
    <3>3. pc'[q] # "insert"
      BY <1>1, <3>2 DEF Settled
    <3>4. QED BY <1>2, <3>1, <3>3, LookStarts DEF Worker
  <2>4. QED
    BY <1>4, <2>1, <2>2, <2>3
    DEF Coordinate, CreatePayment, BeginTCC, PrepareTCC, PrepareFails, CallAccount, CallLedger, Register,
        RegisterFails, TryAnswered, TryFails, SubmitTCC, SubmitFails, AbortTCC, CoordinatorOnly
<1>5. ASSUME NEW v \in Worker, Stop(v) \/ ActOnVerdict(v) PROVE WatchInv(w)'
  BY <1>2, <1>3, <1>5 DEF Stop, ActOnVerdict, Idle
<1>6. ASSUME NEW v \in Worker, ReadReservation(v) \/ ReadLedger(v) \/ ReadDtm(v) PROVE WatchInv(w)'
  <2>1. CASE w = v
    BY <1>6, <2>1, ReadInv DEF IInv
  <2>2. CASE w # v
    BY <1>2, <1>6, <2>2 DEF ReadReservation, ReadLedger, ReadDtm
  <2>3. QED BY <2>1, <2>2
<1>7. ASSUME NEW r \in Reader, Reconcile(r) PROVE WatchInv(w)'
  <2>1. PICK q \in Payment : status[q] = "PROCESSING" /\ Look(r, q, "either")
    BY <1>7 DEF Reconcile
  <2>2. pc'[q] # "insert"
    BY <1>7, <2>1 DEF Reconcile, LookOnlyChangesWatch, IInv, PaymentInv, RowInv
  <2>3. QED BY <1>2, <2>1, <2>2, LookStarts DEF Worker
<1>8. ASSUME UNCHANGED watch PROVE WatchInv(w)'
  BY <1>2, <1>8
<1>9. QED
  BY <1>4, <1>5, <1>6, <1>7, <1>8
  DEF Next, Worker, Deliver, DeliverTry, DeliverConfirm, DeliverCancel, DtmStep,
      EnsureNoActiveTransactions, Reset

\* The invariant is inductive.
LEMMA InvStep == TypeInv /\ IInv /\ [Next]_vars => IInv'
<1> SUFFICES ASSUME TypeInv, IInv, [Next]_vars PROVE IInv'
  OBVIOUS
<1>1. CASE Next
  BY <1>1, PaymentStep, WatchStep DEF IInv
<1>2. CASE UNCHANGED vars
  <2>1. ASSUME NEW p \in Payment PROVE PaymentInv(p)'
    BY <1>2, PaymentFrame
    DEF IInv, SamePayment, SameTables, SameParticipants, SameDtm, vars, participantVars, dtmVars, rowVars
  <2>2. ASSUME NEW w \in Worker PROVE WatchInv(w)'
    BY <1>2 DEF IInv, WatchInv, HasRow, vars, dtmVars, rowVars
  <2>3. QED BY <2>1, <2>2 DEF IInv
<1>3. QED BY <1>1, <1>2

LEMMA Invariant == Spec => [](TypeInv /\ IInv)
  BY TypeInit, TypeStep, InitInv, InvStep, PTL DEF Spec

-----------------------------------------------------------------------------
(* What follows from it.                                                   *)

\* One confirmed branch means that both reserved and none is cancelled.
THEOREM AtomicCommitment == Spec => []AtomicOutcome
<1>1. TypeInv /\ IInv => AtomicOutcome
  <2> SUFFICES ASSUME TypeInv, NEW p \in Payment, PaymentInv(p),
                      reservation[p] = "CONFIRMED" \/ ledger[p] = "POSTED"
               PROVE  /\ reservation[p] \in {"FROZEN", "CONFIRMED"}
                      /\ ledger[p] \in {"PREPARED", "POSTED"}
    BY DEF AtomicOutcome, IInv
  <2>1. HasRow(p)
    BY DEF PaymentInv, RowInv, HasRow
  <2>2. Committing(p)
    BY <2>1 DEF PaymentInv, BranchInv, DecisionInv
  <2>3. ~RollingBack(p)
    BY <2>2 DEF Committing, RollingBack
  <2>4. \A b \in Branch : "try" \in barrier[p][b] /\ "cancel" \notin barrier[p][b]
    BY <2>1, <2>2, <2>3 DEF PaymentInv, DecisionInv
  <2>5. reservation[p] \notin {"NONE", "CANCELLED"} /\ ledger[p] \notin {"NONE", "CANCELLED"}
    BY <2>4 DEF PaymentInv, BranchInv
  <2>6. QED BY <2>5 DEF TypeInv, TypeOK, ParticipantsTypeOK
<1>2. QED BY <1>1, Invariant, PTL

\* Behind a finished global transaction nothing is left open, late tries
\* included.
THEOREM Suspension == Spec => []NothingLeftHanging
<1>1. TypeInv /\ IInv => NothingLeftHanging
  <2> SUFFICES ASSUME TypeInv, NEW p \in Payment, PaymentInv(p), trans[p] \in {"succeed", "failed"}
               PROVE  reservation[p] # "FROZEN" /\ ledger[p] # "PREPARED"
    BY DEF NothingLeftHanging, IInv
  <2>1. CASE ~HasRow(p)
    BY <2>1 DEF PaymentInv, RowInv, HasRow
  <2>2. CASE HasRow(p)
    <3>1. \A b \in Branch : "try" \in sent[p][b] => b \in done[p]
      BY <2>2 DEF PaymentInv, DecisionInv
    <3>2. Committing(p) \/ RollingBack(p)
      BY DEF Committing, RollingBack
    <3>3. \A b \in Branch : "try" \in sent[p][b] => "confirm" \in barrier[p][b] \/ "cancel" \in barrier[p][b]
      BY <2>2, <3>1, <3>2 DEF PaymentInv, DecisionInv
    <3>4. QED BY <3>3 DEF PaymentInv, BranchInv
  <2>3. QED BY <2>1, <2>2
<1>2. QED BY <1>1, Invariant, PTL

\* A finished global transaction of a payment is proved by the rows it left.
THEOREM Conclusive == Spec => []EvidenceSuffices
<1>1. TypeInv /\ IInv /\ NothingLeftHanging => EvidenceSuffices
  <2> SUFFICES ASSUME TypeInv, NothingLeftHanging, NEW p \in Payment, PaymentInv(p), HasRow(p)
               PROVE  /\ trans[p] = "succeed" => reservation[p] = "CONFIRMED" /\ ledger[p] = "POSTED"
                      /\ trans[p] = "failed" => reservation[p] # "FROZEN" /\ ledger[p] # "POSTED"
    BY DEF EvidenceSuffices, IInv, ProvesSuccess, ProvesFailure
  <2>1. ASSUME trans[p] = "succeed" PROVE reservation[p] = "CONFIRMED" /\ ledger[p] = "POSTED"
    <3>1. Committing(p) /\ ~RollingBack(p)
      BY <2>1 DEF Committing, RollingBack
    <3>2. \A b \in Branch : "try" \in barrier[p][b] /\ "cancel" \notin barrier[p][b]
      BY <3>1 DEF PaymentInv, DecisionInv
    <3>3. reservation[p] \notin {"NONE", "CANCELLED"} /\ ledger[p] \notin {"NONE", "CANCELLED"}
      BY <3>2 DEF PaymentInv, BranchInv
    <3>4. QED
      BY <2>1, <3>3 DEF NothingLeftHanging, TypeInv, TypeOK, ParticipantsTypeOK
  <2>2. ASSUME trans[p] = "failed" PROVE reservation[p] # "FROZEN" /\ ledger[p] # "POSTED"
    <3>1. \A b \in Branch : "confirm" \notin barrier[p][b]
      BY <2>2 DEF PaymentInv, DecisionInv, Committing
    <3>2. QED BY <2>2, <3>1 DEF PaymentInv, BranchInv, NothingLeftHanging
  <2>3. QED BY <2>1, <2>2
<1>2. QED BY <1>1, Invariant, Suspension, PTL

\* A terminal status is backed by both branches and by DTM.
THEOREM TerminalBacked == Spec => []TerminalHasEvidence
<1>1. TypeInv /\ IInv /\ AtomicOutcome /\ NothingLeftHanging /\ EvidenceSuffices => TerminalHasEvidence
  <2> SUFFICES ASSUME TypeInv, NEW p \in Payment, PaymentInv(p), AtomicOutcome, NothingLeftHanging, EvidenceSuffices
               PROVE  /\ status[p] = "SUCCESS" =>
                           reservation[p] = "CONFIRMED" /\ ledger[p] = "POSTED" /\ trans[p] = "succeed"
                      /\ status[p] = "FAILED" =>
                           /\ reservation[p] \in {"NONE", "CANCELLED"}
                           /\ ledger[p] \in {"NONE", "CANCELLED"}
                           /\ trans[p] = "failed"
    BY DEF TerminalHasEvidence, IInv
  <2>1. ASSUME status[p] = "SUCCESS"
        PROVE  reservation[p] = "CONFIRMED" /\ ledger[p] = "POSTED" /\ trans[p] = "succeed"
    <3>1. trans[p] = "succeed" /\ HasRow(p)
      BY <2>1 DEF PaymentInv, RowInv, HasRow
    <3>2. QED BY <3>1 DEF EvidenceSuffices, ProvesSuccess
  <2>2. ASSUME status[p] = "FAILED"
        PROVE  /\ reservation[p] \in {"NONE", "CANCELLED"}
               /\ ledger[p] \in {"NONE", "CANCELLED"}
               /\ trans[p] = "failed"
    <3>1. trans[p] = "failed" /\ HasRow(p)
      BY <2>2 DEF PaymentInv, RowInv, HasRow
    <3>2. reservation[p] # "FROZEN" /\ ledger[p] \notin {"POSTED", "PREPARED"}
      BY <3>1 DEF EvidenceSuffices, ProvesFailure, NothingLeftHanging
    <3>3. reservation[p] # "CONFIRMED"
      BY <3>2 DEF AtomicOutcome
    <3>4. QED BY <3>1, <3>2, <3>3 DEF TypeInv, TypeOK, ParticipantsTypeOK
  <2>3. QED BY <2>1, <2>2
<1>2. QED BY <1>1, Invariant, AtomicCommitment, Suspension, Conclusive, PTL

\* Nothing is held for a payment that does not exist, whatever arrives after
\* a reset.
THEOREM NothingForNobody == Spec => []NothingHeldForNobody
<1>1. TypeInv /\ IInv => NothingHeldForNobody
  BY DEF NothingHeldForNobody, IInv, PaymentInv, RowInv, HasRow
<1>2. QED BY <1>1, Invariant, PTL

\* Payment rows have different keys.
UniqueKeys == \A p, q \in Payment : HasRow(p) /\ HasRow(q) /\ Key[p] = Key[q] => p = q

LEMMA RowsAppear ==
  ASSUME TypeInv, IInv, [Next]_vars, NEW p \in Payment, HasRow(p)'
  PROVE  HasRow(p) \/ CreatePayment(p)
<1> USE DEF TypeInv
<1>1. CASE pc[p] # "insert"
  <2>1. CASE Next
    BY <1>1, <2>1, SettledStep DEF Settled
  <2>2. CASE UNCHANGED vars
    BY <2>2 DEF vars, rowVars, HasRow
  <2>3. QED BY <2>1, <2>2
<1>2. CASE pc[p] = "insert" /\ ~HasRow(p)
  <2>1. status'[p] # status[p]
    BY <1>2 DEF HasRow
  <2>2. ~SamePayment(p)
    BY <2>1 DEF SamePayment, SameTables
  <2>3. ASSUME NEW q \in Payment, Coordinate(q) PROVE CreatePayment(p)
    <3>1. q = p
      BY <2>2, <2>3, OthersKept
    <3>2. QED
      BY <1>2, <2>1, <2>3, <3>1
      DEF Coordinate, Replay, BeginTCC, PrepareTCC, PrepareFails, CallAccount, CallLedger, Register,
          RegisterFails, TryAnswered, TryFails, SubmitTCC, SubmitFails, AbortTCC, Poll, CoordinatorOnly,
          LookOnlyChangesWatch, Goto, rowVars
  <2>4. ASSUME NEW w \in Worker, ActOnVerdict(w) PROVE FALSE
    BY <1>2, <2>1, <2>4, VerdictInv DEF IInv, HasRow
  <2>5. ~Reset
    BY DEF Reset, HasRow
  <2>6. CASE Next
    BY <2>1, <2>3, <2>4, <2>5, <2>6
    DEF Next, Stop, ReadReservation, ReadLedger, ReadDtm, Reconcile, LookOnlyChangesWatch, Deliver, DeliverTry,
        DeliverConfirm, DeliverCancel, DtmStep, EnsureNoActiveTransactions, rowVars
  <2>7. QED BY <2>1, <2>6 DEF vars, rowVars
<1>3. QED BY <1>1, <1>2

\* Retries of a key, and resets in between, take money at most once.
THEOREM ChargedOnce == Spec => []ChargedOncePerKey
<1>1. Init => UniqueKeys
  BY DEF Init, UniqueKeys, HasRow
<1>2. TypeInv /\ IInv /\ UniqueKeys /\ [Next]_vars => UniqueKeys'
  <2> SUFFICES ASSUME TypeInv, IInv, UniqueKeys, [Next]_vars, NEW p \in Payment, NEW q \in Payment,
                      HasRow(p)', HasRow(q)', Key[p] = Key[q], p # q
               PROVE  FALSE
    BY DEF UniqueKeys
  <2>1. /\ HasRow(p) \/ CreatePayment(p)
        /\ HasRow(q) \/ CreatePayment(q)
    BY RowsAppear
  <2>2. ~CreatePayment(p) \/ ~CreatePayment(q)
    BY DEF CreatePayment, Goto, TypeInv, TypeOK
  <2>3. QED BY <2>1, <2>2 DEF UniqueKeys, CreatePayment, SameKey
<1>3. TypeInv /\ IInv /\ UniqueKeys => ChargedOncePerKey
  BY DEF ChargedOncePerKey, UniqueKeys, IInv, PaymentInv, RowInv, HasRow
<1>4. QED BY <1>1, <1>2, <1>3, Invariant, PTL DEF Spec

JournalOf(s) == CASE s = "NONE" -> <<>>
                  [] s = "INIT" -> <<"INIT">>
                  [] s = "PROCESSING" -> <<"INIT", "PROCESSING">>
                  [] OTHER -> <<"INIT", "PROCESSING", s>>

\* Appending to short tuples.
LEMMA AppendToOne ==
  ASSUME NEW a \in Status, NEW b \in Status
  PROVE  Append(<<a>>, b) = <<a, b>>
<1> DEFINE s == Append(<<a>>, b)
<1>1. <<a>> \in Seq(Status) /\ Len(<<a>>) = 1 /\ <<a, b>> \in Seq(Status) /\ Len(<<a, b>>) = 2
  OBVIOUS
<1>2. s \in Seq(Status) /\ Len(s) = 2 /\ s[1] = a /\ s[2] = b
  BY <1>1, AppendProperties
<1> HIDE DEF s
<1>3. s = <<a, b>>
  BY <1>1, <1>2, SeqEqual
<1>4. QED BY <1>3 DEF s

LEMMA AppendToTwo ==
  ASSUME NEW a \in Status, NEW b \in Status, NEW c \in Status
  PROVE  Append(<<a, b>>, c) = <<a, b, c>>
<1> DEFINE s == Append(<<a, b>>, c)
<1>1. /\ <<a, b>> \in Seq(Status) /\ Len(<<a, b>>) = 2
      /\ <<a, b, c>> \in Seq(Status) /\ Len(<<a, b, c>>) = 3
  OBVIOUS
<1>2. s \in Seq(Status) /\ Len(s) = 3 /\ s[1] = a /\ s[2] = b /\ s[3] = c
  BY <1>1, AppendProperties
<1> HIDE DEF s
<1>3. s = <<a, b, c>>
  BY <1>1, <1>2, SeqEqual
<1>4. QED BY <1>3 DEF s

\* Every status change of a payment is in its journal once, in order.
THEOREM JournalExact == Spec => []JournalTellsStatus
<1> DEFINE Exact(p) == journal[p] = JournalOf(status[p])
<1>1. JournalTellsStatus <=> \A p \in Payment : Exact(p)
  BY DEF JournalTellsStatus, JournalOf
<1>2. Init => JournalTellsStatus
  BY DEF Init, JournalTellsStatus
<1>3. TypeInv /\ IInv /\ JournalTellsStatus /\ [Next]_vars => JournalTellsStatus'
  <2> SUFFICES ASSUME TypeInv, IInv, [Next]_vars, NEW p \in Payment, Exact(p) PROVE Exact(p)'
    <3>1. JournalTellsStatus' <=> \A p \in Payment : Exact(p)'
      BY DEF JournalTellsStatus, JournalOf
    <3>2. QED BY <1>1, <3>1
  <2> USE DEF TypeInv, TypeOK
  <2>1. ASSUME status'[p] = status[p], journal'[p] = journal[p] PROVE Exact(p)'
    BY <2>1
  <2>2. ASSUME NEW q \in Payment, NEW s \in Status, SetStatus(q, s), status[p] = "NONE" => s = "INIT",
               status[p] = "INIT" => s = "PROCESSING", status[p] = "PROCESSING" => s \in {"SUCCESS", "FAILED"},
               status[p] \notin Terminal, q = p
        PROVE  Exact(p)'
    <3>1. status'[p] = s /\ journal'[p] = Append(journal[p], s)
      BY <2>2 DEF SetStatus
    <3>2. CASE status[p] = "NONE"
      BY <2>2, <3>1, <3>2 DEF JournalOf
    <3>3. CASE status[p] = "INIT"
      <4>1. s = "PROCESSING" /\ journal[p] = <<"INIT">>
        BY <2>2, <3>3 DEF JournalOf
      <4>2. Append(<<"INIT">>, "PROCESSING") = <<"INIT", "PROCESSING">>
        BY AppendToOne, "INIT" \in Status, "PROCESSING" \in Status
      <4>3. JournalOf("PROCESSING") = <<"INIT", "PROCESSING">>
        BY DEF JournalOf
      <4>4. QED BY <3>1, <4>1, <4>2, <4>3
    <3>4. CASE status[p] = "PROCESSING"
      <4>1. s \in {"SUCCESS", "FAILED"} /\ journal[p] = <<"INIT", "PROCESSING">>
        BY <2>2, <3>4 DEF JournalOf
      <4>2. Append(<<"INIT", "PROCESSING">>, s) = <<"INIT", "PROCESSING", s>>
        BY AppendToTwo, "INIT" \in Status, "PROCESSING" \in Status
      <4>3. JournalOf(s) = <<"INIT", "PROCESSING", s>>
        BY <4>1 DEF JournalOf
      <4>4. QED BY <3>1, <4>1, <4>2, <4>3
    <3>5. QED BY <2>2, <3>2, <3>3, <3>4
  <2>3. ASSUME NEW q \in Payment, NEW s \in Status, SetStatus(q, s), q # p PROVE Exact(p)'
    BY <2>1, <2>3 DEF SetStatus
  <2>4. ASSUME NEW q \in Payment, CreatePayment(q) PROVE Exact(p)'
    <3>1. SetStatus(q, "INIT") /\ status[q] = "NONE"
      BY <2>4 DEF CreatePayment, Goto, IInv, PaymentInv, RowInv
    <3>2. QED BY <2>2, <2>3, <3>1
  <2>5. ASSUME NEW q \in Payment, BeginTCC(q) PROVE Exact(p)'
    <3>1. SetStatus(q, "PROCESSING") /\ status[q] = "INIT"
      BY <2>5 DEF BeginTCC
    <3>2. QED BY <2>2, <2>3, <3>1
  <2>6. ASSUME NEW w \in Worker, ActOnVerdict(w) PROVE Exact(p)'
    <3>1. watch[w].payment \in Payment /\ watch[w].stage \in {"SUCCESS", "FAILED"}
      BY <2>6 DEF ActOnVerdict, LooksTyped
    <3>2. \/ UNCHANGED rowVars
          \/ status[watch[w].payment] = "PROCESSING" /\ SetStatus(watch[w].payment, watch[w].stage)
      BY <2>6 DEF ActOnVerdict, Finalize
    <3>3. QED BY <2>1, <2>2, <2>3, <3>1, <3>2 DEF rowVars
  <2>7. ASSUME Reset PROVE Exact(p)'
    BY <2>7 DEF Reset, JournalOf
  <2>8. ASSUME UNCHANGED rowVars PROVE Exact(p)'
    BY <2>1, <2>8 DEF rowVars
  <2>9. CASE Next
    BY <2>4, <2>5, <2>6, <2>7, <2>8, <2>9
    DEF Next, Coordinate, Replay, PrepareTCC, PrepareFails, CallAccount, CallLedger, Register, RegisterFails,
        TryAnswered, TryFails, SubmitTCC, SubmitFails, AbortTCC, Poll, CoordinatorOnly, Stop, ReadReservation,
        ReadLedger, ReadDtm, Reconcile, LookOnlyChangesWatch, Deliver, DeliverTry, DeliverConfirm,
        DeliverCancel, DtmStep, EnsureNoActiveTransactions
  <2>10. QED BY <2>8, <2>9 DEF vars
<1>4. QED BY <1>2, <1>3, Invariant, PTL DEF Spec

-----------------------------------------------------------------------------
(* Funds.                                                                  *)

In(s) == {p \in Payment : reservation[p] = s}

\* However many payments there are, finitely many hold or have taken money.
FundsInv == IsFiniteSet(In("FROZEN")) /\ IsFiniteSet(In("CONFIRMED")) /\ FundsConserved

\* A reservation that changes from `from` to `to`.
Reserves(p, from, to) ==
  reservation[p] = from /\ reservation' = [reservation EXCEPT ![p] = to]

Freezes(p) ==
  /\ Reserves(p, "NONE", "FROZEN") /\ Affordable(p)
  /\ balance'.available = balance.available - Amount[p] /\ balance'.frozen = balance.frozen + Amount[p]

Takes(p) ==
  /\ Reserves(p, "FROZEN", "CONFIRMED")
  /\ balance'.available = balance.available /\ balance'.frozen = balance.frozen - Amount[p]

GivesBack(p) ==
  /\ Reserves(p, "FROZEN", "CANCELLED")
  /\ balance'.available = balance.available + Amount[p] /\ balance'.frozen = balance.frozen - Amount[p]

FundsStay == UNCHANGED <<reservation, balance>>

LEMMA TotalMoves ==
  ASSUME ParticipantsTypeOK, NEW s \in {"FROZEN", "CONFIRMED"}, IsFiniteSet(In(s)),
         NEW p \in Payment, NEW to, reservation' = [reservation EXCEPT ![p] = to]
  PROVE  /\ Total(s) \in Int /\ IsFiniteSet(In(s)')
         /\ reservation[p] # s /\ to = s => Total(s)' = Total(s) + Amount[p]
         /\ reservation[p] = s /\ to # s => Total(s)' = Total(s) - Amount[p]
         /\ reservation[p] # s /\ to # s => Total(s)' = Total(s)
<1>1. \A q \in Payment : Amount[q] \in Int
  BY AmountAssumption
<1>2. In(s)' = IF to = s THEN In(s) \cup {p} ELSE In(s) \ {p}
  BY DEF In, ParticipantsTypeOK
<1>3. IsFiniteSet(In(s)')
  BY <1>2, FS_AddElement, FS_RemoveElement
<1>4. In(s) \subseteq Payment /\ (p \in In(s) <=> reservation[p] = s)
  BY DEF In
<1>5. Total(s) = SumFunctionOnSet(Amount, In(s)) /\ Total(s)' = SumFunctionOnSet(Amount, In(s)')
  BY DEF Total, In
<1>6. IsFiniteSet(In(s)) /\ \A q \in In(s) : Amount[q] \in Int
  BY <1>1, <1>4
<1>7. ASSUME reservation[p] # s, to = s PROVE Total(s)' = Total(s) + Amount[p]
  <2>1. p \notin In(s) /\ In(s)' = In(s) \cup {p} /\ \A q \in In(s) \cup {p} : Amount[q] \in Int
    BY <1>1, <1>2, <1>4, <1>7
  <2>2. SumFunctionOnSet(Amount, In(s) \cup {p}) = SumFunctionOnSet(Amount, In(s)) + Amount[p]
    BY <1>6, <2>1, SumAdd
  <2>3. QED BY <1>5, <2>1, <2>2
<1>8. ASSUME reservation[p] = s, to # s PROVE Total(s)' = Total(s) - Amount[p]
  <2>1. p \in In(s) /\ In(s)' = In(s) \ {p}
    BY <1>2, <1>4, <1>8
  <2>2. SumFunctionOnSet(Amount, In(s) \ {p}) = SumFunctionOnSet(Amount, In(s)) - Amount[p]
    BY <1>6, <2>1, SumLess
  <2>3. QED BY <1>5, <2>1, <2>2
<1>9. ASSUME reservation[p] # s, to # s PROVE Total(s)' = Total(s)
  <2>1. In(s)' = In(s)
    BY <1>2, <1>4, <1>9
  <2>2. QED BY <1>5, <2>1
<1>10. Total(s) \in Int
  BY <1>5, <1>6, SumRemove
<1>11. QED BY <1>3, <1>7, <1>8, <1>9, <1>10

\* What a delivered operation does to the funds.
LEMMA DeliverFunds ==
  ASSUME ParticipantsTypeOK, NEW p \in Payment, NEW b \in Branch, Deliver(p, b)
  PROVE  FundsStay \/ Freezes(p) \/ Takes(p) \/ GivesBack(p)
<1> USE DEF FundsStay, Reserves, BarrierSkips, RollBack, participantVars
<1>1. ASSUME NEW answer, AccountTry(p, ForeignKey(p), answer) PROVE FundsStay \/ Freezes(p)
  BY <1>1 DEF AccountTry, Freezes
<1>2. ASSUME AccountConfirm(p) PROVE FundsStay \/ Takes(p)
  <2>1. CASE UNCHANGED <<balance, reservation>>
    BY <2>1
  <2>2. CASE /\ reservation[p] = "FROZEN" /\ reservation' = [reservation EXCEPT ![p] = "CONFIRMED"]
             /\ balance' = [balance EXCEPT !.frozen = @ - Amount[p]]
    <3>1. balance'.available = balance.available /\ balance'.frozen = balance.frozen - Amount[p]
      BY <2>2 DEF ParticipantsTypeOK
    <3>2. QED BY <2>2, <3>1 DEF Takes
  <2>3. QED BY <1>2, <2>1, <2>2 DEF AccountConfirm
<1>3. AccountCancel(p) => FundsStay \/ GivesBack(p)
  BY DEF AccountCancel, GivesBack
<1>4. ASSUME NEW answer, LedgerTry(p, Fault[p] = "ledger_try", ForeignKey(p), answer) PROVE FundsStay
  BY <1>4 DEF LedgerTry
<1>5. LedgerConfirm(p) \/ LedgerCancel(p) => FundsStay
  BY DEF LedgerConfirm, LedgerCancel, Advance
<1>6. CASE DeliverTry(p, b)
  BY <1>1, <1>4, <1>6 DEF DeliverTry
<1>7. CASE DeliverConfirm(p, b)
  BY <1>2, <1>5, <1>7 DEF DeliverConfirm
<1>8. CASE DeliverCancel(p, b)
  BY <1>3, <1>5, <1>8 DEF DeliverCancel
<1>9. QED BY <1>6, <1>7, <1>8 DEF Deliver

LEMMA StepFunds ==
  ASSUME ParticipantsTypeOK, [Next]_vars
  PROVE  FundsStay \/ Reset \/ \E p \in Payment : Freezes(p) \/ Takes(p) \/ GivesBack(p)
<1>1. UNCHANGED participantVars => FundsStay
  BY DEF FundsStay, participantVars
<1>2. ASSUME NEW p \in Payment, Coordinate(p) PROVE FundsStay
  BY <1>1, <1>2
  DEF Coordinate, CreatePayment, Replay, BeginTCC, PrepareTCC, PrepareFails, CallAccount, CallLedger, Register,
      RegisterFails, TryAnswered, TryFails, SubmitTCC, SubmitFails, AbortTCC, Poll, CoordinatorOnly,
      LookOnlyChangesWatch
<1>3. QED
  BY <1>1, <1>2, DeliverFunds
  DEF Next, Stop, ReadReservation, ReadLedger, ReadDtm, ActOnVerdict, Reconcile, LookOnlyChangesWatch, DtmStep,
      EnsureNoActiveTransactions, vars

LEMMA FundsStep ==
  ASSUME ParticipantsTypeOK, ParticipantsTypeOK', FundsInv, [Next]_vars
  PROVE  FundsInv'
<1>1. /\ balance.available \in Int /\ balance.frozen \in Int
      /\ \A p \in Payment : Amount[p] \in Nat
      /\ InitialBalance \in Nat
  BY AmountAssumption DEF ParticipantsTypeOK
<1>2. /\ IsFiniteSet(In("FROZEN")) /\ IsFiniteSet(In("CONFIRMED"))
      /\ balance.available >= 0 /\ balance.frozen = Total("FROZEN")
      /\ balance.available + balance.frozen + Total("CONFIRMED") = InitialBalance
  BY DEF FundsInv, FundsConserved
<1>3. ASSUME IsFiniteSet(In("FROZEN")'), IsFiniteSet(In("CONFIRMED")'),
             balance'.available >= 0, balance'.frozen = Total("FROZEN")',
             balance'.available + balance'.frozen + Total("CONFIRMED")' = InitialBalance
      PROVE  FundsInv'
  BY <1>3 DEF FundsInv, FundsConserved
<1>4. CASE FundsStay
  BY <1>4 DEF FundsStay, FundsInv, FundsConserved, In, Total
<1>5. ASSUME NEW p \in Payment, Freezes(p) PROVE FundsInv'
  <2>1. /\ reservation[p] = "NONE" /\ reservation' = [reservation EXCEPT ![p] = "FROZEN"]
        /\ "NONE" # "FROZEN" /\ "NONE" # "CONFIRMED" /\ "FROZEN" # "CONFIRMED"
    BY <1>5 DEF Freezes, Reserves
  <2>2. IsFiniteSet(In("FROZEN")') /\ Total("FROZEN")' = Total("FROZEN") + Amount[p]
    BY <1>2, <2>1, TotalMoves
  <2>3. IsFiniteSet(In("CONFIRMED")') /\ Total("CONFIRMED")' = Total("CONFIRMED") /\ Total("CONFIRMED") \in Int
    BY <1>2, <2>1, TotalMoves
  <2>4. balance'.available >= 0 /\ balance'.available + balance'.frozen + Total("CONFIRMED")' = InitialBalance
    BY <1>1, <1>2, <1>5, <2>3 DEF Freezes, Affordable
  <2>5. QED BY <1>2, <1>3, <1>5, <2>2, <2>3, <2>4 DEF Freezes
<1>6. ASSUME NEW p \in Payment, Takes(p) PROVE FundsInv'
  <2>1. /\ reservation[p] = "FROZEN" /\ reservation' = [reservation EXCEPT ![p] = "CONFIRMED"]
        /\ "FROZEN" # "CONFIRMED"
    BY <1>6 DEF Takes, Reserves
  <2>2. IsFiniteSet(In("FROZEN")') /\ Total("FROZEN")' = Total("FROZEN") - Amount[p]
    BY <1>2, <2>1, TotalMoves
  <2>3. /\ IsFiniteSet(In("CONFIRMED")') /\ Total("CONFIRMED")' = Total("CONFIRMED") + Amount[p]
        /\ Total("CONFIRMED") \in Int
    BY <1>2, <2>1, TotalMoves
  <2>4. balance'.available >= 0 /\ balance'.available + balance'.frozen + Total("CONFIRMED")' = InitialBalance
    BY <1>1, <1>2, <1>6, <2>3 DEF Takes
  <2>5. QED BY <1>2, <1>3, <1>6, <2>2, <2>3, <2>4 DEF Takes
<1>7. ASSUME NEW p \in Payment, GivesBack(p) PROVE FundsInv'
  <2>1. /\ reservation[p] = "FROZEN" /\ reservation' = [reservation EXCEPT ![p] = "CANCELLED"]
        /\ "FROZEN" # "CANCELLED" /\ "FROZEN" # "CONFIRMED" /\ "CANCELLED" # "CONFIRMED"
    BY <1>7 DEF GivesBack, Reserves
  <2>2. IsFiniteSet(In("FROZEN")') /\ Total("FROZEN")' = Total("FROZEN") - Amount[p]
    BY <1>2, <2>1, TotalMoves
  <2>3. IsFiniteSet(In("CONFIRMED")') /\ Total("CONFIRMED")' = Total("CONFIRMED") /\ Total("CONFIRMED") \in Int
    BY <1>2, <2>1, TotalMoves
  <2>4. balance'.available >= 0 /\ balance'.available + balance'.frozen + Total("CONFIRMED")' = InitialBalance
    BY <1>1, <1>2, <1>7, <2>3 DEF GivesBack
  <2>5. QED BY <1>2, <1>3, <1>7, <2>2, <2>3, <2>4 DEF GivesBack
<1>8. CASE Reset
  <2>1. In("FROZEN")' = {} /\ In("CONFIRMED")' = {}
    BY <1>8 DEF Reset, In
  <2>2. /\ IsFiniteSet(In("FROZEN")') /\ IsFiniteSet(In("CONFIRMED")')
        /\ Total("FROZEN")' = 0 /\ Total("CONFIRMED")' = 0
    BY <2>1, SumEmpty, FS_EmptySet DEF Total, In
  <2>3. balance'.available = InitialBalance /\ balance'.frozen = 0
    BY <1>8 DEF Reset, OpeningBalance
  <2>4. QED BY <1>1, <1>3, <2>2, <2>3
<1>9. QED BY <1>4, <1>5, <1>6, <1>7, <1>8, StepFunds

LEMMA FundsInvariant == Spec => [](TypeInv /\ FundsInv)
<1>1. Init => FundsInv
  <2> SUFFICES ASSUME Init PROVE FundsInv
    OBVIOUS
  <2>1. In("FROZEN") = {} /\ In("CONFIRMED") = {}
    BY DEF Init, ParticipantsInit, In
  <2>2. Total("FROZEN") = 0 /\ Total("CONFIRMED") = 0 /\ IsFiniteSet({})
    BY <2>1, SumEmpty, FS_EmptySet DEF Total, In
  <2>3. balance.available = InitialBalance /\ balance.frozen = 0 /\ InitialBalance \in Nat
    BY AmountAssumption DEF Init, ParticipantsInit, OpeningBalance
  <2>4. QED BY <2>1, <2>2, <2>3 DEF FundsInv, FundsConserved
<1>2. TypeInv => ParticipantsTypeOK
  BY DEF TypeInv, TypeOK
<1>3. QED BY <1>1, <1>2, TypeInit, TypeStep, FundsStep, PTL DEF Spec

\* No order, loss or repetition of branch operations, and no reset, creates or
\* loses money, overdraws the account, or lets the frozen column differ from
\* the funds its reservations hold.
THEOREM MoneyConserved == Spec => []FundsConserved
<1>1. FundsInv => FundsConserved
  BY DEF FundsInv
<1>2. QED BY <1>1, FundsInvariant, PTL

\* The frozen column covers every reservation it has to pay or to give back,
\* so that no confirm and no cancel is ever turned away with "account frozen
\* balance invariant violated" and retried by DTM for ever.
THEOREM SecondPhaseCovered ==
  Spec => [](\A p \in Payment : reservation[p] = "FROZEN" => FrozenCovers(p))
<1>1. FundsInv => \A p \in Payment : reservation[p] = "FROZEN" => FrozenCovers(p)
  <2> SUFFICES ASSUME FundsInv, NEW p \in Payment, reservation[p] = "FROZEN" PROVE FrozenCovers(p)
    OBVIOUS
  <2>1. IsFiniteSet(In("FROZEN")) /\ p \in In("FROZEN") /\ \A q \in In("FROZEN") : Amount[q] \in Nat
    BY AmountAssumption DEF FundsInv, In
  <2>2. SumFunctionOnSet(Amount, In("FROZEN")) >= Amount[p]
    BY <2>1, SumCovers
  <2>3. balance.frozen = SumFunctionOnSet(Amount, In("FROZEN"))
    BY DEF FundsInv, FundsConserved, Total, In
  <2>4. QED BY <2>2, <2>3 DEF FrozenCovers
<1>2. QED BY <1>1, FundsInvariant, PTL

=============================================================================
