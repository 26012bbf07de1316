---------------------- MODULE DistributedRefinementProofs ----------------------
(***************************************************************************)
(* The distributed mode keeps the contract of payments, and its two        *)
(* branches commit atomically: the refinements of DistributedPayment, from *)
(* the invariants of DistributedPaymentProofs.                             *)
(***************************************************************************)
EXTENDS DistributedPaymentProofs

USE DEF Branch, Op, ReservationStatus, LedgerStatus, TransStatus, Terminal, Status

Evidence == TypeInv /\ IInv /\ TerminalHasEvidence

LEMMA EvidenceHolds == Spec => []Evidence
  BY Invariant, TerminalBacked, PTL DEF Evidence

-----------------------------------------------------------------------------
(* The contract.                                                           *)

\* What a step can do to the reservations and to what is available.
MoneyMoves(p, from, to, available) ==
  /\ reservation[p] = from
  /\ reservation' = [reservation EXCEPT ![p] = to]
  /\ balance'.available = available

MoneyStays == UNCHANGED <<reservation, balance>>

LEMMA DeliverMoney ==
  ASSUME TypeOK, NEW p \in Payment, NEW b \in Branch, Deliver(p, b)
  PROVE  /\ status' = status
         /\ \/ MoneyStays
            \/ MoneyMoves(p, "NONE", "FROZEN", balance.available - Amount[p]) /\ Affordable(p) /\ HasRow(p)
            \/ MoneyMoves(p, "FROZEN", "CONFIRMED", balance.available)
            \/ MoneyMoves(p, "FROZEN", "CANCELLED", balance.available + Amount[p])
<1>1. status' = status
  BY DEF Deliver, DeliverTry, DeliverConfirm, DeliverCancel, rowVars
<1> USE DEF MoneyStays, MoneyMoves
<1>2. CASE DeliverTry(p, b)
  BY <1>1, <1>2 DEF DeliverTry, AccountTry, LedgerTry, BarrierSkips, RollBack, participantVars, ForeignKey
<1>3. CASE DeliverConfirm(p, b)
  BY <1>1, <1>3 DEF DeliverConfirm, AccountConfirm, LedgerConfirm, Advance, BarrierSkips, TypeOK,
                    ParticipantsTypeOK
<1>4. CASE DeliverCancel(p, b)
  BY <1>1, <1>4 DEF DeliverCancel, AccountCancel, LedgerCancel, Advance, BarrierSkips
<1>5. QED BY <1>2, <1>3, <1>4 DEF Deliver

\* Every other step but the reset leaves the participants alone; a status
\* changes when a payment is inserted, begun or finalized.
LEMMA StatusMoves ==
  ASSUME TypeInv, Next, \A p \in Payment, b \in Branch : ~Deliver(p, b), ~Reset
  PROVE  /\ UNCHANGED participantVars
         /\ \/ status' = status
            \/ \E p \in Payment : status[p] = "NONE" /\ status' = [status EXCEPT ![p] = "INIT"]
            \/ \E p \in Payment : status[p] = "INIT" /\ status' = [status EXCEPT ![p] = "PROCESSING"]
            \/ \E p \in Payment, s \in {"SUCCESS", "FAILED"} :
                 status[p] = "PROCESSING" /\ status' = [status EXCEPT ![p] = s]
<1> USE DEF rowVars
<1>1. ASSUME NEW p \in Payment, Coordinate(p)
      PROVE  /\ UNCHANGED participantVars
             /\ \/ status' = status
                \/ status[p] = "NONE" /\ status' = [status EXCEPT ![p] = "INIT"]
                \/ status[p] = "INIT" /\ status' = [status EXCEPT ![p] = "PROCESSING"]
  <2>1. CASE CreatePayment(p)
    BY <2>1 DEF CreatePayment, SameKey, HasRow, SetStatus
  <2>2. CASE BeginTCC(p)
    BY <2>2 DEF BeginTCC, SetStatus
  <2>3. CASE ~CreatePayment(p) /\ ~BeginTCC(p)
    BY <1>1, <2>3
    DEF Coordinate, Replay, PrepareTCC, PrepareFails, CallAccount, CallLedger, Register, RegisterFails,
        TryAnswered, TryFails, SubmitTCC, SubmitFails, AbortTCC, Poll, CoordinatorOnly, LookOnlyChangesWatch
  <2>4. QED BY <2>1, <2>2, <2>3
<1>2. ASSUME NEW w \in Worker, ActOnVerdict(w)
      PROVE  /\ UNCHANGED participantVars
             /\ \/ status' = status
                \/ \E p \in Payment, s \in {"SUCCESS", "FAILED"} :
                     status[p] = "PROCESSING" /\ status' = [status EXCEPT ![p] = s]
  BY <1>2 DEF ActOnVerdict, Finalize, SetStatus, TypeInv, LooksTyped
<1>3. QED
  BY <1>1, <1>2
  DEF Next, Stop, ReadReservation, ReadLedger, ReadDtm, Reconcile, LookOnlyChangesWatch, DtmStep,
      EnsureNoActiveTransactions

LEMMA MoneyView ==
  ASSUME TypeOK, NEW p \in Payment, NEW to \in ReservationStatus, reservation' = [reservation EXCEPT ![p] = to]
  PROVE  MoneyOf' = [MoneyOf EXCEPT ![p] = MoneyOf'[p]] /\ reservation'[p] = to
<1>1. \A q \in Payment : q # p => reservation'[q] = reservation[q]
  OBVIOUS
<1>2. reservation'[p] = to
  BY DEF TypeOK, ParticipantsTypeOK
<1>3. \A q \in Payment : q # p => MoneyOf'[q] = MoneyOf[q]
  BY <1>1 DEF MoneyOf
<1>4. MoneyOf = [q \in Payment |-> MoneyOf[q]] /\ MoneyOf' = [q \in Payment |-> MoneyOf'[q]]
  BY DEF MoneyOf
<1>5. QED BY <1>2, <1>3, <1>4

LEMMA StageView ==
  ASSUME TypeOK, NEW p \in Payment, NEW to \in Status, status' = [status EXCEPT ![p] = to]
  PROVE  StageOf' = [StageOf EXCEPT ![p] = StageOf'[p]] /\ status'[p] = to
<1>1. \A q \in Payment : q # p => status'[q] = status[q]
  OBVIOUS
<1>2. status'[p] = to
  BY DEF TypeOK
<1>3. \A q \in Payment : q # p => StageOf'[q] = StageOf[q]
  BY <1>1 DEF StageOf
<1>4. StageOf = [q \in Payment |-> StageOf[q]] /\ StageOf' = [q \in Payment |-> StageOf'[q]]
  BY DEF StageOf
<1>5. QED BY <1>2, <1>3, <1>4

LEMMA Views ==
  /\ status' = status => StageOf' = StageOf
  /\ reservation' = reservation => MoneyOf' = MoneyOf
  BY DEF StageOf, MoneyOf

LEMMA ContractStep ==
  ASSUME Evidence, Evidence', [Next]_vars
  PROVE  [Contract!Next]_Contract!vars
<1> USE DEF Evidence, TypeInv
<1>a. /\ Contract!vars = <<StageOf, MoneyOf, balance.available>>
      /\ Contract!vars' = <<StageOf', MoneyOf', balance'.available>>
  BY DEF Contract!vars
<1>b. ASSUME NEW p \in Payment
      PROVE  /\ StageOf[p] = "open" <=> status[p] \in {"INIT", "PROCESSING"}
             /\ StageOf[p] = "absent" <=> status[p] = "NONE"
             /\ StageOf'[p] = "open" <=> status'[p] \in {"INIT", "PROCESSING"}
             /\ status'[p] \in Terminal => StageOf'[p] = status'[p]
  BY DEF StageOf, TypeOK
<1>c. ASSUME NEW p \in Payment
      PROVE  /\ reservation[p] = "NONE" <=> MoneyOf[p] = "none"
             /\ reservation[p] = "FROZEN" <=> MoneyOf[p] = "held"
             /\ reservation[p] = "CONFIRMED" <=> MoneyOf[p] = "paid"
             /\ reservation'[p] = "NONE" <=> MoneyOf'[p] = "none"
             /\ reservation'[p] = "FROZEN" <=> MoneyOf'[p] = "held"
             /\ reservation'[p] = "CONFIRMED" <=> MoneyOf'[p] = "paid"
             /\ reservation'[p] = "CANCELLED" => MoneyOf'[p] = "returned"
  BY DEF MoneyOf
<1>1. ASSUME NEW p \in Payment, NEW b \in Branch, Deliver(p, b)
      PROVE  [Contract!Next]_Contract!vars
  <2>1. status' = status /\ StageOf' = StageOf
    BY <1>1, DeliverMoney, Views
  <2>2. CASE MoneyStays
    BY <1>a, <2>1, <2>2, Views DEF MoneyStays
  <2>3. status[p] \in {"SUCCESS", "FAILED"} => reservation'[p] # "FROZEN" /\ reservation[p] # "FROZEN"
    BY <2>1 DEF TerminalHasEvidence
  <2>4. status[p] # "CLOSED" /\ (status[p] = "NONE" => reservation[p] = "NONE" /\ reservation'[p] = "NONE")
    BY <2>1 DEF IInv, PaymentInv, RowInv
  <2>5. ASSUME NEW from, NEW to \in ReservationStatus, NEW available, MoneyMoves(p, from, to, available),
               from = "FROZEN" \/ to = "FROZEN"
        PROVE  /\ StageOf[p] = "open"
               /\ MoneyOf' = [MoneyOf EXCEPT ![p] = MoneyOf'[p]]
               /\ reservation[p] = from /\ reservation'[p] = to
               /\ balance'.available = available
    <3>1. reservation[p] = from /\ reservation'[p] = to /\ MoneyOf' = [MoneyOf EXCEPT ![p] = MoneyOf'[p]]
          /\ balance'.available = available
      BY <2>5, MoneyView DEF MoneyMoves
    <3>2. status[p] \in {"INIT", "PROCESSING"}
      BY <2>3, <2>4, <2>5, <3>1 DEF TypeOK
    <3>3. QED BY <1>b, <3>1, <3>2, Views
  <2>6. CASE MoneyMoves(p, "NONE", "FROZEN", balance.available - Amount[p]) /\ Affordable(p)
    <3>1. Contract!Hold(p)
      BY <1>c, <2>1, <2>5, <2>6 DEF Contract!Hold, Contract!MoveMoney, Affordable
    <3>2. QED BY <3>1 DEF Contract!Next
  <2>7. CASE MoneyMoves(p, "FROZEN", "CONFIRMED", balance.available)
    <3>1. Contract!Settle(p)
      BY <1>c, <2>1, <2>5, <2>7 DEF Contract!Settle, Contract!Pay, Contract!MoveMoney
    <3>2. QED BY <3>1 DEF Contract!Next
  <2>8. CASE MoneyMoves(p, "FROZEN", "CANCELLED", balance.available + Amount[p])
    <3>1. Contract!Settle(p)
      BY <1>c, <2>1, <2>5, <2>8 DEF Contract!Settle, Contract!Return, Contract!MoveMoney
    <3>2. QED BY <3>1 DEF Contract!Next
  <2>9. QED BY <1>1, <2>2, <2>6, <2>7, <2>8, DeliverMoney
<1>2. ASSUME Reset PROVE [Contract!Next]_Contract!vars
  <2>1. Contract!Reset
    BY <1>2 DEF Reset, Contract!Reset, StageOf, MoneyOf, OpeningBalance
  <2>2. QED BY <2>1 DEF Contract!Next
<1>3. ASSUME Next, \A p \in Payment, b \in Branch : ~Deliver(p, b), ~Reset
      PROVE  [Contract!Next]_Contract!vars
  <2>1. MoneyOf' = MoneyOf /\ balance' = balance /\ reservation' = reservation
    BY <1>3, StatusMoves, Views DEF participantVars
  <2>2. CASE status' = status
    BY <1>a, <2>1, <2>2, Views
  <2>3. ASSUME NEW p \in Payment, status[p] = "NONE", status' = [status EXCEPT ![p] = "INIT"]
        PROVE  [Contract!Next]_Contract!vars
    <3>1. StageOf' = [StageOf EXCEPT ![p] = "open"] /\ StageOf[p] = "absent"
      BY <2>3, StageView, Views DEF StageOf
    <3>2. MoneyOf[p] = "none"
      BY <1>c, <2>3, Views DEF IInv, PaymentInv, RowInv
    <3>3. Contract!Accept(p)
      BY <2>1, <3>1, <3>2 DEF Contract!Accept, Contract!MoveStage
    <3>4. QED BY <3>3 DEF Contract!Next
  <2>4. ASSUME NEW p \in Payment, status[p] = "INIT", status' = [status EXCEPT ![p] = "PROCESSING"]
        PROVE  [Contract!Next]_Contract!vars
    <3>1. StageOf' = StageOf
      BY <2>4 DEF StageOf, TypeOK
    <3>2. QED BY <1>a, <2>1, <3>1
  <2>5. ASSUME NEW p \in Payment, NEW s \in {"SUCCESS", "FAILED"}, status[p] = "PROCESSING",
               status' = [status EXCEPT ![p] = s]
        PROVE  [Contract!Next]_Contract!vars
    <3>1. status'[p] = s /\ StageOf' = [StageOf EXCEPT ![p] = s] /\ StageOf[p] = "open"
      BY <2>5, StageView, Views DEF StageOf
    <3>2. /\ s = "SUCCESS" => reservation[p] = "CONFIRMED"
          /\ s = "FAILED" => reservation[p] \in {"NONE", "CANCELLED"}
      BY <2>1, <3>1 DEF TerminalHasEvidence
    <3>3. MoneyOf'[p] # "held" /\ (s = "SUCCESS" <=> MoneyOf'[p] = "paid")
      BY <1>c, <2>1, <3>2, Views
    <3>4. Contract!End(p)
      BY <2>1, <3>1, <3>3 DEF Contract!End, Contract!MoveStage, Contract!Ended
    <3>5. QED BY <3>4 DEF Contract!Next
  <2>6. QED BY <1>3, <2>2, <2>3, <2>4, <2>5, StatusMoves
<1>4. CASE UNCHANGED vars
  BY <1>a, <1>4, Views DEF vars, participantVars, rowVars
<1>5. QED BY <1>1, <1>2, <1>3, <1>4

\* The distributed mode implements the contract it shares with the memory
\* mode, for any payments, amounts, keys, readers, faults and resets.
THEOREM RefinesContract == Spec => ImplementsContract
<1>1. Init => Contract!Init
  BY DEF Init, ParticipantsInit, Contract!Init, StageOf, MoneyOf, OpeningBalance
<1>2. Evidence /\ Evidence' /\ [Next]_vars => [Contract!Next]_Contract!vars
  BY ContractStep
<1>3. QED BY <1>1, <1>2, EvidenceHolds, PTL DEF Spec, ImplementsContract, Contract!Spec

-----------------------------------------------------------------------------
(* Atomic commitment.                                                      *)

LEMMA WorkKept ==
  ASSUME NEW p \in Payment, NEW b \in Branch, BranchState(p, b)' = BranchState(p, b),
         "try" \in barrier'[p][b] <=> "try" \in barrier[p][b]
  PROVE  WorkOf'[p][b] = WorkOf[p][b]
  BY DEF WorkOf

LEMMA WorkIs ==
  ASSUME NEW p \in Payment, NEW b \in Branch
  PROVE  /\ BranchState(p, b) \in {"FROZEN", "PREPARED"} <=> WorkOf[p][b] = "prepared"
         /\ BranchState(p, b) \in {"CONFIRMED", "POSTED"} <=> WorkOf[p][b] = "committed"
         /\ BranchState(p, b) = "NONE" /\ "try" \notin barrier[p][b] <=> WorkOf[p][b] = "working"
         /\ BranchState(p, b)' \in {"FROZEN", "PREPARED"} <=> WorkOf'[p][b] = "prepared"
         /\ BranchState(p, b)' \in {"CONFIRMED", "POSTED"} <=> WorkOf'[p][b] = "committed"
         /\ BranchState(p, b)' = "NONE" /\ "try" \notin barrier'[p][b] <=> WorkOf'[p][b] = "working"
         /\ (BranchState(p, b) = "CANCELLED" \/ (BranchState(p, b) = "NONE" /\ "try" \in barrier[p][b])) =>
              WorkOf[p][b] = "aborted"
         /\ (BranchState(p, b)' = "CANCELLED" \/ (BranchState(p, b)' = "NONE" /\ "try" \in barrier'[p][b])) =>
              WorkOf'[p][b] = "aborted"
         /\ WorkOf[p][b] \in {"working", "prepared", "committed", "aborted"}
         /\ WorkOf'[p][b] \in {"working", "prepared", "committed", "aborted"}
  BY DEF WorkOf

\* What a delivery does at its branch; no other branch is touched.
LEMMA DeliverWork ==
  ASSUME TypeOK, NEW p \in Payment, NEW b \in Branch, Deliver(p, b)
  PROVE  /\ \A c \in Branch : c # b => WorkOf'[p][c] = WorkOf[p][c]
         /\ \/ WorkOf'[p][b] = WorkOf[p][b]
            \/ WorkOf[p][b] = "working" /\ WorkOf'[p][b] \in {"prepared", "aborted"}
            \/ WorkOf[p][b] = "prepared" /\ WorkOf'[p][b] \in {"committed", "aborted"}
<1> USE DEF BranchState
<1>1. \A op \in Op : InsertRows(p, b, op) =>
        /\ barrier'[p][b] = barrier[p][b] \cup (IF op = "cancel" THEN {"try", op} ELSE {op})
        /\ \A c \in Branch : c # b => barrier'[p][c] = barrier[p][c]
  BY InsertRowsEffect
<1>2. ASSUME DeliverTry(p, b)
      PROVE  /\ \A c \in Branch : c # b => BranchState(p, c)' = BranchState(p, c) /\ barrier'[p][c] = barrier[p][c]
             /\ \/ BranchState(p, b)' = BranchState(p, b) /\ ("try" \in barrier'[p][b] <=> "try" \in barrier[p][b])
                \/ /\ BranchState(p, b) = "NONE" /\ "try" \notin barrier[p][b]
                   /\ BranchState(p, b)' \in {"FROZEN", "PREPARED"}
  <2>1. CASE b = "account"
    BY <1>1, <1>2, <2>1
    DEF DeliverTry, AccountTry, BarrierSkips, ReachesBusiness, RollBack, participantVars, TypeOK, ParticipantsTypeOK
  <2>2. CASE b = "ledger"
    BY <1>1, <1>2, <2>2
    DEF DeliverTry, LedgerTry, BarrierSkips, ReachesBusiness, RollBack, participantVars, TypeOK, ParticipantsTypeOK
  <2>3. QED BY <2>1, <2>2
<1>3. ASSUME DeliverConfirm(p, b)
      PROVE  /\ \A c \in Branch : c # b => BranchState(p, c)' = BranchState(p, c) /\ barrier'[p][c] = barrier[p][c]
             /\ \/ /\ BranchState(p, b)' = BranchState(p, b)
                   /\ "try" \in barrier'[p][b] <=> "try" \in barrier[p][b]
                \/ /\ BranchState(p, b) \in {"FROZEN", "PREPARED"}
                   /\ BranchState(p, b)' \in {"CONFIRMED", "POSTED"}
  <2>1. CASE b = "account"
    BY <1>1, <1>3, <2>1 DEF DeliverConfirm, AccountConfirm, BarrierSkips, TypeOK, ParticipantsTypeOK
  <2>2. CASE b = "ledger"
    BY <1>1, <1>3, <2>2 DEF DeliverConfirm, LedgerConfirm, Advance, BarrierSkips, TypeOK, ParticipantsTypeOK
  <2>3. QED BY <2>1, <2>2
<1>4. ASSUME DeliverCancel(p, b)
      PROVE  /\ \A c \in Branch : c # b => BranchState(p, c)' = BranchState(p, c) /\ barrier'[p][c] = barrier[p][c]
             /\ "try" \in barrier'[p][b]
             /\ \/ BranchState(p, b)' = BranchState(p, b)
                \/ BranchState(p, b) \in {"FROZEN", "PREPARED"} /\ BranchState(p, b)' = "CANCELLED"
  <2>1. CASE b = "account"
    BY <1>1, <1>4, <2>1 DEF DeliverCancel, AccountCancel, BarrierSkips, TypeOK, ParticipantsTypeOK
  <2>2. CASE b = "ledger"
    BY <1>1, <1>4, <2>2 DEF DeliverCancel, LedgerCancel, Advance, BarrierSkips, TypeOK, ParticipantsTypeOK
  <2>3. QED BY <2>1, <2>2
<1>5. \A c \in Branch : c # b => WorkOf'[p][c] = WorkOf[p][c]
  BY <1>2, <1>3, <1>4, WorkKept DEF Deliver
<1>6. \/ WorkOf'[p][b] = WorkOf[p][b]
      \/ WorkOf[p][b] = "working" /\ WorkOf'[p][b] \in {"prepared", "aborted"}
      \/ WorkOf[p][b] = "prepared" /\ WorkOf'[p][b] \in {"committed", "aborted"}
  <2>0. ASSUME BranchState(p, b)' = BranchState(p, b), "try" \in barrier'[p][b] <=> "try" \in barrier[p][b]
        PROVE  WorkOf'[p][b] = WorkOf[p][b]
    BY <2>0, WorkKept
  <2>1. CASE DeliverTry(p, b)
    <3>1. ASSUME BranchState(p, b) = "NONE", "try" \notin barrier[p][b], BranchState(p, b)' \in {"FROZEN", "PREPARED"}
          PROVE  WorkOf[p][b] = "working" /\ WorkOf'[p][b] = "prepared"
      BY <3>1, WorkIs
    <3>2. QED BY <1>2, <2>0, <2>1, <3>1
  <2>2. CASE DeliverConfirm(p, b)
    <3>1. ASSUME BranchState(p, b) \in {"FROZEN", "PREPARED"}, BranchState(p, b)' \in {"CONFIRMED", "POSTED"}
          PROVE  WorkOf[p][b] = "prepared" /\ WorkOf'[p][b] = "committed"
      BY <3>1, WorkIs
    <3>2. QED BY <1>3, <2>0, <2>2, <3>1
  <2>3. CASE DeliverCancel(p, b)
    <3>1. CASE BranchState(p, b)' = BranchState(p, b)
      <4>1. CASE "try" \in barrier[p][b]
        BY <1>4, <2>0, <2>3, <3>1, <4>1
      <4>2. CASE BranchState(p, b) # "NONE"
        BY <3>1, <4>2 DEF WorkOf
      <4>3. CASE "try" \notin barrier[p][b] /\ BranchState(p, b) = "NONE"
        BY <1>4, <2>3, <3>1, <4>3, WorkIs
      <4>4. QED BY <4>1, <4>2, <4>3
    <3>2. CASE BranchState(p, b) \in {"FROZEN", "PREPARED"} /\ BranchState(p, b)' = "CANCELLED"
      BY <3>2, WorkIs
    <3>3. QED BY <1>4, <2>3, <3>1, <3>2
  <2>4. QED BY <2>1, <2>2, <2>3 DEF Deliver
<1>7. QED BY <1>5, <1>6

LEMMA CommitmentStep ==
  ASSUME Evidence, Evidence', AtomicOutcome, AtomicOutcome', [Next]_vars
  PROVE  [Commitment!Next]_WorkOf
<1> USE DEF Evidence, TypeInv
<1>1. ASSUME NEW p \in Payment, NEW b \in Branch, Deliver(p, b)
      PROVE  [Commitment!Next]_WorkOf
  <2>1. \A q \in Payment : q # p => WorkOf'[q] = WorkOf[q]
    BY <1>1, DeliverKept DEF SamePayment, SameTables, SameParticipants, WorkOf, BranchState
  <2>2. WorkOf' = [WorkOf EXCEPT ![p][b] = WorkOf'[p][b]]
    <3>1. /\ \A q \in Payment : WorkOf[q] = [c \in Branch |-> WorkOf[q][c]] /\ WorkOf'[q] = [c \in Branch |-> WorkOf'[q][c]]
          /\ WorkOf = [q \in Payment |-> WorkOf[q]] /\ WorkOf' = [q \in Payment |-> WorkOf'[q]]
      BY DEF WorkOf
    <3>2. WorkOf'[p] = [WorkOf[p] EXCEPT ![b] = WorkOf'[p][b]]
      BY <1>1, <3>1, DeliverWork
    <3>3. QED BY <2>1, <3>1, <3>2
  <2>3. /\ WorkOf[p][b] \in {"working", "aborted"} => \A c \in Branch : WorkOf[p][c] # "committed"
        /\ WorkOf'[p][b] = "aborted" => \A c \in Branch : WorkOf'[p][c] # "committed"
        /\ WorkOf'[p][b] = "committed" => \A c \in Branch : WorkOf'[p][c] \in {"prepared", "committed"}
    <3>1. /\ (\E c \in Branch : WorkOf[p][c] = "committed") => \A c \in Branch : WorkOf[p][c] \in {"prepared", "committed"}
          /\ (\E c \in Branch : WorkOf'[p][c] = "committed") => \A c \in Branch : WorkOf'[p][c] \in {"prepared", "committed"}
      <4>1. /\ WorkOf[p]["account"] = "committed" => reservation[p] = "CONFIRMED"
            /\ WorkOf[p]["ledger"] = "committed" => ledger[p] = "POSTED"
            /\ reservation[p] \in {"FROZEN", "CONFIRMED"} => WorkOf[p]["account"] \in {"prepared", "committed"}
            /\ ledger[p] \in {"PREPARED", "POSTED"} => WorkOf[p]["ledger"] \in {"prepared", "committed"}
        BY DEF WorkOf, BranchState, TypeOK, ParticipantsTypeOK
      <4>2. /\ WorkOf'[p]["account"] = "committed" => reservation'[p] = "CONFIRMED"
            /\ WorkOf'[p]["ledger"] = "committed" => ledger'[p] = "POSTED"
            /\ reservation'[p] \in {"FROZEN", "CONFIRMED"} => WorkOf'[p]["account"] \in {"prepared", "committed"}
            /\ ledger'[p] \in {"PREPARED", "POSTED"} => WorkOf'[p]["ledger"] \in {"prepared", "committed"}
        BY DEF WorkOf, BranchState, TypeOK, ParticipantsTypeOK
      <4>3. QED BY <4>1, <4>2 DEF AtomicOutcome
    <3>2. QED BY <3>1
  <2>4. CASE WorkOf'[p][b] = WorkOf[p][b]
    <3>1. WorkOf[p] = [c \in Branch |-> WorkOf[p][c]] /\ WorkOf = [q \in Payment |-> WorkOf[q]]
      BY DEF WorkOf
    <3>2. WorkOf' = WorkOf
      BY <2>2, <2>4, <3>1
    <3>3. QED BY <3>2
  <2>5. CASE WorkOf[p][b] = "working" /\ WorkOf'[p][b] = "prepared"
    <3>1. Commitment!Prepare(p, b)
      BY <2>2, <2>5 DEF Commitment!Prepare, Commitment!Move
    <3>2. QED BY <3>1 DEF Commitment!Next
  <2>6. CASE WorkOf[p][b] = "prepared" /\ WorkOf'[p][b] = "committed"
    <3>1. Commitment!Commit(p, b)
      BY <1>1, <2>2, <2>3, <2>6, DeliverWork DEF Commitment!Commit, Commitment!Move
    <3>2. QED BY <3>1 DEF Commitment!Next
  <2>7. CASE WorkOf[p][b] \in {"working", "prepared"} /\ WorkOf'[p][b] = "aborted"
    <3>1. Commitment!Abort(p, b)
      BY <1>1, <2>2, <2>3, <2>7, DeliverWork DEF Commitment!Abort, Commitment!Move
    <3>2. QED BY <3>1 DEF Commitment!Next
  <2>8. QED BY <1>1, <2>4, <2>5, <2>6, <2>7, DeliverWork
<1>2. ASSUME Reset PROVE [Commitment!Next]_WorkOf
  <2> DEFINE forgotten == {p \in Payment : HasGid(p)}
  <2>1. ASSUME NEW p \in Payment
        PROVE  WorkOf'[p] = IF p \in forgotten THEN [b \in Branch |-> "working"] ELSE WorkOf[p]
    <3>1. \A b \in Branch : BranchState(p, b)' = "NONE"
      BY <1>2 DEF Reset, BranchState
    <3>2. CASE p \in forgotten
      BY <1>2, <3>1, <3>2 DEF Reset, Cleared, NoBarrierRows, WorkOf
    <3>3. CASE p \notin forgotten
      <4>1. \A b \in Branch : BranchState(p, b) = "NONE"
        BY <3>3 DEF HasGid, IInv, PaymentInv, RowInv, Untouched, BranchState
      <4>2. barrier'[p] = barrier[p]
        BY <1>2, <3>3 DEF Reset, Cleared
      <4>3. QED BY <3>1, <3>3, <4>1, <4>2 DEF WorkOf
    <3>4. QED BY <3>2, <3>3
  <2>2. WorkOf' = [p \in Payment |-> IF p \in forgotten THEN [b \in Branch |-> "working"] ELSE WorkOf[p]]
    <3>1. WorkOf' = [p \in Payment |-> WorkOf'[p]]
      BY DEF WorkOf
    <3>2. QED BY <2>1, <3>1
  <2>3. Commitment!Forget
    BY <2>2 DEF Commitment!Forget
  <2>4. QED BY <2>3 DEF Commitment!Next
<1>3. ASSUME UNCHANGED participantVars PROVE [Commitment!Next]_WorkOf
  BY <1>3 DEF participantVars, WorkOf, BranchState
<1>4. QED
  BY <1>1, <1>2, <1>3, StatusMoves DEF vars

\* The two branches commit atomically, whatever the network, the coordinator
\* and the resets do.
THEOREM RefinesAtomicCommit == Spec => ImplementsAtomicCommit
<1>1. Init => Commitment!Init
  BY DEF Init, ParticipantsInit, NoBarrierRows, Commitment!Init, WorkOf, BranchState
<1>2. Evidence /\ Evidence' /\ AtomicOutcome /\ AtomicOutcome' /\ [Next]_vars => [Commitment!Next]_WorkOf
  BY CommitmentStep
<1>3. QED
  BY <1>1, <1>2, EvidenceHolds, AtomicCommitment, PTL DEF Spec, ImplementsAtomicCommit, Commitment!Spec

=============================================================================
