--------------------------- MODULE LocalPaymentProofs ---------------------------
(***************************************************************************)
(* Proofs about LocalPayment for any payments, amounts, keys, faults and   *)
(* callbacks, and for any interleaving of workflows, callbacks, closings   *)
(* and resets.                                                             *)
(***************************************************************************)
EXTENDS LocalPayment, SequenceTheorems, FiniteSetTheorems, TLAPS

\* What the repository's operations can do to a payment that is not charged by
\* them.
Quiet(p, s, r) ==
  /\ status[p] # "SUCCESS" /\ s # "SUCCESS"
  /\ r # "CONFIRMED" /\ (r = "FROZEN" => s = "PROCESSING")
  /\ status' = [status EXCEPT ![p] = s]
  /\ reservation' = [reservation EXCEPT ![p] = r]
  /\ UNCHANGED ledger

Charge(p) ==
  /\ status[p] = "PROCESSING" /\ reservation[p] = "FROZEN"
  /\ status' = [status EXCEPT ![p] = "SUCCESS"]
  /\ reservation' = [reservation EXCEPT ![p] = "CONFIRMED"]
  /\ ledger' = Append(ledger, p)

\* The tables ChargedAsDecided speaks of, and their types.
Typed ==
  /\ status \in [Payment -> Status]
  /\ reservation \in [Payment -> {"NONE", "FROZEN", "CONFIRMED", "CANCELLED"}]
  /\ ledger \in Seq(Payment)

Charges(p) == {i \in DOMAIN ledger : ledger[i] = p}

Decided(p) ==
  /\ Cardinality(Charges(p)) = IF status[p] = "SUCCESS" THEN 1 ELSE 0
  /\ status[p] = "SUCCESS" <=> reservation[p] = "CONFIRMED"
  /\ Frozen(p) => status[p] = "PROCESSING"

IInv == Typed /\ \A p \in Payment : Decided(p)

LEMMA ChargesFinite ==
  ASSUME Typed, NEW p PROVE IsFiniteSet(Charges(p))
<1>1. DOMAIN ledger = 1..Len(ledger) /\ Len(ledger) \in Nat
  BY DEF Typed
<1>2. IsFiniteSet(1..Len(ledger))
  BY <1>1, FS_Interval
<1>3. QED BY <1>1, <1>2, FS_Subset DEF Charges

LEMMA QuietInv ==
  ASSUME IInv, NEW p \in Payment, NEW s \in Status, NEW r \in {"NONE", "FROZEN", "CANCELLED"}, Quiet(p, s, r)
  PROVE  IInv'
<1>1. Typed'
  BY DEF IInv, Typed, Quiet
<1>2. ASSUME NEW q \in Payment PROVE Decided(q)'
  <2>1. Charges(q)' = Charges(q)
    BY DEF Charges, Quiet
  <2>2. QED BY <2>1 DEF IInv, Typed, Decided, Frozen, Quiet
<1>3. QED BY <1>1, <1>2 DEF IInv

LEMMA ChargeInv ==
  ASSUME IInv, NEW p \in Payment, Charge(p)
  PROVE  IInv'
<1>1. Typed'
  BY AppendProperties DEF IInv, Typed, Charge, Status, Final
<1> DEFINE n == Len(ledger)
<1>2. n \in Nat /\ DOMAIN ledger = 1..n
  BY DEF IInv, Typed
<1>3. Len(ledger') = n + 1 /\ DOMAIN ledger' = 1..(n + 1)
  BY <1>1, <1>2, AppendProperties DEF IInv, Typed, Charge
<1>4. ledger'[n + 1] = p /\ \A i \in 1..n : ledger'[i] = ledger[i]
  BY <1>2, AppendProperties DEF IInv, Typed, Charge
<1>5. Charges(p)' = Charges(p) \cup {n + 1} /\ n + 1 \notin Charges(p)
  BY <1>2, <1>3, <1>4 DEF Charges
<1>6. Cardinality(Charges(p)') = Cardinality(Charges(p)) + 1
  BY <1>5, ChargesFinite, FS_AddElement DEF IInv
<1>7. Decided(p)'
  BY <1>6 DEF IInv, Decided, Charge, Frozen, Typed
<1>8. ASSUME NEW q \in Payment, q # p PROVE Decided(q)'
  <2>1. Charges(q)' = Charges(q)
    BY <1>2, <1>3, <1>4, <1>8 DEF Charges
  <2>2. QED BY <1>8, <2>1 DEF IInv, Decided, Charge, Frozen, Typed
<1>9. QED BY <1>1, <1>7, <1>8 DEF IInv

LEMMA Kept ==
  ASSUME IInv, UNCHANGED <<status, reservation, ledger>> PROVE IInv'
<1>1. \A p \in Payment : Charges(p)' = Charges(p)
  BY DEF Charges
<1>2. QED BY <1>1 DEF IInv, Typed, Decided, Frozen

\* What a step does to the tables: nothing, one quiet change, one charge, or
\* the reset.
Effect ==
  \/ UNCHANGED <<status, reservation, ledger>>
  \/ \E p \in Payment, s \in Status, r \in {"NONE", "FROZEN", "CANCELLED"} :
       Quiet(p, s, r) /\ (status[p] \in Final => s = status[p])
  \/ \E p \in Payment : Charge(p)
  \/ ResetStore

LEMMA GiveUpEffect ==
  ASSUME IInv, NEW p \in Payment, NEW s \in {"FAILED", "CLOSED"}, status[p] \notin Final, GiveUp(p, s)
  PROVE  Effect
<1>1. \E r \in {"NONE", "CANCELLED"} : reservation' = [reservation EXCEPT ![p] = r]
  <2>1. CASE Frozen(p)
    BY <2>1 DEF GiveUp, Release
  <2>2. CASE ~Frozen(p)
    <3>1. reservation[p] \in {"NONE", "CANCELLED"}
      BY <2>2 DEF IInv, Typed, Decided, Frozen, Final
    <3>2. reservation' = [reservation EXCEPT ![p] = reservation[p]]
      BY <2>2 DEF GiveUp, Release, IInv, Typed
    <3>3. QED BY <3>1, <3>2
  <2>3. QED BY <2>1, <2>2
<1>2. s \in Status /\ s # "SUCCESS" /\ status[p] # "SUCCESS"
  BY DEF Status, Final
<1>3. status' = [status EXCEPT ![p] = s] /\ UNCHANGED ledger
  BY DEF GiveUp, SetStatus
<1>4. QED BY <1>1, <1>2, <1>3 DEF Effect, Quiet

LEMMA CallbackEffect ==
  ASSUME IInv, NEW p \in Payment, NEW cb, NEW result, ProcessCallback(p, cb, result)
  PROVE  Effect
<1>1. CASE Refused
  BY <1>1 DEF Refused, storeVars, Effect
<1>2. CASE UNCHANGED <<status, reservation, ledger>>
  BY <1>2 DEF Effect
<1>3. ASSUME status[p] = "PROCESSING", cb.outcome = "failed" \/ Frozen(p), Apply(p, cb)
      PROVE  Effect
  <2>1. CASE cb.outcome = "failed"
    <3>1. GiveUp(p, "FAILED")
      BY <1>3, <2>1 DEF Apply
    <3>2. QED BY <1>3, <3>1, GiveUpEffect DEF Final
  <2>2. CASE cb.outcome # "failed"
    <3>1. Charge(p)
      BY <1>3, <2>2 DEF Apply, Charge, Frozen, SetStatus
    <3>2. QED BY <3>1 DEF Effect
  <2>3. QED BY <2>1, <2>2
<1>4. ASSUME Judge(p, cb, result) PROVE Effect
  BY <1>2, <1>3, <1>4 DEF Judge, Ignored
<1>5. QED
  BY <1>1, <1>4 DEF ProcessCallback

LEMMA StepEffect ==
  ASSUME IInv, [Next]_vars PROVE Effect
<1>1. ASSUME NEW p \in Payment, CreatePayment(p) PROVE Effect
  <2>1. status[p] = "NONE"
    BY <1>1 DEF CreatePayment, Original, Exists
  <2>2. reservation[p] \in {"NONE", "CANCELLED"}
    BY <2>1 DEF IInv, Typed, Decided, Frozen
  <2>3. Quiet(p, "INIT", reservation[p]) /\ "INIT" \in Status /\ status[p] \notin Final
    BY <1>1, <2>1, <2>2 DEF CreatePayment, SetStatus, Quiet, IInv, Typed, Status, Final
  <2>4. QED BY <2>2, <2>3 DEF Effect
<1>2. ASSUME NEW p \in Payment, NEW result, StartPayment(p, result) PROVE Effect
  <2>1. CASE status[p] # "INIT"
    BY <1>2, <2>1 DEF StartPayment, Refused, storeVars, Effect
  <2>2. CASE status[p] = "INIT"
    <3>1. reservation[p] \in {"NONE", "CANCELLED"}
      BY <2>2 DEF IInv, Typed, Decided, Frozen
    <3>2. Quiet(p, "PROCESSING", reservation[p]) /\ "PROCESSING" \in Status /\ status[p] \notin Final
      BY <1>2, <2>2, <3>1 DEF StartPayment, SetStatus, Quiet, IInv, Typed, Status, Final
    <3>3. QED BY <3>1, <3>2 DEF Effect
  <2>3. QED BY <2>1, <2>2
<1>3. ASSUME NEW p \in Payment, NEW result, Freeze(p, result) PROVE Effect
  <2>1. CASE Refused
    BY <2>1 DEF Refused, storeVars, Effect
  <2>2. CASE ~Refused
    <3>1. Quiet(p, "PROCESSING", "FROZEN") /\ "PROCESSING" \in Status /\ status[p] \notin Final
      BY <1>3, <2>2 DEF Freeze, Quiet, IInv, Typed, Status, Final
    <3>2. QED BY <3>1 DEF Effect
  <2>3. QED BY <2>1, <2>2
<1>4. ASSUME NEW p \in Payment, NEW result, FailAndRelease(p, result) PROVE Effect
  <2>1. CASE Refused
    BY <2>1 DEF Refused, storeVars, Effect
  <2>2. CASE ~Refused
    BY <1>4, <2>2, GiveUpEffect DEF FailAndRelease
  <2>3. QED BY <2>1, <2>2
<1>5. ASSUME NEW p \in Payment, ClosePayment(p) PROVE Effect
  BY <1>5, GiveUpEffect DEF ClosePayment, Final
<1>6. ASSUME UNCHANGED storeVars PROVE Effect
  BY <1>6 DEF storeVars, Effect
<1>7. ASSUME NEW p \in Payment, Create(p) PROVE Effect
  BY <1>1, <1>2, <1>3, <1>4, <1>6, <1>7, CallbackEffect
  DEF Create, Insert, Start, TryFreeze, Fail, Confirm, ReleaseKey, Refused
<1>8. ASSUME NEW p \in Payment, ChannelCallback(p) PROVE Effect
  BY <1>8, CallbackEffect DEF ChannelCallback
<1>9. QED
  BY <1>5, <1>6, <1>7, <1>8
  DEF Next, vars, AskKey, EnterKey, Close, Reset, Effect

LEMMA InitInv == Init => IInv
<1> SUFFICES ASSUME Init PROVE IInv
  OBVIOUS
<1> USE DEF Init, Empty
<1>1. Typed
  BY DEF Typed, Status
<1>2. \A p \in Payment : Charges(p) = {}
  BY DEF Charges
<1>3. QED BY <1>1, <1>2, FS_EmptySet DEF IInv, Decided, Frozen

LEMMA InvStep == IInv /\ [Next]_vars => IInv'
<1> SUFFICES ASSUME IInv, [Next]_vars PROVE IInv'
  OBVIOUS
<1>1. ASSUME ResetStore PROVE IInv'
  <2>1. Typed'
    BY <1>1 DEF ResetStore, Typed, Status
  <2>2. \A p \in Payment : Charges(p)' = {}
    BY <1>1 DEF ResetStore, Charges
  <2>3. QED BY <1>1, <2>1, <2>2, FS_EmptySet DEF IInv, Decided, Frozen, ResetStore
<1>2. QED BY <1>1, StepEffect, QuietInv, ChargeInv, Kept DEF Effect

LEMMA Invariant == Spec => []IInv
  BY InitInv, InvStep, PTL DEF Spec

\* One ledger entry per successful payment, none for any other, and no funds
\* frozen behind a finished one.
THEOREM Charged == Spec => []ChargedAsDecided
<1>1. IInv => ChargedAsDecided
  BY DEF IInv, Decided, Charges, ChargedAsDecided
<1>2. QED BY <1>1, Invariant, PTL

\* A final status changes only when everything is reset.
THEOREM DecidedForGood == Spec => FinalForEver
<1> DEFINE Step ==
      \A p \in Payment : status[p] \in Final =>
        status'[p] = status[p] \/ (\A q \in Payment : status'[q] = "NONE")
<1>1. IInv /\ [Next]_vars => [Step]_storeVars
  <2> SUFFICES ASSUME IInv, [Next]_vars PROVE Step
    OBVIOUS
  <2>1. CASE UNCHANGED <<status, reservation, ledger>>
    BY <2>1
  <2>2. ASSUME NEW p \in Payment, NEW s \in Status, NEW r, Quiet(p, s, r), status[p] \in Final => s = status[p]
        PROVE  Step
    BY <2>2 DEF Quiet, IInv, Typed
  <2>3. ASSUME NEW p \in Payment, Charge(p) PROVE Step
    BY <2>3 DEF Charge, IInv, Typed, Final
  <2>4. CASE ResetStore
    BY <2>4 DEF ResetStore
  <2>5. QED BY <2>1, <2>2, <2>3, <2>4, StepEffect DEF Effect
<1>2. QED BY <1>1, Invariant, PTL DEF Spec, FinalForEver

-----------------------------------------------------------------------------
(* The contract both modes share.                                          *)

StatusMoves(p, s) == status' = [status EXCEPT ![p] = s]

MoneyMoves(p, from, to, available, frozen) ==
  /\ reservation[p] = from
  /\ reservation' = [reservation EXCEPT ![p] = to]
  /\ balance' = [available |-> available, frozen |-> frozen]

MoneyStays == UNCHANGED <<reservation, balance, ledger>>

Opened(p)  == status[p] = "NONE" /\ StatusMoves(p, "INIT") /\ MoneyStays
Started(p) == status[p] = "INIT" /\ StatusMoves(p, "PROCESSING") /\ MoneyStays
Held(p) ==
  /\ status[p] = "PROCESSING" /\ status' = status /\ Affordable(p)
  /\ MoneyMoves(p, "NONE", "FROZEN", balance.available - Amount[p], balance.frozen + Amount[p])
  /\ ledger' = ledger
Paid(p) ==
  /\ status[p] = "PROCESSING" /\ StatusMoves(p, "SUCCESS")
  /\ MoneyMoves(p, "FROZEN", "CONFIRMED", balance.available, balance.frozen - Amount[p])
  /\ ledger' = Append(ledger, p)
GivenUp(p, s) ==
  /\ status[p] \in {"INIT", "PROCESSING"} /\ StatusMoves(p, s)
  /\ \/ /\ MoneyMoves(p, "FROZEN", "CANCELLED", balance.available + Amount[p], balance.frozen - Amount[p])
        /\ ledger' = ledger
     \/ ~Frozen(p) /\ MoneyStays

Settled(p) == Paid(p) \/ \E s \in {"FAILED", "CLOSED"} : GivenUp(p, s)

Moves(p) == Opened(p) \/ Started(p) \/ Held(p) \/ Settled(p)

NothingMoves == UNCHANGED <<status, reservation, balance, ledger>>

\* No payment has funds before it is started.
Fresh == \A p \in Payment : status[p] \in {"NONE", "INIT"} => reservation[p] = "NONE"

LEMMA CallbackMoves ==
  ASSUME NEW p \in Payment, NEW cb, NEW result, ProcessCallback(p, cb, result)
  PROVE  NothingMoves \/ Settled(p)
<1> USE DEF NothingMoves
<1>1. CASE Refused
  BY <1>1 DEF Refused, storeVars
<1>2. ASSUME status[p] = "PROCESSING", cb.outcome = "failed" \/ Frozen(p), Apply(p, cb) PROVE Settled(p)
  <2>1. CASE cb.outcome = "success"
    BY <1>2, <2>1 DEF Apply, Frozen, SetStatus, Settled, Paid, StatusMoves, MoneyMoves
  <2>2. CASE cb.outcome = "failed"
    <3>1. GivenUp(p, "FAILED")
      BY <1>2, <2>2
      DEF Apply, GiveUp, Release, Frozen, SetStatus, GivenUp, StatusMoves, MoneyMoves, MoneyStays
    <3>2. QED BY <3>1 DEF Settled
  <2>3. QED BY <1>2, <2>1, <2>2 DEF Apply
<1>3. QED BY <1>1, <1>2 DEF ProcessCallback, Judge, Ignored

LEMMA StepMoves ==
  ASSUME Typed, [Next]_vars
  PROVE  NothingMoves \/ (\E p \in Payment : Moves(p)) \/ ResetStore
<1> USE DEF NothingMoves
<1>1. ASSUME NEW p \in Payment, CreatePayment(p) PROVE Moves(p)
  BY <1>1 DEF CreatePayment, Original, Exists, SetStatus, Moves, Opened, StatusMoves, MoneyStays
<1>2. ASSUME NEW p \in Payment, NEW result, StartPayment(p, result) PROVE NothingMoves \/ Moves(p)
  BY <1>2 DEF StartPayment, SetStatus, Refused, storeVars, Moves, Started, StatusMoves, MoneyStays
<1>3. ASSUME NEW p \in Payment, NEW result, Freeze(p, result) PROVE NothingMoves \/ Moves(p)
  BY <1>3 DEF Freeze, Refused, storeVars, Moves, Held, MoneyMoves
<1>4. ASSUME NEW p \in Payment, NEW s \in {"FAILED", "CLOSED"}, status[p] \in {"INIT", "PROCESSING"}, GiveUp(p, s)
      PROVE  Moves(p)
  <2>1. GivenUp(p, s)
    BY <1>4 DEF GiveUp, Release, SetStatus, GivenUp, Frozen, StatusMoves, MoneyMoves, MoneyStays
  <2>2. QED BY <2>1 DEF Moves, Settled
<1>5. ASSUME NEW p \in Payment, NEW result, FailAndRelease(p, result) PROVE NothingMoves \/ Moves(p)
  <2>1. Refused => NothingMoves
    BY DEF Refused, storeVars
  <2>2. Exists(p) /\ status[p] \notin Final => status[p] \in {"INIT", "PROCESSING"}
    BY DEF Typed, Exists, Status
  <2>3. QED BY <1>4, <1>5, <2>1, <2>2 DEF FailAndRelease
<1>6. ASSUME NEW p \in Payment, ClosePayment(p) PROVE Moves(p)
  BY <1>4, <1>6 DEF ClosePayment
<1>7. ASSUME UNCHANGED storeVars PROVE NothingMoves
  BY <1>7 DEF storeVars
<1>8. ASSUME NEW p \in Payment, Create(p) PROVE NothingMoves \/ Moves(p)
  BY <1>1, <1>2, <1>3, <1>5, <1>7, <1>8, CallbackMoves
  DEF Create, Insert, Start, TryFreeze, Fail, Confirm, ReleaseKey, Refused, Moves
<1>9. ASSUME NEW p \in Payment, ChannelCallback(p) PROVE NothingMoves \/ Moves(p)
  BY <1>9, CallbackMoves DEF ChannelCallback, Moves
<1>10. QED
  BY <1>6, <1>7, <1>8, <1>9 DEF Next, vars, AskKey, EnterKey, Close, Reset

LEMMA FreshStep == Typed /\ Fresh /\ [Next]_vars => Fresh'
<1> SUFFICES ASSUME Typed, Fresh, [Next]_vars PROVE Fresh'
  OBVIOUS
<1>1. CASE NothingMoves
  BY <1>1 DEF NothingMoves, Fresh
<1>2. ASSUME NEW p \in Payment, Moves(p) PROVE Fresh'
  BY <1>2
  DEF Typed, Fresh, Moves, Settled, Opened, Started, Held, Paid, GivenUp, StatusMoves, MoneyMoves, MoneyStays, Status
<1>3. CASE ResetStore
  BY <1>3 DEF ResetStore, Fresh
<1>4. QED BY <1>1, <1>2, <1>3, StepMoves

LEMMA Views ==
  /\ status' = status => StageOf' = StageOf
  /\ reservation' = reservation => MoneyOf' = MoneyOf
  BY DEF StageOf, MoneyOf

LEMMA StageView ==
  ASSUME Typed, NEW p \in Payment, NEW s \in Status, StatusMoves(p, s)
  PROVE  /\ StageOf' = [StageOf EXCEPT ![p] = StageOf'[p]] /\ status'[p] = s
         /\ status[p] = "NONE" <=> StageOf[p] = "absent"
         /\ status[p] \in {"INIT", "PROCESSING"} <=> StageOf[p] = "open"
         /\ s \in {"INIT", "PROCESSING"} => StageOf'[p] = "open"
         /\ s \in Final => StageOf'[p] = s
<1>1. status'[p] = s /\ \A q \in Payment : q # p => status'[q] = status[q]
  BY DEF Typed, StatusMoves
<1>2. \A q \in Payment : q # p => StageOf'[q] = StageOf[q]
  BY <1>1 DEF StageOf
<1>3. StageOf = [q \in Payment |-> StageOf[q]] /\ StageOf' = [q \in Payment |-> StageOf'[q]]
  BY DEF StageOf
<1>4. StageOf' = [StageOf EXCEPT ![p] = StageOf'[p]]
  BY <1>2, <1>3
<1>5. QED BY <1>1, <1>4 DEF StageOf, Typed, Status, Final

LEMMA MoneyView ==
  ASSUME Typed, NEW p \in Payment, NEW from, NEW to \in {"FROZEN", "CONFIRMED", "CANCELLED"}, NEW available, NEW frozen,
         MoneyMoves(p, from, to, available, frozen)
  PROVE  /\ MoneyOf' = [MoneyOf EXCEPT ![p] = MoneyOf'[p]]
         /\ from = "NONE" => MoneyOf[p] = "none"
         /\ from = "FROZEN" => MoneyOf[p] = "held"
         /\ to = "FROZEN" => MoneyOf'[p] = "held"
         /\ to = "CONFIRMED" => MoneyOf'[p] = "paid"
         /\ to = "CANCELLED" => MoneyOf'[p] = "returned"
         /\ balance'.available = available
<1>1. /\ reservation[p] = from /\ reservation'[p] = to
      /\ \A q \in Payment : q # p => reservation'[q] = reservation[q]
  BY DEF Typed, MoneyMoves
<1>2. \A q \in Payment : q # p => MoneyOf'[q] = MoneyOf[q]
  BY <1>1 DEF MoneyOf
<1>3. MoneyOf = [q \in Payment |-> MoneyOf[q]] /\ MoneyOf' = [q \in Payment |-> MoneyOf'[q]]
  BY DEF MoneyOf
<1>4. MoneyOf' = [MoneyOf EXCEPT ![p] = MoneyOf'[p]]
  BY <1>2, <1>3
<1>5. QED BY <1>1, <1>4 DEF MoneyOf, MoneyMoves

LEMMA ContractStep ==
  ASSUME IInv, Fresh, [Next]_vars
  PROVE  [Contract!Next]_Contract!vars
<1> USE DEF IInv
<1>1. CASE NothingMoves
  BY <1>1, Views DEF NothingMoves, Contract!vars
<1>2. ASSUME NEW p \in Payment, Opened(p) PROVE [Contract!Next]_Contract!vars
  <2>1. MoneyOf[p] = "none"
    BY <1>2 DEF Opened, Fresh, MoneyOf
  <2>2. Contract!Accept(p)
    BY <1>2, <2>1, Views, StageView
    DEF Opened, MoneyStays, Contract!Accept, Contract!MoveStage, Status
  <2>3. QED BY <2>2 DEF Contract!Next
<1>3. ASSUME NEW p \in Payment, Started(p) PROVE [Contract!Next]_Contract!vars
  <2>1. StageOf' = StageOf
    BY <1>3 DEF Started, StatusMoves, StageOf, Typed
  <2>2. QED BY <1>3, <2>1, Views DEF Started, MoneyStays, Contract!vars
<1>4. ASSUME NEW p \in Payment, Held(p) PROVE [Contract!Next]_Contract!vars
  <2>1. StageOf' = StageOf /\ StageOf[p] = "open"
    BY <1>4, Views DEF Held, StageOf
  <2>2. Contract!Hold(p)
    BY <1>4, <2>1, MoneyView DEF Held, Affordable, Contract!Hold, Contract!MoveMoney
  <2>3. QED BY <2>2 DEF Contract!Next
<1>5. ASSUME NEW p \in Payment, Paid(p) PROVE [Contract!Next]_Contract!vars
  <2>1. StageOf' = [StageOf EXCEPT ![p] = "SUCCESS"] /\ StageOf[p] = "open"
    BY <1>5, StageView DEF Paid, Status, Final
  <2>2. Contract!Pay(p) /\ MoneyOf'[p] = "paid"
    BY <1>5, MoneyView DEF Paid, Contract!Pay, Contract!MoveMoney
  <2>3. Contract!End(p)
    BY <2>1, <2>2 DEF Contract!End, Contract!MoveStage, Contract!Ended
  <2>4. QED BY <2>3 DEF Contract!Next
<1>6. ASSUME NEW p \in Payment, NEW s \in {"FAILED", "CLOSED"}, GivenUp(p, s)
      PROVE  [Contract!Next]_Contract!vars
  <2>1. StageOf' = [StageOf EXCEPT ![p] = s] /\ StageOf[p] = "open"
    BY <1>6, StageView DEF GivenUp, Status, Final
  <2>2. /\ Contract!Return(p) \/ UNCHANGED <<MoneyOf, balance.available>>
        /\ MoneyOf'[p] \notin {"held", "paid"}
    <3>1. CASE MoneyMoves(p, "FROZEN", "CANCELLED", balance.available + Amount[p], balance.frozen - Amount[p])
      BY <3>1, MoneyView DEF Contract!Return, Contract!MoveMoney
    <3>2. CASE ~Frozen(p) /\ MoneyStays
      <4>1. status[p] # "SUCCESS"
        BY <1>6 DEF GivenUp
      <4>2. reservation'[p] \notin {"FROZEN", "CONFIRMED"}
        BY <3>2, <4>1 DEF Frozen, MoneyStays, Decided
      <4>3. QED BY <3>2, <4>2, Views DEF MoneyOf, MoneyStays
    <3>3. QED BY <1>6, <3>1, <3>2 DEF GivenUp
  <2>3. Contract!End(p)
    BY <2>1, <2>2 DEF Contract!End, Contract!MoveStage, Contract!Ended
  <2>4. QED BY <2>3 DEF Contract!Next
<1>7. CASE ResetStore
  <2>1. Contract!Reset
    BY <1>7 DEF ResetStore, Contract!Reset, StageOf, MoneyOf, Opening
  <2>2. QED BY <2>1 DEF Contract!Next
<1>8. QED BY <1>1, <1>2, <1>3, <1>4, <1>5, <1>6, <1>7, StepMoves DEF Moves, Settled

\* The memory mode implements the contract it shares with the distributed
\* mode, for any payments, amounts, keys, faults and callbacks.
THEOREM RefinesContract == Spec => ImplementsContract
<1>1. Init => Fresh /\ Contract!Init
  BY DEF Init, Empty, Fresh, Contract!Init, StageOf, MoneyOf, Opening
<1>2. IInv => Typed
  BY DEF IInv
<1>3. IInv /\ Fresh /\ [Next]_vars => [Contract!Next]_Contract!vars
  BY ContractStep
<1>4. QED
  BY <1>1, <1>2, <1>3, FreshStep, Invariant, PTL DEF Spec, ImplementsContract, Contract!Spec

-----------------------------------------------------------------------------
(* Typing.                                                                 *)

LEMMA EntriesTyped ==
  /\ \A e \in JournalEntry : <<e>> \in Seq(JournalEntry)
  /\ \A e, f \in JournalEntry : <<e, f>> \in Seq(JournalEntry)
  /\ \A e, f, g \in JournalEntry : <<e, f, g>> \in Seq(JournalEntry)
  OBVIOUS

LEMMA KindsTyped ==
  /\ \A s \in Status : <<"STATUS", s>> \in JournalEntry
  /\ \A s \in {"FROZEN", "CONFIRMED", "RELEASED"} : <<"FUNDS", s>> \in JournalEntry
  /\ \A k \in {"ACCEPTED", "OUT_OF_ORDER", "TERMINAL_IGNORED"}, e \in EventId : <<k, e>> \in JournalEntry
  BY DEF JournalEntry

LEMMA ReleasedTyped ==
  ASSUME NEW p, NEW s \in Status
  PROVE  /\ Released(p) \o <<<<"STATUS", s>>>> \in Seq(JournalEntry)
         /\ \A e \in EventId : <<<<"ACCEPTED", e>>>> \o Released(p) \o <<<<"STATUS", s>>>> \in Seq(JournalEntry)
<1> DEFINE told == <<"STATUS", s>>
<1>1. <<told>> \in Seq(JournalEntry)
  BY KindsTyped, EntriesTyped
<1>2. Released(p) \in Seq(JournalEntry)
  BY KindsTyped, EntriesTyped DEF Released
<1>3. ASSUME NEW e \in EventId PROVE <<<<"ACCEPTED", e>>>> \in Seq(JournalEntry)
  BY KindsTyped, EntriesTyped
<1>4. QED BY <1>1, <1>2, <1>3, ConcatProperties

LEMMA WriteTyped ==
  ASSUME StoreTypeOK, NEW p \in Payment, NEW entries \in Seq(JournalEntry), Write(p, entries)
  PROVE  journal' \in [Payment -> Seq(JournalEntry)]
<1>1. journal[p] \o entries \in Seq(JournalEntry)
  BY ConcatProperties DEF StoreTypeOK
<1>2. QED BY <1>1 DEF Write, StoreTypeOK

\* What an operation makes of the account is an account.
LEMMA MovesTyped ==
  ASSUME StoreTypeOK, NEW p \in Payment
  PROVE  /\ [available |-> balance.available + Amount[p], frozen |-> balance.frozen - Amount[p]] \in [available : Int, frozen : Int]
         /\ [available |-> balance.available - Amount[p], frozen |-> balance.frozen + Amount[p]] \in [available : Int, frozen : Int]
         /\ [available |-> balance.available, frozen |-> balance.frozen - Amount[p]] \in [available : Int, frozen : Int]
<1>1. Amount[p] \in Int
  BY StoreAssumption
<1>2. balance.available \in Int /\ balance.frozen \in Int
  BY DEF StoreTypeOK
<1>3. /\ balance.available + Amount[p] \in Int /\ balance.available - Amount[p] \in Int
      /\ balance.frozen + Amount[p] \in Int /\ balance.frozen - Amount[p] \in Int
  BY <1>1, <1>2
<1>4. QED BY <1>2, <1>3

\* What an operation writes to status, reservation and account is of the type
\* of these tables.
LEMMA GiveUpTyped ==
  ASSUME StoreTypeOK, NEW p \in Payment, NEW s \in Status, GiveUp(p, s)
  PROVE  /\ status' \in [Payment -> Status]
         /\ reservation' \in [Payment -> {"NONE", "FROZEN", "CONFIRMED", "CANCELLED"}]
         /\ balance' \in [available : Int, frozen : Int]
         /\ ledger' = ledger
<1>1. status' \in [Payment -> Status] /\ ledger' = ledger
  BY DEF GiveUp, SetStatus, StoreTypeOK
<1>2. CASE Frozen(p)
  <2>1. reservation' = [reservation EXCEPT ![p] = "CANCELLED"]
    BY <1>2 DEF GiveUp, Release
  <2>2. balance' = [available |-> balance.available + Amount[p], frozen |-> balance.frozen - Amount[p]]
    BY <1>2 DEF GiveUp, Release
  <2>3. balance' \in [available : Int, frozen : Int]
    BY <2>2, MovesTyped
  <2>4. reservation' \in [Payment -> {"NONE", "FROZEN", "CONFIRMED", "CANCELLED"}]
    BY <2>1 DEF StoreTypeOK
  <2>5. QED BY <1>1, <2>3, <2>4
<1>3. CASE ~Frozen(p)
  BY <1>1, <1>3 DEF GiveUp, Release, StoreTypeOK
<1>4. QED BY <1>2, <1>3

LEMMA CallbackTyped ==
  ASSUME StoreTypeOK, NEW p \in Payment, NEW cb \in Callback, NEW result, ProcessCallback(p, cb, result)
  PROVE  StoreTypeOK'
<1> USE DEF StoreTypeOK
<1>1. cb.event \in EventId /\ cb.sequence \in Nat /\ Amount[p] \in Int
  BY StoreAssumption DEF Callback
<1>2. CASE Refused
  BY <1>2 DEF Refused, storeVars
<1>3. ASSUME TakeIn(p, cb), Judge(p, cb, result) PROVE StoreTypeOK'
  <2>1. seen' \in [Payment -> SUBSET EventId]
    BY <1>1, <1>3 DEF TakeIn
  <2>2. ASSUME NEW kind \in {"ACCEPTED", "OUT_OF_ORDER", "TERMINAL_IGNORED"}, Ignored(p, cb, kind)
        PROVE  StoreTypeOK'
    <3>1. <<<<kind, cb.event>>>> \in Seq(JournalEntry)
      BY <1>1, KindsTyped, EntriesTyped
    <3>2. journal' \in [Payment -> Seq(JournalEntry)]
      BY <2>2, <3>1, WriteTyped DEF Ignored
    <3>3. QED BY <2>1, <2>2, <3>2 DEF Ignored
  <2>3. CASE UNCHANGED <<status, lastSequence, reservation, balance, ledger, journal>>
    BY <2>1, <2>3
  <2>4. ASSUME Apply(p, cb) PROVE StoreTypeOK'
    <3>1. lastSequence' \in [Payment -> Nat]
      BY <1>1, <2>4 DEF Apply
    <3>2. CASE GiveUp(p, "FAILED") /\ Write(p, <<<<"ACCEPTED", cb.event>>>> \o Released(p) \o <<<<"STATUS", "FAILED">>>>)
      <4>1. "FAILED" \in Status
        BY DEF Status, Final
      <4>2. journal' \in [Payment -> Seq(JournalEntry)]
        BY <1>1, <3>2, <4>1, ReleasedTyped, WriteTyped
      <4>3. QED BY <2>1, <3>1, <3>2, <4>1, <4>2, GiveUpTyped
    <3>3. CASE ~GiveUp(p, "FAILED") \/ cb.outcome = "success"
      <4>1. /\ reservation' = [reservation EXCEPT ![p] = "CONFIRMED"]
            /\ balance' = [available |-> balance.available, frozen |-> balance.frozen - Amount[p]]
            /\ ledger' = Append(ledger, p)
            /\ status' = [status EXCEPT ![p] = "SUCCESS"]
            /\ Write(p, <<<<"ACCEPTED", cb.event>>, <<"FUNDS", "CONFIRMED">>, <<"STATUS", "SUCCESS">>>>)
        BY <2>4, <3>3 DEF Apply, SetStatus
      <4>2. "SUCCESS" \in Status
        BY DEF Status, Final
      <4>3. <<<<"ACCEPTED", cb.event>>, <<"FUNDS", "CONFIRMED">>, <<"STATUS", "SUCCESS">>>> \in Seq(JournalEntry)
        BY <1>1, <4>2, KindsTyped, EntriesTyped
      <4>4. journal' \in [Payment -> Seq(JournalEntry)]
        BY <4>1, <4>3, WriteTyped
      <4>5. ledger' \in Seq(Payment)
        BY <4>1, AppendProperties
      <4>6. balance' \in [available : Int, frozen : Int]
        BY <4>1, MovesTyped
      <4>7. /\ status' \in [Payment -> Status]
            /\ reservation' \in [Payment -> {"NONE", "FROZEN", "CONFIRMED", "CANCELLED"}]
        BY <4>1, <4>2
      <4>8. QED BY <2>1, <3>1, <4>4, <4>5, <4>6, <4>7
    <3>4. QED BY <2>4, <3>2, <3>3 DEF Apply
  <2>5. QED BY <1>3, <2>2, <2>3, <2>4 DEF Judge
<1>4. QED BY <1>2, <1>3 DEF ProcessCallback

\* The operations of Create and of closing.
LEMMA StoreTyped ==
  ASSUME StoreTypeOK, NEW p \in Payment, NEW result,
         \/ CreatePayment(p) \/ StartPayment(p, result) \/ Freeze(p, result)
         \/ FailAndRelease(p, result) \/ ClosePayment(p)
  PROVE  StoreTypeOK'
<1> USE DEF StoreTypeOK
<1>1. Amount[p] \in Int /\ {"INIT", "PROCESSING", "FAILED", "CLOSED"} \subseteq Status
  BY StoreAssumption DEF Status, Final
<1>2. CASE Refused
  BY <1>2 DEF Refused, storeVars
<1>3. ASSUME NEW s \in {"INIT", "PROCESSING"}, SetStatus(p, s), Write(p, <<<<"STATUS", s>>>>),
             UNCHANGED <<lastSequence, seen, reservation, balance, ledger>>
      PROVE  StoreTypeOK'
  <2>1. <<<<"STATUS", s>>>> \in Seq(JournalEntry)
    BY <1>1, KindsTyped, EntriesTyped
  <2>2. QED BY <1>1, <1>3, <2>1, WriteTyped DEF SetStatus
<1>4. ASSUME NEW s \in {"FAILED", "CLOSED"}, GiveUp(p, s), Write(p, Released(p) \o <<<<"STATUS", s>>>>),
             UNCHANGED <<lastSequence, seen>>
      PROVE  StoreTypeOK'
  <2>1. Released(p) \o <<<<"STATUS", s>>>> \in Seq(JournalEntry)
    BY <1>1, ReleasedTyped
  <2>2. QED BY <1>1, <1>4, <2>1, WriteTyped, GiveUpTyped
<1>5. CASE CreatePayment(p)
  BY <1>3, <1>5 DEF CreatePayment
<1>6. CASE StartPayment(p, result)
  BY <1>2, <1>3, <1>6 DEF StartPayment
<1>7. CASE Freeze(p, result) /\ ~Refused
  <2>1. <<<<"FUNDS", "FROZEN">>>> \in Seq(JournalEntry)
    BY KindsTyped, EntriesTyped
  <2>2. /\ balance' = [available |-> balance.available - Amount[p], frozen |-> balance.frozen + Amount[p]]
        /\ reservation' = [reservation EXCEPT ![p] = "FROZEN"]
        /\ Write(p, <<<<"FUNDS", "FROZEN">>>>)
        /\ UNCHANGED <<status, lastSequence, seen, ledger>>
    BY <1>7 DEF Freeze
  <2>3. journal' \in [Payment -> Seq(JournalEntry)]
    BY <2>1, <2>2, WriteTyped
  <2>4. balance' \in [available : Int, frozen : Int]
    BY <2>2, MovesTyped
  <2>5. QED BY <2>2, <2>3, <2>4
<1>8. CASE FailAndRelease(p, result)
  BY <1>2, <1>4, <1>8 DEF FailAndRelease
<1>9. CASE ClosePayment(p)
  BY <1>4, <1>9 DEF ClosePayment
<1>10. QED BY <1>2, <1>5, <1>6, <1>7, <1>8, <1>9

\* The tables, the key locks and the requests keep their types.
THEOREM MemoryTyped == Spec => []TypeOK
<1>1. Init => TypeOK
  BY StoreAssumption DEF Init, Empty, Opening, Lock!Init, TypeOK, StoreTypeOK, Status, Answer
<1>2. TypeOK /\ [Next]_vars => TypeOK'
  <2> SUFFICES ASSUME TypeOK, [Next]_vars PROVE TypeOK'
    OBVIOUS
  <2> USE DEF TypeOK
  <2>1. ASSUME UNCHANGED storeVars PROVE StoreTypeOK'
    BY <2>1 DEF storeVars, StoreTypeOK
  <2>2. ASSUME NEW p \in Payment, AskKey(p) \/ EnterKey(p) \/ ReleaseKey(p) PROVE TypeOK'
    BY <2>1, <2>2
    DEF AskKey, EnterKey, ReleaseKey, Lock!Ask, Lock!Enter, Lock!Leave, Lock!Move
  <2>3. ASSUME NEW p \in Payment, Insert(p) PROVE TypeOK'
    <3>1. StoreTypeOK'
      BY <2>1, <2>3, StoreTyped DEF Insert, Refused
    <3>2. \A q \in Payment : (IF Fingerprint[q] = Fingerprint[p] THEN status[q] ELSE "conflict") \in Answer
      BY DEF Answer, StoreTypeOK
    <3>3. /\ key' = key
          /\ \/ Goto(p, "start")
             \/ \E a \in Answer : Return(p, a)
      BY <2>3, <3>2 DEF Insert, At
    <3>4. QED BY <3>1, <3>3 DEF Goto, Return
  <2>4. ASSUME NEW p \in Payment, Start(p) \/ TryFreeze(p) \/ Fail(p) PROVE TypeOK'
    <3>1. StoreTypeOK'
      BY <2>1, <2>4, StoreTyped DEF Start, TryFreeze, Fail
    <3>2. QED
      BY <2>4, <3>1 DEF Start, TryFreeze, AfterFreeze, Fail, At, Goto, Return, Answer, Status, Final
  <2>5. ASSUME NEW p \in Payment, Confirm(p) PROVE TypeOK'
    <3>1. OwnCallback(p) \in Callback
      BY WorkflowAssumption DEF OwnCallback, Callback
    <3>2. StoreTypeOK'
      BY <2>5, <3>1, CallbackTyped DEF Confirm
    <3>3. status'[p] \in Answer /\ "error" \in Answer
      BY <3>2 DEF Answer, StoreTypeOK
    <3>4. key' = key /\ \E a \in Answer : Return(p, a)
      BY <2>5, <3>3 DEF Confirm, At
    <3>5. QED BY <3>2, <3>4 DEF Return
  <2>6. ASSUME NEW p \in Payment, ChannelCallback(p) PROVE TypeOK'
    BY <2>6, CallbackTyped, WorkflowAssumption DEF ChannelCallback, OnlyStore
  <2>7. ASSUME NEW p \in Payment, Close(p) PROVE TypeOK'
    BY <2>7, StoreTyped DEF Close, OnlyStore
  <2>8. CASE Reset
    BY <2>8, StoreAssumption DEF Reset, ResetStore, OnlyStore, StoreTypeOK, Opening, Status
  <2>9. CASE UNCHANGED vars
    BY <2>1, <2>9 DEF vars
  <2>10. QED
    BY <2>2, <2>3, <2>4, <2>5, <2>6, <2>7, <2>8, <2>9 DEF Next, Create
<1>3. QED BY <1>1, <1>2, PTL DEF Spec

-----------------------------------------------------------------------------
(* Answers.                                                                *)

\* A payment without frozen funds that is not finished is in the hands of its
\* own workflow, which holds the key.
Guarded(p) ==
  /\ status[p] = "INIT" => key[p] = "holding" /\ pc[p] = "start"
  /\ status[p] = "PROCESSING" =>
       \/ Frozen(p)
       \/ reservation[p] = "NONE" /\ key[p] = "holding" /\ pc[p] \in {"freeze", "fail"}

OneHolder ==
  \A p, q \in Payment : key[p] = "holding" /\ key[q] = "holding" /\ Key[p] = Key[q] => p = q

AnswerInv ==
  /\ OneHolder
  /\ \A p \in Payment : Guarded(p) /\ answer[p] # "INIT"

\* What NoTransientAnswer asks of a step, for one request.
Truthful(p) ==
  /\ answer'[p] # "INIT"
  /\ answer'[p] = "PROCESSING" /\ answer[p] = "none" =>
       \E q \in Payment : Key[q] = Key[p] /\ status'[q] = "PROCESSING" /\ reservation'[q] = "FROZEN"

\* A step that concerns one payment and leaves the key locks alone.
Concerns(p) ==
  /\ key' = key
  /\ \A q \in Payment \ {p} :
       /\ status'[q] = status[q] /\ reservation'[q] = reservation[q]
       /\ pc'[q] = pc[q] /\ answer'[q] = answer[q]

LEMMA OneConcerned ==
  ASSUME AnswerInv, NEW p \in Payment, Concerns(p), Guarded(p)', Truthful(p)
  PROVE  AnswerInv' /\ \A q \in Payment : Truthful(q)
<1>1. \A q \in Payment \ {p} : Guarded(q)' /\ answer'[q] # "INIT" /\ Truthful(q)
  BY DEF AnswerInv, Concerns, Guarded, Frozen, Truthful
<1>2. OneHolder'
  BY DEF AnswerInv, Concerns, OneHolder
<1>3. answer'[p] # "INIT" /\ Truthful(p)
  BY DEF Truthful
<1>4. QED BY <1>1, <1>2, <1>3 DEF AnswerInv

\* A payment being settled, by whomever, needs nobody's guard any more.
LEMMA SettledGuarded ==
  ASSUME TypeOK, NEW p \in Payment, Settled(p)
  PROVE  /\ Guarded(p)'
         /\ \A q \in Payment \ {p} : status'[q] = status[q] /\ reservation'[q] = reservation[q]
<1>1. status'[p] \in Final
  BY DEF TypeOK, StoreTypeOK, Settled, Paid, GivenUp, StatusMoves, Final
<1>2. QED
  BY <1>1 DEF TypeOK, StoreTypeOK, Settled, Paid, GivenUp, StatusMoves, MoneyMoves, MoneyStays, Guarded, Final

\* Callbacks and closings, in the middle of any workflow.
LEMMA OthersAnswer ==
  ASSUME TypeOK, AnswerInv, NEW p \in Payment, ChannelCallback(p) \/ Close(p)
  PROVE  AnswerInv' /\ \A q \in Payment : Truthful(q)
<1>1. NothingMoves \/ Settled(p)
  <2>1. CASE ChannelCallback(p)
    BY <2>1, CallbackMoves DEF ChannelCallback
  <2>2. CASE Close(p)
    <3>1. GivenUp(p, "CLOSED")
      BY <2>2
      DEF Close, ClosePayment, GiveUp, Release, SetStatus, GivenUp, Frozen, StatusMoves, MoneyMoves, MoneyStays
    <3>2. QED BY <3>1 DEF Settled
  <2>3. QED BY <2>1, <2>2
<1>2. UNCHANGED <<key, pc, answer>>
  BY DEF ChannelCallback, Close, OnlyStore
<1>3. Guarded(p)'
  <2>1. CASE NothingMoves
    BY <1>2, <2>1 DEF AnswerInv, NothingMoves, Guarded, Frozen
  <2>2. QED BY <1>1, <2>1, SettledGuarded
<1>4. Concerns(p)
  BY <1>1, <1>2, SettledGuarded DEF NothingMoves, Concerns
<1>5. Truthful(p)
  BY <1>2 DEF AnswerInv, Truthful
<1>6. QED BY <1>3, <1>4, <1>5, OneConcerned

LEMMA LockAnswer ==
  ASSUME TypeOK, AnswerInv, NEW p \in Payment, AskKey(p) \/ EnterKey(p) \/ ReleaseKey(p)
  PROVE  AnswerInv' /\ \A q \in Payment : Truthful(q)
<1> USE DEF AskKey, EnterKey, ReleaseKey, Lock!Ask, Lock!Enter, Lock!Leave, Lock!Move, Lock!Free
<1>1. UNCHANGED <<status, reservation, answer>>
  BY DEF storeVars
<1>2. OneHolder'
  BY DEF TypeOK, AnswerInv, OneHolder
<1>3. ASSUME NEW q \in Payment PROVE Guarded(q)'
  <2>1. Guarded(q)
    BY DEF AnswerInv
  <2>2. CASE q # p
    <3>1. key'[q] = key[q] /\ pc'[q] = pc[q]
      BY <2>2 DEF TypeOK
    <3>2. QED BY <1>1, <2>1, <3>1 DEF Guarded, Frozen
  <2>3. CASE q = p
    <3>1. ~(key[p] = "holding" /\ pc[p] \in {"start", "freeze", "fail"})
      OBVIOUS
    <3>2. QED BY <1>1, <2>1, <2>3, <3>1 DEF Guarded, Frozen
  <2>4. QED BY <2>2, <2>3
<1>4. \A q \in Payment : answer'[q] # "INIT" /\ Truthful(q)
  BY <1>1 DEF AnswerInv, Truthful
<1>5. QED BY <1>2, <1>3, <1>4 DEF AnswerInv

\* The steps of the workflow that holds the key.
LEMMA WorkflowAnswer ==
  ASSUME TypeOK, TypeOK', Fresh, AnswerInv, NEW p \in Payment,
         Insert(p) \/ Start(p) \/ TryFreeze(p) \/ Fail(p) \/ Confirm(p)
  PROVE  AnswerInv' /\ \A q \in Payment : Truthful(q)
<1>1. key' = key /\ key[p] = "holding"
  BY DEF Insert, Start, TryFreeze, Fail, Confirm, At
<1>2. Guarded(p) /\ answer[p] # "INIT"
  BY DEF AnswerInv
<1>3. \A q \in Payment \ {p} : pc'[q] = pc[q] /\ answer'[q] = answer[q]
  BY DEF TypeOK, Insert, Start, TryFreeze, AfterFreeze, Fail, Confirm, Goto, Return
<1>4. pc'[p] = "release" \/ answer'[p] = answer[p]
  BY DEF TypeOK, Insert, Start, TryFreeze, AfterFreeze, Fail, Confirm, Goto, Return
<1> DEFINE Same == UNCHANGED <<status, reservation>>
<1>5. Refused => Same
  BY DEF Refused, storeVars
<1>6. ASSUME \A q \in Payment \ {p} : status'[q] = status[q] /\ reservation'[q] = reservation[q],
             Guarded(p)', Truthful(p)
      PROVE  AnswerInv' /\ \A q \in Payment : Truthful(q)
  BY <1>1, <1>3, <1>6, OneConcerned DEF Concerns
\* An answer that is the payment's own status is covered by its guard.
<1>7. ASSUME Guarded(p)', answer'[p] \in {answer[p], status'[p], "FAILED", "error"} PROVE Truthful(p)
  <2>1. CASE answer'[p] = answer[p]
    BY <1>2, <2>1 DEF Truthful
  <2>2. CASE answer'[p] \in {"FAILED", "error"}
    BY <2>2 DEF Truthful
  <2>3. CASE pc'[p] = "release" /\ answer'[p] = status'[p]
    BY <1>7, <2>3 DEF Truthful, Guarded, Frozen
  <2>4. QED BY <1>4, <1>7, <2>1, <2>2, <2>3
<1>8. CASE Insert(p)
  <2>1. pc[p] = "insert"
    BY <1>8 DEF Insert, At
  <2>2. CASE CreatePayment(p) /\ Goto(p, "start")
    <3>1. status' = [status EXCEPT ![p] = "INIT"] /\ reservation' = reservation
      BY <2>2 DEF CreatePayment, SetStatus
    <3>2. Guarded(p)'
      BY <1>1, <2>2, <3>1 DEF TypeOK, StoreTypeOK, Goto, Guarded
    <3>3. Truthful(p)
      BY <1>7, <2>2, <3>2 DEF Goto
    <3>4. QED BY <1>6, <3>1, <3>2, <3>3 DEF TypeOK, StoreTypeOK
  <2>3. ASSUME NEW q \in Payment, Original(p, q), Refused,
               Return(p, IF Fingerprint[q] = Fingerprint[p] THEN status[q] ELSE "conflict")
        PROVE  AnswerInv' /\ \A r \in Payment : Truthful(r)
    <3>1. Same
      BY <1>5, <2>3
    <3>2. Guarded(q) /\ Key[q] = Key[p]
      BY <2>3 DEF AnswerInv, Original
    <3>3. ~(key[q] = "holding" /\ pc[q] \in {"start", "freeze", "fail"})
      BY <1>1, <2>1, <3>2 DEF AnswerInv, OneHolder
    <3>4. status[q] # "INIT" /\ (status[q] = "PROCESSING" => Frozen(q))
      BY <3>2, <3>3 DEF Guarded
    <3>5. answer'[p] \in {status[q], "conflict"}
      BY <2>3 DEF Return, TypeOK
    <3>6. Truthful(p)
      BY <3>1, <3>2, <3>4, <3>5 DEF Truthful, Frozen
    <3>7. Guarded(p)'
      BY <1>1, <1>2, <2>1, <3>1 DEF Guarded, Frozen
    <3>8. QED BY <1>6, <3>1, <3>6, <3>7
  <2>4. QED BY <1>8, <2>2, <2>3 DEF Insert
<1>9. CASE Start(p)
  <2>1. pc[p] = "start"
    BY <1>9 DEF Start, At
  <2>2. CASE StartPayment(p, "ok") /\ Goto(p, IF Fault[p] = "before_freeze" THEN "fail" ELSE "freeze")
    <3>1. status[p] = "INIT" /\ status' = [status EXCEPT ![p] = "PROCESSING"] /\ reservation' = reservation
      BY <2>2 DEF StartPayment, SetStatus
    <3>2. reservation'[p] = "NONE" /\ pc'[p] \in {"freeze", "fail"} /\ answer'[p] = answer[p]
      BY <2>2, <3>1 DEF Fresh, Goto, TypeOK
    <3>3. Guarded(p)'
      BY <1>1, <3>1, <3>2 DEF TypeOK, StoreTypeOK, Guarded
    <3>4. QED BY <1>6, <1>7, <3>1, <3>2, <3>3 DEF TypeOK, StoreTypeOK
  <2>3. CASE StartPayment(p, "error") /\ Return(p, "error")
    <3>1. status[p] # "INIT" /\ Same
      BY <1>5, <2>3 DEF StartPayment
    <3>2. Guarded(p)'
      BY <1>2, <2>1, <3>1 DEF Guarded, Frozen
    <3>3. answer'[p] = "error"
      BY <2>3 DEF Return, TypeOK
    <3>4. QED BY <1>6, <1>7, <3>1, <3>2, <3>3
  <2>4. QED BY <1>9, <2>2, <2>3 DEF Start
<1>10. CASE TryFreeze(p)
  <2>1. pc[p] = "freeze"
    BY <1>10 DEF TryFreeze, At
  <2>2. CASE Freeze(p, "ok") /\ AfterFreeze(p)
    <3>1. /\ status[p] = "PROCESSING" /\ status' = status /\ reservation'[p] = "FROZEN"
          /\ \A q \in Payment \ {p} : reservation'[q] = reservation[q]
      BY <1>2, <1>5, <2>2 DEF Freeze, Guarded, Frozen, TypeOK, StoreTypeOK
    <3>2. Guarded(p)'
      BY <3>1 DEF Guarded, Frozen
    <3>3. answer'[p] \in {answer[p], status'[p]}
      BY <2>2, <3>1 DEF AfterFreeze, Goto, Return, TypeOK
    <3>4. QED BY <1>6, <1>7, <3>1, <3>2, <3>3
  <2>3. CASE Freeze(p, "failed") /\ Goto(p, "fail")
    <3>1. Same
      BY <1>5, <2>3 DEF Freeze
    <3>2. pc'[p] = "fail" /\ answer'[p] = answer[p]
      BY <2>3 DEF Goto, TypeOK
    <3>3. Guarded(p)'
      BY <1>1, <1>2, <2>1, <3>1, <3>2 DEF Guarded, Frozen
    <3>4. QED BY <1>6, <1>7, <3>1, <3>2, <3>3
  <2>4. CASE Freeze(p, "error") /\ Return(p, "error")
    <3>1. Same /\ (status[p] # "PROCESSING" \/ reservation[p] = "CANCELLED")
      BY <1>5, <2>4 DEF Freeze
    <3>2. Guarded(p)'
      BY <1>2, <2>1, <3>1 DEF Guarded, Frozen
    <3>3. answer'[p] = "error"
      BY <2>4 DEF Return, TypeOK
    <3>4. QED BY <1>6, <1>7, <3>1, <3>2, <3>3
  <2>5. QED BY <1>10, <2>2, <2>3, <2>4 DEF TryFreeze
<1>11. CASE Fail(p)
  <2>1. pc[p] = "fail"
    BY <1>11 DEF Fail, At
  <2>2. CASE FailAndRelease(p, "ok") /\ Return(p, "FAILED")
    <3>1. /\ status' = [status EXCEPT ![p] = "FAILED"]
          /\ \A q \in Payment \ {p} : reservation'[q] = reservation[q]
      BY <2>2 DEF FailAndRelease, GiveUp, Release, SetStatus, TypeOK, StoreTypeOK
    <3>2. Guarded(p)'
      BY <3>1 DEF Guarded, TypeOK, StoreTypeOK
    <3>3. answer'[p] = "FAILED"
      BY <2>2 DEF Return, TypeOK
    <3>4. QED BY <1>6, <1>7, <3>1, <3>2, <3>3 DEF TypeOK, StoreTypeOK
  <2>3. CASE FailAndRelease(p, "error") /\ Return(p, "error")
    <3>1. Same /\ status[p] \notin {"INIT", "PROCESSING"}
      BY <1>5, <2>3 DEF FailAndRelease, Exists, Final
    <3>2. Guarded(p)'
      BY <3>1 DEF Guarded
    <3>3. answer'[p] = "error"
      BY <2>3 DEF Return, TypeOK
    <3>4. QED BY <1>6, <1>7, <3>1, <3>2, <3>3
  <2>4. QED BY <1>11, <2>2, <2>3 DEF Fail
<1>12. CASE Confirm(p)
  <2>1. pc[p] = "confirm"
    BY <1>12 DEF Confirm, At
  <2>2. NothingMoves \/ Settled(p)
    BY <1>12, CallbackMoves DEF Confirm
  <2>3. Guarded(p)'
    <3>1. CASE NothingMoves
      BY <1>2, <2>1, <3>1 DEF NothingMoves, Guarded, Frozen
    <3>2. QED BY <2>2, <3>1, SettledGuarded
  <2>4. \A q \in Payment \ {p} : status'[q] = status[q] /\ reservation'[q] = reservation[q]
    BY <2>2, SettledGuarded DEF NothingMoves
  <2>5. answer'[p] \in {status'[p], "error"}
    BY <1>12 DEF Confirm, Return, TypeOK
  <2>6. QED BY <1>6, <1>7, <2>3, <2>4, <2>5
<1>13. QED BY <1>8, <1>9, <1>10, <1>11, <1>12

LEMMA AnswerStep ==
  ASSUME TypeOK, TypeOK', Fresh, AnswerInv, [Next]_vars
  PROVE  AnswerInv' /\ [\A p \in Payment : Truthful(p)]_vars
<1>1. ASSUME NEW p \in Payment, ReleaseKey(p) \/ AskKey(p) \/ EnterKey(p)
      PROVE  AnswerInv' /\ \A q \in Payment : Truthful(q)
  BY <1>1, LockAnswer
<1>2. ASSUME NEW p \in Payment, Create(p) PROVE AnswerInv' /\ \A q \in Payment : Truthful(q)
  BY <1>1, <1>2, WorkflowAnswer DEF Create
<1>3. CASE Reset
  <2>1. UNCHANGED <<key, pc, answer>> /\ \A p \in Payment : status'[p] = "NONE"
    BY <1>3 DEF Reset, ResetStore, OnlyStore
  <2>2. QED BY <2>1 DEF AnswerInv, OneHolder, Guarded, Truthful
<1>4. CASE UNCHANGED vars
  BY <1>4 DEF vars, storeVars, AnswerInv, OneHolder, Guarded, Frozen
<1>5. QED BY <1>1, <1>2, <1>3, <1>4, OthersAnswer DEF Next

LEMMA Answered == Spec => [](TypeOK /\ Fresh /\ AnswerInv)
<1>1. Init => Fresh /\ AnswerInv
  BY DEF Init, Empty, Lock!Init, Fresh, AnswerInv, OneHolder, Guarded
<1>2. IInv => Typed
  BY DEF IInv
<1>3. QED
  BY <1>1, <1>2, Invariant, MemoryTyped, FreshStep, AnswerStep, PTL DEF Spec

\* No request is told of a state between two store calls, by its own workflow
\* or by the one it repeats, in spite of callbacks, closings and resets.
THEOREM AnswersSettled == Spec => NoTransientAnswer
<1>1. [\A p \in Payment : Truthful(p)]_vars =>
        [\A p \in Payment :
           /\ answer'[p] # "INIT"
           /\ answer'[p] = "PROCESSING" /\ answer[p] = "none" =>
                \E q \in Payment : Key[q] = Key[p] /\ status'[q] = "PROCESSING" /\ reservation'[q] = "FROZEN"]_vars
  BY DEF Truthful
<1>2. QED
  BY <1>1, Answered, AnswerStep, PTL DEF Spec, NoTransientAnswer

\* Answered requests leave their payment finished, gone, or frozen and open to
\* a callback.
THEOREM NothingHalfDone == Spec => []NoneHalfway
<1>1. TypeOK /\ AnswerInv => NoneHalfway
  <2> SUFFICES ASSUME TypeOK, AnswerInv, NEW p \in Payment, pc[p] \in {"release", "done"},
                      status[p] \notin Final \cup {"NONE"}
               PROVE  status[p] = "PROCESSING" /\ Frozen(p)
    BY DEF NoneHalfway
  <2>1. Guarded(p)
    BY DEF AnswerInv
  <2>2. status[p] # "INIT" /\ (status[p] = "PROCESSING" => Frozen(p))
    BY <2>1 DEF Guarded
  <2>3. QED BY <2>2 DEF TypeOK, StoreTypeOK, Status
<1>2. QED BY <1>1, Answered, PTL

=============================================================================
