--------------------------- MODULE TccParticipants ---------------------------
(***************************************************************************)
(* The account and ledger participants of the distributed mode             *)
(* (internal/participant), each branch operation run inside a DTM          *)
(* BranchBarrier transaction over the shared MySQL database.               *)
(*                                                                         *)
(* One account exists ("demo-user"); a request naming an unknown account   *)
(* is refused with the same ErrFailure as one it cannot afford, so it is   *)
(* represented by an Amount above InitialBalance.                          *)
(***************************************************************************)
EXTENDS Integers

CONSTANTS
  Payment,        \* payment ids; a payment has one gid, so an id also names its gid
  Amount,         \* amount_cents of each payment
  InitialBalance  \* the balance every reset restores (1000000 in the code)

ASSUME AmountAssumption ==
  /\ Amount \in [Payment -> Nat \ {0}]
  /\ InitialBalance \in Nat

VARIABLES
  balance,      \* the accounts row of demo-user
  reservation,  \* account_reservations.status of each payment, or "NONE"
  ledger,       \* ledger_entries.status of each payment, or "NONE"
  barrier       \* barrier rows: the ops recorded for each payment and branch

participantVars == <<balance, reservation, ledger, barrier>>

Branch == {"account", "ledger"}
Op     == {"try", "confirm", "cancel"}
ReservationStatus == {"NONE", "FROZEN", "CONFIRMED", "CANCELLED"}
LedgerStatus      == {"NONE", "PREPARED", "POSTED", "CANCELLED"}

OpeningBalance == [available |-> InitialBalance, frozen |-> 0]
NoBarrierRows  == [b \in Branch |-> {}]

ParticipantsTypeOK ==
  /\ balance     \in [available : Int, frozen : Int]
  /\ reservation \in [Payment -> ReservationStatus]
  /\ ledger      \in [Payment -> LedgerStatus]
  /\ barrier     \in [Payment -> [Branch -> SUBSET Op]]

ParticipantsInit ==
  /\ balance     = OpeningBalance
  /\ reservation = [p \in Payment |-> "NONE"]
  /\ ledger      = [p \in Payment |-> "NONE"]
  /\ barrier     = [p \in Payment |-> NoBarrierRows]

-----------------------------------------------------------------------------
(* BranchBarrier.CallWithDB.  Every operation first inserts its own row; a *)
(* cancel also inserts the row of the try it compensates.  Business code   *)
(* runs only if the operation is new and, for a cancel, the try ran.       *)

ReachesBusiness(p, b, op) ==
  /\ op \notin barrier[p][b]
  /\ op = "cancel" => "try" \in barrier[p][b]

\* Mutant: a cancel does not record the try it makes void.
InsertOwnRow(p, b, op) == barrier' = [barrier EXCEPT ![p][b] = @ \cup {op}]

InsertRows(p, b, op) ==
  barrier' = [barrier EXCEPT ![p][b] = @ \cup (IF op = "cancel" THEN {"try", op} ELSE {op})]

\* A repeated operation, a try that arrives after its cancel, and a cancel
\* whose try never ran: answered with success, business code skipped.
BarrierSkips(p, b, op) ==
  /\ ~ReachesBusiness(p, b, op)
  /\ InsertRows(p, b, op)
  /\ UNCHANGED <<balance, reservation, ledger>>

\* The business returns an error: the whole barrier transaction rolls back.
RollBack == UNCHANGED participantVars

-----------------------------------------------------------------------------
(* Account branch.                                                          *)

\* Mutant: frozen funds are counted as if they could be reserved again.
AffordableByTotal(p) == balance.available + balance.frozen >= Amount[p]

Affordable(p) == balance.available >= Amount[p]

\* hasPayment: the payments row exists, as the foreign key of the inserted
\* row requires.
AccountTry(p, hasPayment, answer) ==
  \/ /\ BarrierSkips(p, "account", "try")
     /\ answer = "ok"
  \/ /\ ReachesBusiness(p, "account", "try")
     /\ ~Affordable(p)
     /\ RollBack
     /\ answer = "failure"
  \/ /\ ReachesBusiness(p, "account", "try")
     /\ Affordable(p)
     /\ ~hasPayment \/ reservation[p] # "NONE"
     /\ RollBack
     /\ answer = "error"
  \/ /\ ReachesBusiness(p, "account", "try")
     /\ Affordable(p)
     /\ hasPayment /\ reservation[p] = "NONE"
     /\ InsertRows(p, "account", "try")
     /\ reservation' = [reservation EXCEPT ![p] = "FROZEN"]
     /\ balance' = [available |-> balance.available - Amount[p],
                    frozen    |-> balance.frozen + Amount[p]]
     /\ UNCHANGED ledger
     /\ answer = "ok"

\* Mutant: the guard refuses the last reservation.
FrozenCoversStrictly(p) == balance.frozen > Amount[p]

\* "account frozen balance invariant violated" when the frozen column cannot
\* cover the reservation: the transaction rolls back and DTM retries for ever.
FrozenCovers(p) == balance.frozen >= Amount[p]

AccountConfirm(p) ==
  \/ BarrierSkips(p, "account", "confirm")
  \/ /\ ReachesBusiness(p, "account", "confirm")
     /\ reservation[p] # "FROZEN"
     /\ InsertRows(p, "account", "confirm")
     /\ UNCHANGED <<balance, reservation, ledger>>
  \/ /\ ReachesBusiness(p, "account", "confirm")
     /\ reservation[p] = "FROZEN"
     /\ FrozenCovers(p)
     /\ InsertRows(p, "account", "confirm")
     /\ reservation' = [reservation EXCEPT ![p] = "CONFIRMED"]
     /\ balance' = [balance EXCEPT !.frozen = @ - Amount[p]]
     /\ UNCHANGED ledger

AccountCancel(p) ==
  \/ BarrierSkips(p, "account", "cancel")
  \/ /\ ReachesBusiness(p, "account", "cancel")
     /\ reservation[p] # "FROZEN"
     /\ InsertRows(p, "account", "cancel")
     /\ UNCHANGED <<balance, reservation, ledger>>
  \/ /\ ReachesBusiness(p, "account", "cancel")
     /\ reservation[p] = "FROZEN"
     /\ FrozenCovers(p)
     /\ InsertRows(p, "account", "cancel")
     /\ reservation' = [reservation EXCEPT ![p] = "CANCELLED"]
     /\ balance' = [available |-> balance.available + Amount[p],
                    frozen    |-> balance.frozen - Amount[p]]
     /\ UNCHANGED ledger

-----------------------------------------------------------------------------
(* Ledger branch.                                                           *)

LedgerTry(p, failTry, hasPayment, answer) ==
  \/ /\ BarrierSkips(p, "ledger", "try")
     /\ answer = "ok"
  \/ /\ ReachesBusiness(p, "ledger", "try")
     /\ failTry
     /\ RollBack
     /\ answer = "failure"
  \/ /\ ReachesBusiness(p, "ledger", "try")
     /\ ~failTry
     /\ ~hasPayment \/ ledger[p] # "NONE"
     /\ RollBack
     /\ answer = "error"
  \/ /\ ReachesBusiness(p, "ledger", "try")
     /\ ~failTry
     /\ hasPayment /\ ledger[p] = "NONE"
     /\ InsertRows(p, "ledger", "try")
     /\ ledger' = [ledger EXCEPT ![p] = "PREPARED"]
     /\ UNCHANGED <<balance, reservation>>
     /\ answer = "ok"

\* UPDATE ... WHERE status='PREPARED': an intent in any other status stays.
Advance(p, op, status) ==
  \/ BarrierSkips(p, "ledger", op)
  \/ /\ ReachesBusiness(p, "ledger", op)
     /\ InsertRows(p, "ledger", op)
     /\ ledger' = [ledger EXCEPT ![p] = IF @ = "PREPARED" THEN status ELSE @]
     /\ UNCHANGED <<balance, reservation>>

\* Mutant: the account's final status is written to the ledger.
LedgerConfirmMixedUp(p) == Advance(p, "confirm", "CONFIRMED")

LedgerConfirm(p) == Advance(p, "confirm", "POSTED")
LedgerCancel(p)  == Advance(p, "cancel", "CANCELLED")

=============================================================================
