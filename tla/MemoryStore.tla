------------------------------ MODULE MemoryStore ------------------------------
(***************************************************************************)
(* internal/store/memory.go: the repository of the memory mode.  One mutex *)
(* makes each operation a single step; an operation that returns an error  *)
(* keeps the writes it made before the error, nothing rolls back.          *)
(*                                                                         *)
(* A payment belongs to the Create request that generated its id, so Key   *)
(* and Fingerprint are functions of the payment.  The payments and the     *)
(* idempotency map are filled and emptied together: the record of a key is *)
(* the payment that carries it.                                            *)
(*                                                                         *)
(* One account exists; a payment on an unknown account fails as one that   *)
(* cannot be afforded does, and is represented by an Amount above          *)
(* InitialBalance.                                                         *)
(*                                                                         *)
(* Left out of the journal: FAULT_INJECTED and CALLBACK_DUPLICATE, which   *)
(* may repeat for ever and change nothing else.                            *)
(***************************************************************************)
EXTENDS Integers, Sequences, FiniteSets, Functions

CONSTANTS
  Payment,         \* payment ids
  Amount,          \* amount_cents of each payment
  InitialBalance,  \* demoBalanceCents
  Key,             \* idempotency key of each payment
  Fingerprint,     \* request fingerprint of each payment
  EventId          \* ids of callback events

ASSUME StoreAssumption ==
  /\ Amount \in [Payment -> Nat \ {0}]
  /\ InitialBalance \in Nat
  /\ DOMAIN Key = Payment /\ DOMAIN Fingerprint = Payment

VARIABLES
  status,        \* payments[p].Status, or "NONE"
  lastSequence,  \* payments[p].LastCallbackSequence
  seen,          \* callbacksSeen: event ids taken in for each payment
  reservation,   \* reservations[p].State, or "NONE"
  balance,       \* the account
  ledger,        \* the payment of each ledger entry, in order
  journal        \* events[p], as pairs of a kind and what it is about

storeVars == <<status, lastSequence, seen, reservation, balance, ledger, journal>>

Final    == {"SUCCESS", "FAILED", "CLOSED"}
Status   == {"NONE", "INIT", "PROCESSING"} \cup Final
Callback == [event : EventId, sequence : Nat \ {0}, outcome : {"success", "failed"}]
JournalEntry == {"STATUS"} \X Status
         \cup {"FUNDS"} \X {"FROZEN", "CONFIRMED", "RELEASED"}
         \cup {"ACCEPTED", "OUT_OF_ORDER", "TERMINAL_IGNORED"} \X EventId

Opening == [available |-> InitialBalance, frozen |-> 0]

StoreTypeOK ==
  /\ status       \in [Payment -> Status]
  /\ lastSequence \in [Payment -> Nat]
  /\ seen         \in [Payment -> SUBSET EventId]
  /\ reservation  \in [Payment -> {"NONE", "FROZEN", "CONFIRMED", "CANCELLED"}]
  /\ balance      \in [available : Int, frozen : Int]
  /\ ledger       \in Seq(Payment)
  /\ journal      \in [Payment -> Seq(JournalEntry)]

Empty ==
  /\ status       = [p \in Payment |-> "NONE"]
  /\ lastSequence = [p \in Payment |-> 0]
  /\ seen         = [p \in Payment |-> {}]
  /\ reservation  = [p \in Payment |-> "NONE"]
  /\ balance      = Opening
  /\ ledger       = <<>>
  /\ journal      = [p \in Payment |-> <<>>]

-----------------------------------------------------------------------------
(* Building blocks.                                                        *)

Exists(p) == status[p] # "NONE"

Original(p, q) == Exists(q) /\ Key[q] = Key[p]

Write(p, entries) == journal' = [journal EXCEPT ![p] = @ \o entries]

SetStatus(p, s) == status' = [status EXCEPT ![p] = s]

\* releaseLocked: only frozen funds are returned.
Frozen(p) == reservation[p] = "FROZEN"
Released(p) == IF Frozen(p) THEN <<<<"FUNDS", "RELEASED">>>> ELSE <<>>
\* Mutant: the frozen column is not reduced.
ReleaseTwice(p) ==
  IF Frozen(p)
    THEN /\ reservation' = [reservation EXCEPT ![p] = "CANCELLED"]
         /\ balance' = [balance EXCEPT !.available = @ + Amount[p]]
    ELSE UNCHANGED <<reservation, balance>>

Release(p) ==
  IF Frozen(p)
    THEN /\ reservation' = [reservation EXCEPT ![p] = "CANCELLED"]
         /\ balance' = [available |-> balance.available + Amount[p],
                        frozen    |-> balance.frozen - Amount[p]]
    ELSE UNCHANGED <<reservation, balance>>

\* Mutant: the funds of a payment that ends stay frozen.
GiveUpKeepingFunds(p, s) ==
  /\ SetStatus(p, s)
  /\ UNCHANGED <<reservation, balance, ledger>>

\* The end of a payment that is not charged.
GiveUp(p, s) ==
  /\ Release(p)
  /\ SetStatus(p, s)
  /\ UNCHANGED ledger

\* An operation that is refused changes nothing.
Refused == UNCHANGED storeVars

-----------------------------------------------------------------------------
(* The operations.  `result` is what the caller is told.                   *)

CreatePayment(p) ==
  /\ ~\E q \in Payment : Original(p, q)
  /\ SetStatus(p, "INIT")
  /\ Write(p, <<<<"STATUS", "INIT">>>>)
  /\ UNCHANGED <<lastSequence, seen, reservation, balance, ledger>>

StartPayment(p, result) ==
  \/ /\ status[p] = "INIT"
     /\ SetStatus(p, "PROCESSING")
     /\ Write(p, <<<<"STATUS", "PROCESSING">>>>)
     /\ UNCHANGED <<lastSequence, seen, reservation, balance, ledger>>
     /\ result = "ok"
  \/ /\ status[p] # "INIT"
     /\ Refused
     /\ result = "error"

Affordable(p) == balance.available >= Amount[p]

\* ErrNotFound, for the payment or the account, and ErrInsufficientFunds send
\* the caller to FailAndRelease.
Freeze(p, result) ==
  \/ /\ status[p] = "PROCESSING" /\ reservation[p] = "NONE"
     /\ Affordable(p)
     /\ balance' = [available |-> balance.available - Amount[p],
                    frozen    |-> balance.frozen + Amount[p]]
     /\ reservation' = [reservation EXCEPT ![p] = "FROZEN"]
     /\ Write(p, <<<<"FUNDS", "FROZEN">>>>)
     /\ UNCHANGED <<status, lastSequence, seen, ledger>>
     /\ result = "ok"
  \/ /\ status[p] = "PROCESSING" /\ reservation[p] \in {"FROZEN", "CONFIRMED"}
     /\ Refused
     /\ result = "ok"
  \/ /\ ~Exists(p) \/ (status[p] = "PROCESSING" /\ reservation[p] = "NONE" /\ ~Affordable(p))
     /\ Refused
     /\ result = "failed"
  \/ /\ Exists(p)
     /\ status[p] # "PROCESSING" \/ reservation[p] = "CANCELLED"
     /\ Refused
     /\ result = "error"

\* Mutant: a payment finished meanwhile is failed all the same.
FailAndReleaseAnyway(p, result) ==
  \/ /\ Exists(p)
     /\ GiveUp(p, "FAILED")
     /\ Write(p, Released(p) \o <<<<"STATUS", "FAILED">>>>)
     /\ UNCHANGED <<lastSequence, seen>>
     /\ result = "ok"
  \/ /\ ~Exists(p)
     /\ Refused
     /\ result = "error"

FailAndRelease(p, result) ==
  \/ /\ Exists(p) /\ status[p] \notin Final
     /\ GiveUp(p, "FAILED")
     /\ Write(p, Released(p) \o <<<<"STATUS", "FAILED">>>>)
     /\ UNCHANGED <<lastSequence, seen>>
     /\ result = "ok"
  \/ /\ ~Exists(p) \/ status[p] \in Final
     /\ Refused
     /\ result = "error"

\* Mutants: the reservation's status is written to the payment; a finished
\* payment can be closed.
CloseMixedUp(p) ==
  /\ status[p] = "PROCESSING"
  /\ GiveUp(p, "CANCELLED")
  /\ Write(p, Released(p) \o <<<<"STATUS", "CLOSED">>>>)
  /\ UNCHANGED <<lastSequence, seen>>

CloseAnyPayment(p) ==
  /\ Exists(p)
  /\ GiveUp(p, "CLOSED")
  /\ Write(p, Released(p) \o <<<<"STATUS", "CLOSED">>>>)
  /\ UNCHANGED <<lastSequence, seen>>

ClosePayment(p) ==
  /\ status[p] = "PROCESSING"
  /\ GiveUp(p, "CLOSED")
  /\ Write(p, Released(p) \o <<<<"STATUS", "CLOSED">>>>)
  /\ UNCHANGED <<lastSequence, seen>>

\* The event id is taken in before the callback is judged, and stays taken in
\* when the callback is then refused.
TakeIn(p, cb) == seen' = [seen EXCEPT ![p] = @ \cup {cb.event}]

Ignored(p, cb, kind) ==
  /\ Write(p, <<<<kind, cb.event>>>>)
  /\ UNCHANGED <<status, lastSequence, reservation, balance, ledger>>

Apply(p, cb) ==
  /\ lastSequence' = [lastSequence EXCEPT ![p] = cb.sequence]
  /\ \/ /\ cb.outcome = "success"
        /\ reservation' = [reservation EXCEPT ![p] = "CONFIRMED"]
        /\ balance' = [available |-> balance.available, frozen |-> balance.frozen - Amount[p]]
        /\ ledger' = Append(ledger, p)
        /\ SetStatus(p, "SUCCESS")
        /\ Write(p, <<<<"ACCEPTED", cb.event>>, <<"FUNDS", "CONFIRMED">>, <<"STATUS", "SUCCESS">>>>)
     \/ /\ cb.outcome = "failed"
        /\ GiveUp(p, "FAILED")
        /\ Write(p, <<<<"ACCEPTED", cb.event>>>> \o Released(p) \o <<<<"STATUS", "FAILED">>>>)

\* A callback not seen before, by what becomes of it.
Judge(p, cb, result) ==
  \/ /\ cb.sequence <= lastSequence[p]
     /\ Ignored(p, cb, "OUT_OF_ORDER")
     /\ result = "ok"
  \/ /\ cb.sequence > lastSequence[p] /\ status[p] \in Final
     /\ Ignored(p, cb, "TERMINAL_IGNORED")
     /\ result = "ok"
  \/ /\ cb.sequence > lastSequence[p] /\ status[p] = "INIT"
     /\ UNCHANGED <<status, lastSequence, reservation, balance, ledger, journal>>
     /\ result = "error"
  \/ /\ cb.sequence > lastSequence[p] /\ status[p] = "PROCESSING"
     /\ cb.outcome = "success" /\ ~Frozen(p)
     /\ Ignored(p, cb, "ACCEPTED")
     /\ result = "error"
  \/ /\ cb.sequence > lastSequence[p] /\ status[p] = "PROCESSING"
     /\ cb.outcome = "failed" \/ Frozen(p)
     /\ Apply(p, cb)
     /\ result = "ok"

ProcessCallback(p, cb, result) ==
  \/ /\ ~Exists(p)
     /\ Refused
     /\ result = "error"
  \/ /\ Exists(p) /\ cb.event \in seen[p]
     /\ Refused
     /\ result = "ok"
  \/ /\ Exists(p) /\ cb.event \notin seen[p]
     /\ TakeIn(p, cb)
     /\ Judge(p, cb, result)

ResetStore ==
  /\ status'       = [p \in Payment |-> "NONE"]
  /\ lastSequence' = [p \in Payment |-> 0]
  /\ seen'         = [p \in Payment |-> {}]
  /\ reservation'  = [p \in Payment |-> "NONE"]
  /\ balance'      = Opening
  /\ ledger'       = <<>>
  /\ journal'      = [p \in Payment |-> <<>>]

-----------------------------------------------------------------------------
(* What must hold of the tables, whoever calls in which order.             *)

Total(s) == SumFunctionOnSet(Amount, {p \in Payment : reservation[p] = s})

\* Money is neither created nor lost: what is frozen is what reservations
\* hold, what has left the account is what the ledger says, and the account is
\* never overdrawn.
FundsConserved ==
  /\ balance.available >= 0
  /\ balance.frozen = Total("FROZEN")
  /\ balance.available + balance.frozen
       + SumFunctionOnSet([i \in DOMAIN ledger |-> Amount[ledger[i]]], DOMAIN ledger) = InitialBalance

\* A payment is charged once if it succeeded and never otherwise, and no
\* finished payment holds funds, whatever finished it and in which order
\* callbacks, closing and the Create workflow came.
ChargedAsDecided ==
  \A p \in Payment :
    /\ Cardinality({i \in DOMAIN ledger : ledger[i] = p}) = IF status[p] = "SUCCESS" THEN 1 ELSE 0
    /\ status[p] = "SUCCESS" <=> reservation[p] = "CONFIRMED"
    /\ Frozen(p) => status[p] = "PROCESSING"

\* The statuses a payment went through, the last one being s.
Course(s) == CASE s = "NONE"       -> <<>>
               [] s = "INIT"       -> <<"INIT">>
               [] s = "PROCESSING" -> <<"INIT", "PROCESSING">>
               [] OTHER            -> <<"INIT", "PROCESSING", s>>

StatusEntries(j) == {i \in DOMAIN j : j[i][1] = "STATUS"}

\* The n-th status entry of the journal j is the n-th of course, and j has no
\* other.
Tells(j, course) ==
  /\ Cardinality(StatusEntries(j)) = Len(course)
  /\ \A i \in StatusEntries(j) : j[i][2] = course[Cardinality({k \in StatusEntries(j) : k <= i})]

Settlement == {<<"FUNDS", "CONFIRMED">>, <<"FUNDS", "RELEASED">>}

\* The statuses a settlement of the funds leads to.
LeadsTo(settlement) ==
  IF settlement[2] = "CONFIRMED" THEN {<<"STATUS", "SUCCESS">>} ELSE {<<"STATUS", "FAILED">>, <<"STATUS", "CLOSED">>}

\* The journal of a payment tells its status changes, each once and in order,
\* and a charge or a release of funds comes just before the status it leads to.
JournalTellsStatus ==
  \A p \in Payment :
    /\ Tells(journal[p], Course(status[p]))
    /\ \A i \in DOMAIN journal[p] :
         journal[p][i] \in Settlement =>
           i < Len(journal[p]) /\ journal[p][i + 1] \in LeadsTo(journal[p][i])

\* What a final status was, it stays, until everything is reset.
FinalForEver ==
  [][\A p \in Payment : status[p] \in Final =>
       status'[p] = status[p] \/ (\A q \in Payment : status'[q] = "NONE")]_storeVars

-----------------------------------------------------------------------------
(* What the program says of itself and does not keep.                      *)

\* A repeated callback is answered "event id was already processed"
\* (memory.go): every event id taken in has been ignored with a reason or
\* accepted and then carried to a final status.
SeenWasProcessed ==
  \A p \in Payment : \A e \in seen[p] :
    \E i \in DOMAIN journal[p] :
      \/ journal[p][i] \in {<<"OUT_OF_ORDER", e>>, <<"TERMINAL_IGNORED", e>>}
      \/ journal[p][i] = <<"ACCEPTED", e>> /\ status[p] \in {"SUCCESS", "FAILED"}

=============================================================================
